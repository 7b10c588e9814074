----------------------------- MODULE DialogueMC -----------------------------
(***************************************************************************)
(* The knowledge files of the instances, cut down to six capabilities of   *)
(* the shapes that are shipped: a summary that an office may narrow, a     *)
(* lookup by name, a ranking over a period, a listing of one office        *)
(* through a dataset, the resolver of a probe, and the continuation for a  *)
(* chosen client; and the messages of a user.                              *)
(***************************************************************************)
EXTENDS Dialogue

QueryParameter(name, kind, required, source) ==
    [name |-> name, kind |-> kind, required |-> required, source |-> source]

OfficeScope == QueryParameter("office_ids", "array_bigint", TRUE, "authorized_scope")

Policy(name, type, required, default) ==
    [name |-> name, type |-> {type}, required |-> {required}, default |-> default,
     hardCap |-> {}, userRequired |-> {}, resolution |-> << >>, probe |-> {}]

Casts == [array_bigint |-> "bigint[]", string |-> "text", date |-> "date", integer |-> "bigint"]

Query(id, parameters, between) ==
    [id |-> id, database |-> "fineract", areas |-> {"clients"}, parameters |-> parameters,
     outputs |-> <<"name">>, timeout |-> {},
     sql |-> [file |-> TRUE, reads |-> TRUE, statements |-> 1,
              casts |-> [i \in DOMAIN parameters |-> Casts[parameters[i].kind]],
              limitAt |-> 0, currency |-> "none", officesAt |-> 1, between |-> between,
              bounded |-> TRUE, descending |-> FALSE, random |-> FALSE, columns |-> <<"name">>]]

Capability(id, mode, required, policies) ==
    [id |-> id, status |-> "approved_mvp", domain |-> "client", query |-> id, mode |-> mode,
     shape |-> TRUE, kind |-> "terminal", members |-> << >>, areas |-> {"clients"},
     metrics |-> {"client_count"}, required |-> required, optional |-> {}, policies |-> policies,
     defaultLimit |-> {}, maxLimit |-> {}, maxDays |-> {}, recipe |-> {}, prose |-> {{}}]

InputFile(id, parameters, type) ==
    [id |-> id, parameters |-> parameters, type |-> type, min |-> {}, max |-> {}]

Period == <<QueryParameter("from_date", "date", TRUE, "user"),
            QueryParameter("to_date", "date", TRUE, "user")>>

Recipe(dataset, shape, filters) ==
    [dataset |-> dataset, shape |-> shape, orderBy |-> {}, projection |-> {}, filters |-> filters]

MappedFrom(filter, name) == [filter |-> filter, operator |-> "eq", parameter |-> {name}, value |-> {}]

Slot(id, kind, operator, exact) ==
    [id |-> id, expr |-> id, kind |-> kind, operators |-> {operator}, exact |-> exact,
     caseInsensitive |-> kind = "string" /\ ~exact, grammatical |-> TRUE]

Shape(id, role, produces) ==
    [id |-> id, role |-> role, rowCap |-> {25}, produces |-> produces, fragment |-> TRUE,
     orderBy |-> {}, outputs |-> << >>, parameters |-> << >>, prepared |-> TRUE]

OfficeDataset ==
    [id |-> "clients", database |-> "fineract", timeout |-> {3000}, loanTables |-> FALSE, orderBy |-> << >>,
     filters |-> <<Slot("office", "string", "eq", FALSE), Slot("activated", "date", "between", FALSE)>>,
     shapes |-> <<Shape("rows", "terminal", << >>),
                  Shape("candidates", "resolver", <<[slot |-> "client_id", kind |-> "integer"]>>)>>,
     outputs |-> <<[name |-> "name", kind |-> "string", sensitivity |-> "public_business",
                    core |-> TRUE, foreignKey |-> FALSE]>>,
     parameters |-> <<OfficeScope>>, entity |-> {}, exempt |-> {"name"}]

BaseFiles ==
    [garbled |-> FALSE, classification |-> {},
     areas |-> <<[id |-> "clients", status |-> "included_mvp_domain"]>>,
     domains |-> <<[id |-> "client", status |-> "approved_mvp", areas |-> {"clients"}]>>,
     schemas |-> << >>, policies |-> << >>, responses |-> << >>,
     metrics |-> <<[id |-> "client_count", checks |-> TRUE, areas |-> {"clients"},
                    domain |-> {"client"}, aliases |-> {"clients"}],
                   [id |-> "balance", checks |-> TRUE, areas |-> {}, domain |-> {}, aliases |-> {}]>>,
     capabilities |-> <<
        Capability("summary", "summary", {}, <<Policy("office_name", "string", FALSE, {})>>),
        Capability("client_lookup", "list", {}, <<Policy("search", "string", TRUE, {})>>),
        [Capability("ranking", "top_n", {},
            <<Policy("from_date", "date", FALSE, {"business_today - 30d"}),
              Policy("to_date", "date", FALSE, {"business_today"}),
              [Policy("limit", "integer", TRUE, {}) EXCEPT !.hardCap = {100}]>>)
            EXCEPT !.defaultLimit = {10}, !.maxLimit = {100}, !.metrics = {"balance"}],
        [Capability("office_clients", "list", {}, <<Policy("office_name", "string", TRUE, {})>>)
            EXCEPT !.recipe = {Recipe("clients", "rows", <<MappedFrom("office", "office_name")>>)}],
        [Capability("client_identity_resolve", "summary", {}, << >>)
            EXCEPT !.kind = "resolver", !.recipe = {Recipe("clients", "candidates", << >>)}],
        Capability("client_relationship_by_id", "list", {},
            <<[Policy("client_id", "integer", TRUE, {})
                  EXCEPT !.resolution = <<"authorized_data_probe">>,
                         !.probe = {[dataset |-> "clients", shape |-> "candidates", slot |-> "client_id"]}]>>)>>,
     queries |-> <<
        Query("summary", <<OfficeScope, QueryParameter("office_name", "string", FALSE, "user")>>, << >>),
        Query("client_lookup", <<OfficeScope, QueryParameter("search", "string", TRUE, "user")>>, << >>),
        Query("ranking", <<OfficeScope>> \o Period
                         \o <<QueryParameter("limit", "integer", TRUE, "user")>>, <<2, 3>>),
        Query("office_clients", <<OfficeScope, QueryParameter("office_name", "string", TRUE, "user")>>, << >>),
        Query("client_identity_resolve", <<OfficeScope>>, << >>),
        Query("client_relationship_by_id",
              <<OfficeScope, QueryParameter("client_id", "integer", TRUE, "user")>>, << >>)>>,
     inputs |-> <<InputFile("date_range", <<"from_date", "to_date">>, "date_range"),
                  [InputFile("limit", <<"limit">>, "integer") EXCEPT !.min = {1}],
                  InputFile("search", <<"search">>, "text"),
                  InputFile("office_name", <<"office_name">>, "text"),
                  InputFile("client_id", <<"client_id">>, "integer")>>,
     bindings |-> [from_date |-> <<"from_date">>, to_date |-> <<"to_date">>,
                   limit |-> <<"limit_value">>, search |-> <<"person_name">>,
                   office_name |-> <<"office">>, client_id |-> <<"client_id">>],
     datasets |-> <<OfficeDataset>>]


-----------------------------------------------------------------------------
(* What the dialogue of the instances is about *)

Served == Load(BaseFiles)
AllIds == Ids(BaseFiles.capabilities)

\* The index still holds a capability the files no longer have.
StaleIndex == AllIds \union {"retired"}

\* A principal may have every capability, or not the ranking.
FullScope  == StaleIndex
SomeScopes == {FullScope, AllIds \ {"ranking"}}

Says(said, typed) == [said |-> said, typed |-> typed, metric |-> {}, bad |-> FALSE,
                      other |-> FALSE, exact |-> {}, meaningful |-> TRUE]

\* A domain and no more, an office, a name and an office in words the extractor
\* misses, a metric, a period, a period that does not parse, "others", and the
\* words of an option.
Messages == {[Says({}, {}) EXCEPT !.other = TRUE], Says({"office"}, {"office"}),
             Says({}, {"person_name", "office"}),
             [Says({}, {}) EXCEPT !.metric = {"balance"}],
             Says({"from_date", "to_date"}, {}),
             [Says({}, {}) EXCEPT !.bad = TRUE],
             [Says({}, {}) EXCEPT !.exact = {"others"}, !.meaningful = FALSE],
             [Says({}, {}) EXCEPT !.exact = {"client:1"}]}
=============================================================================
