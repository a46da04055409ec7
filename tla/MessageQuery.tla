---------------------------- MODULE MessageQuery ----------------------------
(***************************************************************************)
(* GET /v0/messages: from the parameters of a request, by way of getMessages *)
(* (api.go) and buildWhereClause and SelectMessages (mysql.go), to the rows  *)
(* that are sent back.  Filters that make no sense are left out without a    *)
(* word, so what matters is which ones those are and which rows the client   *)
(* gets then.                                                              *)
(*                                                                         *)
(* A request maps the keys field__filter, as records with filter "" if there *)
(* is none, to non-empty sequences of values, and is modelled by its         *)
(* answers.  A value that can be parsed as a number is that number.         *)
(***************************************************************************)
EXTENDS Integers, Sequences, FiniteSets

CONSTANTS
  Uint64s, Int64s,       \* the values strconv.ParseUint, ParseInt and Atoi take
  Compare(_, _, _)       \* MySQL: filter, the field of a row, the value

StringFields == {"id", "batch", "application", "target", "destination", "mode", "plan", "body", "priority", "subject"}
Fields       == StringFields \union {"incident_id", "sent"}       \* messageFields
Filters      == {"", "eq", "ne", "in", "gt", "ge", "lt", "le", "contains", "startswith", "endswith"}
Limit        == [field |-> "limit", filter |-> ""]

(* getMessages cannot parse a value, or has a list where none may be.       *)
Malformed(request) ==
  \E k \in DOMAIN request :
    \/ /\ k.field = "incident_id"
       /\ \E i \in DOMAIN request[k] : request[k][i] \notin Uint64s
    \/ /\ k.field \in {"sent", "created", "limit"}
       /\ Len(request[k]) # 1 \/ request[k][1] \notin Int64s

(* A message is created when it is sent.                                   *)
Column(field) == IF field = "created" THEN "sent" ELSE field

Known(k) == k.field \in Fields \union {"created", "limit"}

(* What is asked of sent goes before what is asked of created.              *)
Overridden(request, k) == k.field = "created" /\ [k EXCEPT !.field = "sent"] \in DOMAIN request

(* The Go type a value has been converted to.                              *)
Kind(field, values) ==
  CASE field \in StringFields        -> IF Len(values) = 1 THEN "string" ELSE "[]string"
    [] field = "incident_id"         -> IF Len(values) = 1 THEN "uint64" ELSE "[]uint64"
    [] field \in {"sent", "created"} -> "time.Time"
    [] field = "limit"               -> "int"

ParsedParams(request) ==
  {[field |-> Column(k.field), filter |-> k.filter, kind |-> Kind(k.field, request[k]), values |-> request[k]] :
     k \in {x \in DOMAIN request : Known(x) /\ ~Overridden(request, x)}}

(* The parameters buildWhereClause makes a condition of.                   *)
Usable(p) ==
  /\ p.field \in Fields
  /\ \/ p.filter \in {"", "eq", "ne"} /\ p.kind \in {"uint64", "string"}
     \/ p.filter = "in" /\ p.kind \in {"[]uint64", "[]string"}
     \/ p.filter \in {"gt", "ge", "lt", "le"} /\ p.kind \in {"uint64", "time.Time"}
     \/ p.filter \in {"contains", "startswith", "endswith"} /\ p.kind = "string"

Where(request) == {p \in ParsedParams(request) : Usable(p)}

(* No filter is "=", and IN is "=" for one of the values.                   *)
Operator(filter) == IF filter \in {"", "in"} THEN "eq" ELSE filter

Condition(p, row) == \E i \in DOMAIN p.values : Compare(Operator(p.filter), row[p.field], p.values[i])

Matching(request, table) == {row \in table : \A p \in Where(request) : Condition(p, row)}

(* ORDER BY sent DESC LIMIT n                                              *)
Newest(rows, n) ==
  {S \in SUBSET rows :
     /\ Cardinality(S) = IF Cardinality(rows) < n THEN Cardinality(rows) ELSE n
     /\ \A row \in rows \ S, s \in S : row.sent <= s.sent}

SelectMessages(request, table) ==
  IF Limit \in DOMAIN request
  THEN Newest(Matching(request, table), request[Limit][1])
  ELSE {Matching(request, table)}

Refused(code) == [code |-> code, rows |-> {}]

(* The answers a request may get; reading the database may always fail.     *)
GetMessages(request, table) ==
  IF Malformed(request) \/ ParsedParams(request) = {}
  THEN {Refused(400)}
  ELSE IF Where(request) = {} \/ (Limit \in DOMAIN request /\ request[Limit][1] < 0)
  THEN {Refused(500)}
  ELSE {[code |-> 200, rows |-> S] : S \in SelectMessages(request, table)} \union {Refused(500)}

-----------------------------------------------------------------------------
(* What the client asks for, whether or not the code understands it: for    *)
(* each field and filter it names, that a value it gives compares.          *)
Asks(k, values, row) ==
  \E i \in DOMAIN values : Compare(Operator(k.filter), row[Column(k.field)], values[i])

Meaningful(k) == k.field \in Fields \union {"created"} /\ k.filter \in Filters

Wanted(request, row) == \A k \in DOMAIN request : Meaningful(k) => Asks(k, request[k], row)

(* The filters that are not left out: a single value to compare with, or a  *)
(* list of at least two for IN.  A field sent can only be compared, not be  *)
(* equal, and created only counts where sent is not asked about.            *)
Understood(request, k) ==
  \/ /\ k.field \in StringFields
     /\ IF k.filter = "in" THEN Len(request[k]) # 1
        ELSE Len(request[k]) = 1 /\ k.filter \in {"", "eq", "ne", "contains", "startswith", "endswith"}
  \/ /\ k.field = "incident_id"
     /\ IF k.filter = "in" THEN Len(request[k]) # 1
        ELSE Len(request[k]) = 1 /\ k.filter \in {"", "eq", "ne", "gt", "ge", "lt", "le"}
  \/ /\ k.field \in {"sent", "created"}
     /\ k.filter \in {"gt", "ge", "lt", "le"}
     /\ ~Overridden(request, k)
=============================================================================
