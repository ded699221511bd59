------------------------------ MODULE Binding ------------------------------
(***************************************************************************)
(* Context.BindQuery, BindForm and BindJSON: filling a struct from the     *)
(* strings of a request, in the widths of its fields, and validating it    *)
(* by its validate tags.  A handler may bind the same struct several       *)
(* times, from the one request it serves.                                  *)
(*                                                                         *)
(* A string of the request is the number it spells, if it spells one, and  *)
(* its length.  The 2^64 numbers that strconv parses are Word many here; a *)
(* field of type int8 holds fewer, its size.  A field has the kind         *)
(* "string", "int", "uint", "bool" or "ints" (a slice), ptr if it is a     *)
(* pointer to that, and its rules; min and max hold the bounds of its tag. *)
(*                                                                         *)
(* A query and a form have pairs that are well formed and may be bad: have *)
(* others, or have been cut off.  What url.ParseQuery makes of it is the   *)
(* pairs, and an error if it is bad.                                       *)
(***************************************************************************)
EXTENDS Integers, Sequences

CONSTANTS
  Structs,    (* the struct types, as sequences of fields                  *)
  Keys,       (* the names that the tags of fields give                    *)
  Word,       (* how many values int64 and uint64 have                     *)
  Queries,    (* the query strings                                         *)
  Bodies,     (* the bodies: forms, with the Content-Type and the method   *)
              (* that ParseForm asks for, and JSON                         *)
  MaxBinds    (* bound on the Bind calls of the handler                    *)

NoData == [k \in Keys |-> << >>]
Blank == [isNum |-> FALSE, num |-> 0, len |-> 0]

Ints(size) == -(size \div 2) .. (size \div 2) - 1
Uints(size) == 0 .. size - 1

Texts == [isNum : BOOLEAN, num : Int, len : Nat]
Data == [Keys -> Seq(Texts)]
Forms == [type : {"form"}, pairs : Data, bad : BOOLEAN]

(* What JSON has for a key: nothing, a scalar or a list of scalars.  A     *)
(* number that is no integer has a text that is no number.  A document     *)
(* that is no object, or is cut off, is bad.                               *)
Scalars == [type : {"null", "bool", "number", "string"}, text : Texts]
Absent == [shape |-> "absent", items |-> << >>]
JSONValues ==
  {Absent} \cup [shape : {"scalar"}, items : Seq(Scalars) \ {<< >>}]
           \cup [shape : {"list"}, items : Seq(Scalars)]
Documents == [type : {"json"}, values : [Keys -> JSONValues], bad : BOOLEAN]

Fields ==
  [key : Keys, kind : {"string", "int", "uint", "bool", "ints"}, ptr : BOOLEAN,
   size : Nat \ {0}, tags : SUBSET {"query", "form", "json"},
   required : BOOLEAN, min : Seq(Int), max : Seq(Int)]

(* encoding/json ignores fields of one struct that share a name. *)
ASSUME BindingConstants ==
  /\ Word \in Nat \ {0} /\ MaxBinds \in Nat
  /\ Structs \subseteq Seq(Fields)
  /\ \A s \in Structs : \A i \in DOMAIN s :
       /\ \A bounds \in {s[i].min, s[i].max} : \A k \in DOMAIN bounds : bounds[k] \in Ints(Word)
       /\ \A j \in DOMAIN s : i # j /\ "json" \in s[i].tags \cap s[j].tags => s[i].key # s[j].key
  /\ Queries \subseteq [pairs : Data, bad : BOOLEAN]
  /\ Bodies \subseteq Forms \cup Documents

VARIABLES
  fields,   (* the struct type                                             *)
  query,    (* URL.RawQuery                                                *)
  body,
  reader,   (* who has read the body: "none", "form" (ParseForm) or "json" *)
  form,     (* Request.Form, << >> before ParseForm                        *)
  v,        (* the values of the fields                                    *)
  result,   (* of the last Bind: "none", "ok", "malformed", "mistyped",    *)
            (* "parse", "invalid"                                          *)
  by,       (* history: what it bound, "query", "form" or "json"           *)
  before,   (* history: v before the last Bind                             *)
  reported, (* history: a Bind has returned "malformed"                    *)
  binds

bindingVars == <<fields, query, body, reader, form, v, result, by, before, reported, binds>>
request == <<fields, query, body>>

(* Mistaken forms of the definitions below: a slice that takes its first   *)
(* string only, a maximum for numbers only, a loop that goes on after an   *)
(* error; errors of ParseForm and of the decoder that are not looked at.   *)
FirstOnly(f, inputs) == << inputs[1].num >>
MaxOfNumbers(f, x, max) == f.kind \in {"int", "uint"} /\ ~f.ptr => x <= max
GoesOn(acc) == FALSE
FaultIgnored == FALSE
MistypedIgnored(i) == FALSE

----------------------------------------------------------------------------
(* setField *)

(* ParseInt, ParseUint and ParseBool; a flag without a value is true. *)
Parses(f, s) ==
  CASE f.kind = "string" -> TRUE
    [] f.kind \in {"int", "ints"} -> s.isNum /\ s.num \in Ints(Word)
    [] f.kind = "uint" -> s.isNum /\ s.num \in Uints(Word)
    [] f.kind = "bool" -> s = Blank \/ (s.isNum /\ s.num \in {0, 1})

(* reflect's SetInt and SetUint keep the low bits. *)
Truncated(n, size) ==
  LET low == n % size IN IF low \in Ints(size) THEN low ELSE low - size

Items(f, inputs) == [i \in DOMAIN inputs |-> Truncated(inputs[i].num, f.size)]

Stored(f, inputs) ==
  LET s == inputs[1] IN
  CASE f.kind = "string" -> s
    [] f.kind = "int" -> Truncated(s.num, f.size)
    [] f.kind = "uint" -> s.num % f.size
    [] f.kind = "bool" -> s = Blank \/ s.num = 1
    [] f.kind = "ints" -> Items(f, inputs)

Zero(f) ==
  CASE f.kind = "string" -> Blank
    [] f.kind \in {"int", "uint"} -> 0
    [] f.kind = "bool" -> FALSE
    [] f.kind = "ints" -> << >>

AllParse(f, inputs) ==
  IF f.kind = "ints" THEN \A i \in DOMAIN inputs : Parses(f, inputs[i])
                     ELSE Parses(f, inputs[1])

(* A pointer is allocated before its string is parsed. *)
Held(f, old) == IF f.ptr /\ old = << >> THEN <<Zero(f)>> ELSE old

SetField(f, old, inputs) ==
  IF ~AllParse(f, inputs) THEN Held(f, old)
  ELSE IF f.ptr THEN <<Stored(f, inputs)>> ELSE Stored(f, inputs)

(* bindData: field by field, up to the first error. *)
Stops(acc) == ~acc.ok
BindField(acc, i, data, tag) ==
  LET f == fields[i] IN
  IF Stops(acc) \/ tag \notin f.tags \/ data[f.key] = << >> THEN acc
  ELSE [ok |-> acc.ok /\ AllParse(f, data[f.key]),
        v |-> [acc.v EXCEPT ![i] = SetField(f, @, data[f.key])]]

(* What the first n fields have come to. *)
Bound(data, tag) ==
  LET bound[n \in 0..Len(fields)] ==
        IF n = 0 THEN [ok |-> TRUE, v |-> v] ELSE BindField(bound[n - 1], n, data, tag)
  IN  bound
BindData(data, tag) == Bound(data, tag)[Len(fields)]

----------------------------------------------------------------------------
(* validateStruct *)

Length(f, x) == IF f.kind = "string" THEN x.len ELSE Len(x)

IsZero(f, x) ==
  IF f.ptr THEN x = << >>
  ELSE CASE f.kind \in {"string", "ints"} -> Length(f, x) = 0
         [] f.kind \in {"int", "uint"} -> x = 0
         [] f.kind = "bool" -> FALSE

(* The bound is a Go int; uint64(min) of a negative one is huge.           *)
CheckMin(f, x, min) ==
  \/ f.ptr \/ f.kind = "bool"
  \/ f.kind \in {"string", "ints"} /\ Length(f, x) >= min
  \/ f.kind = "int" /\ x >= min
  \/ f.kind = "uint" /\ x >= min % Word
CheckMax(f, x, max) ==
  \/ f.ptr \/ f.kind = "bool"
  \/ f.kind \in {"string", "ints"} /\ Length(f, x) <= max
  \/ f.kind = "int" /\ x <= max
  \/ f.kind = "uint" /\ x <= max % Word

Passes(f, x) ==
  /\ f.required => ~IsZero(f, x)
  /\ \A k \in DOMAIN f.min : CheckMin(f, x, f.min[k])
  /\ \A k \in DOMAIN f.max : CheckMax(f, x, f.max[k])
Valid(w) == \A i \in 1..Len(fields) : Passes(fields[i], w[i])

----------------------------------------------------------------------------
(* The calls.  A target that is no pointer to a struct changes nothing and *)
(* is left out.                                                            *)

Verdict(w) == IF Valid(w) THEN "ok" ELSE "invalid"

Binds(data, tag) ==
  LET bound == BindData(data, tag) IN
  /\ v' = bound.v
  /\ result' = IF ~bound.ok THEN "parse" ELSE Verdict(bound.v)
  /\ before' = v
  /\ by' = tag

Malformed(tag) ==
  /\ result' = "malformed" /\ reported' = TRUE
  /\ before' = v /\ by' = tag
  /\ UNCHANGED v

Calling == binds < MaxBinds /\ binds' = binds + 1 /\ UNCHANGED request

(* URL.Query() keeps the pairs that are well formed, and no error. *)
BindQuery ==
  /\ Calling
  /\ Binds(query.pairs, "query")
  /\ UNCHANGED <<reader, form, reported>>

(* ParseForm, the first time, reads a body that is a form, and has its     *)
(* pairs come before those of the query.  It sets Request.Form to what is  *)
(* well formed even when it returns an error; then, and from then on,      *)
(* there is nothing to parse, and no error.                                *)
FormUnread == body.type = "form" /\ reader = "none"
FormFault == query.bad \/ (FormUnread /\ body.bad)
BodyFirst == [k \in Keys |-> body.pairs[k] \o query.pairs[k]]

ParseForm ==
  /\ form = << >>
  /\ \/ FormUnread /\ form' = <<BodyFirst>> /\ reader' = "form"
     \/ ~FormUnread /\ form' = <<query.pairs>> /\ UNCHANGED reader

BindForm ==
  /\ Calling
  /\ \/ ParseForm /\ ~FormFault
     \/ form # << >> /\ UNCHANGED <<form, reader>>
  /\ Binds(form'[1], "form")
  /\ UNCHANGED reported

BindFormFails ==
  /\ Calling
  /\ ParseForm /\ FormFault
  /\ Malformed("form")

----------------------------------------------------------------------------
(* json.Decoder: it goes through the fields that the document has, and     *)
(* after a value of another type, or too large for the field, goes on, to  *)
(* report it in the end.                                                   *)

Fits(f, s) ==
  CASE f.kind = "string" -> s.type = "string"
    [] f.kind = "bool" -> s.type = "bool"
    [] f.kind = "uint" -> s.type = "number" /\ s.text.isNum /\ s.text.num \in Uints(f.size)
    [] f.kind \in {"int", "ints"} ->
         s.type = "number" /\ s.text.isNum /\ s.text.num \in Ints(f.size)

Worth(f, s) ==
  CASE f.kind = "string" -> s.text
    [] f.kind = "bool" -> s.text.num = 1
    [] f.kind \in {"int", "uint", "ints"} -> s.text.num

(* The elements are decoded into those that the slice has. *)
DecodeList(f, old, items) ==
  [j \in 1..Len(items) |-> IF Fits(f, items[j]) THEN Worth(f, items[j])
                           ELSE IF j <= Len(old) THEN old[j] ELSE 0]

DecodeBase(f, old, val) ==
  CASE val.shape = "list" /\ f.kind = "ints" -> DecodeList(f, old, val.items)
    [] val.shape = "scalar" /\ f.kind # "ints" /\ Fits(f, val.items[1]) -> Worth(f, val.items[1])
    [] OTHER -> old

(* null is for what can be nil; a pointer is allocated for anything else.  *)
IsNull(val) == val.shape = "scalar" /\ val.items[1].type = "null"
DecodeField(f, old, val) ==
  IF val.shape = "absent" THEN old
  ELSE IF IsNull(val) THEN IF f.ptr \/ f.kind = "ints" THEN << >> ELSE old
  ELSE IF f.ptr THEN << DecodeBase(f, Held(f, old)[1], val) >> ELSE DecodeBase(f, old, val)

Suits(f, val) ==
  \/ val.shape = "absent" \/ IsNull(val)
  \/ val.shape = "scalar" /\ f.kind # "ints" /\ Fits(f, val.items[1])
  \/ /\ val.shape = "list" /\ f.kind = "ints"
     /\ \A j \in 1..Len(val.items) : val.items[j].type = "null" \/ Fits(f, val.items[j])

ValueFor(i) == IF "json" \in fields[i].tags THEN body.values[fields[i].key] ELSE Absent
Mistyped(i) == ~Suits(fields[i], ValueFor(i))
Decoded == [i \in 1..Len(fields) |-> DecodeField(fields[i], v[i], ValueFor(i))]

JSONUnread == body.type = "json" /\ reader = "none"
Drain == reader' = IF reader = "none" THEN "json" ELSE reader

BindJSON ==
  /\ Calling
  /\ JSONUnread /\ ~body.bad
  /\ v' = Decoded
  /\ result' = IF \E i \in 1..Len(fields) : Mistyped(i) THEN "mistyped" ELSE Verdict(Decoded)
  /\ before' = v
  /\ by' = "json"
  /\ Drain
  /\ UNCHANGED <<form, reported>>

(* No JSON in the body, or no body left: nothing is decoded.               *)
BindJSONFails ==
  /\ Calling
  /\ ~JSONUnread \/ body.bad
  /\ Malformed("json")
  /\ Drain
  /\ UNCHANGED form

----------------------------------------------------------------------------
Fresh(s) == [i \in 1..Len(s) |-> IF s[i].ptr THEN << >> ELSE Zero(s[i])]

BindingInit ==
  /\ fields \in Structs
  /\ query \in Queries
  /\ body \in Bodies
  /\ reader = "none"
  /\ form = << >>
  /\ v = Fresh(fields)
  /\ result = "none"
  /\ by = "none"
  /\ before = v
  /\ reported = FALSE
  /\ binds = 0

BindingNext == BindQuery \/ BindForm \/ BindFormFails \/ BindJSON \/ BindJSONFails

BindingSpec == BindingInit /\ [][BindingNext]_bindingVars

----------------------------------------------------------------------------
(* Properties. *)

(* The strings that the request has for the last Bind: of the query, and   *)
(* of the form if ParseForm has come to read it.                           *)
Sent == IF by = "form" /\ reader = "form" THEN BodyFirst ELSE query.pairs
Given(i) == by \in fields[i].tags /\ Sent[fields[i].key] # << >>

(* What the strings mean to a reader of the request; a number that the     *)
(* field is too narrow for is stored by its low bits.                      *)
Denotes(f, x, inputs) ==
  LET y == IF f.ptr THEN x[1] ELSE x
      Width == IF f.kind = "uint" THEN Uints(f.size) ELSE Ints(f.size)
      Same(z, s) == s.isNum /\ (s.num \in Width => z = s.num)
  IN  CASE f.kind = "string" -> y = inputs[1]
        [] f.kind \in {"int", "uint"} -> Same(y, inputs[1])
        [] f.kind = "bool" -> y <=> ~(inputs[1].isNum /\ inputs[1].num = 0)
        [] f.kind = "ints" -> /\ Len(y) = Len(inputs)
                              /\ \A i \in DOMAIN inputs : Same(y[i], inputs[i])

(* A BindQuery or BindForm that reports no error before it validates has   *)
(* put into every field what the well-formed pairs of the request say for  *)
(* it, as far as it fits the field, and has left alone the fields they say *)
(* nothing of.                                                             *)
PairsAsSent ==
  by \in {"query", "form"} /\ result \in {"ok", "invalid"} =>
    \A i \in 1..Len(fields) :
      IF Given(i) THEN Denotes(fields[i], v[i], Sent[fields[i].key])
                  ELSE v[i] = before[i]

(* A Bind that cannot read the request changes nothing.  A BindQuery or    *)
(* BindForm that cannot parse a string fails at one field: it and those    *)
(* after it are as they were, but that a pointer may have been allocated;  *)
(* those before it are bound.                                              *)
FailureStopsThere ==
  /\ result = "malformed" => v = before
  /\ result = "parse" =>
       \E k \in 1..Len(fields) :
         /\ Given(k) /\ ~AllParse(fields[k], Sent[fields[k].key])
         /\ v[k] = IF fields[k].ptr THEN Held(fields[k], before[k]) ELSE before[k]
         /\ \A i \in k + 1..Len(fields) : v[i] = before[i]
         /\ \A i \in 1..k - 1 :
              Given(i) => Denotes(fields[i], v[i], Sent[fields[i].key])

(* Part of the form or the query was malformed or cut off, or the form was *)
(* lost to a BindJSON before it.                                           *)
PartOnly ==
  \/ query.bad
  \/ body.type = "form" /\ (body.bad \/ (reader = "json" /\ body.pairs # NoData))

(* A BindForm that has bound but a part of what was sent comes after a     *)
(* Bind that has reported as much: only the first BindForm does.           *)
PartialFormWasReported ==
  by = "form" /\ result # "malformed" /\ PartOnly => reported

(* What a scalar of JSON means to a reader of the request. *)
Means(f, z, s) ==
  CASE f.kind = "string" -> s.type = "string" /\ z = s.text
    [] f.kind = "bool" -> s.type = "bool" /\ (z <=> s.text.num = 1)
    [] f.kind \in {"int", "uint", "ints"} -> s.type = "number" /\ s.text.isNum /\ z = s.text.num

ItemsMean(f, y, items) ==
  /\ Len(y) = Len(items)
  /\ \A j \in 1..Len(items) : items[j].type = "null" \/ Means(f, y[j], items[j])

(* x, which was old before, is what JSON has for the field. *)
Reads(f, x, old, val) ==
  LET y == IF f.ptr THEN x[1] ELSE x IN
  CASE val.shape = "absent" -> x = old
    [] IsNull(val) -> x = IF f.ptr \/ f.kind = "ints" THEN << >> ELSE old
    [] val.shape = "scalar" /\ ~IsNull(val) -> f.kind # "ints" /\ Means(f, y, val.items[1])
    [] val.shape = "list" -> f.kind = "ints" /\ ItemsMean(f, y, val.items)

(* The elements that fit are stored, others among them or not. *)
FittingMean(f, y, items) ==
  /\ Len(y) = Len(items)
  /\ \A j \in 1..Len(items) : Fits(f, items[j]) => Means(f, y[j], items[j])

(* A BindJSON that reports no error before it validates has stored what    *)
(* the document says, the numbers exactly, and has left alone the fields   *)
(* it says nothing of.  One that reports a value of the wrong type has     *)
(* done so with all other fields, and left such a field as it was, but     *)
(* that a pointer may have been allocated, and that a list has the         *)
(* elements that do fit.                                                   *)
JSONAsSent ==
  by = "json" /\ result # "malformed" =>
    \A i \in 1..Len(fields) :
      \/ Reads(fields[i], v[i], before[i], ValueFor(i))
      \/ /\ result = "mistyped" /\ Mistyped(i)
         /\ \/ v[i] = Held(fields[i], before[i])
            \/ /\ ValueFor(i).shape = "list" /\ fields[i].kind = "ints"
               /\ FittingMean(fields[i], IF fields[i].ptr THEN v[i][1] ELSE v[i],
                              ValueFor(i).items)

(* What a Bind has stored is what the request says, in pairs or in JSON.   *)
BoundAsSent == PairsAsSent /\ JSONAsSent

(* The rules of a field as numbers; a bool is never missing, and min and   *)
(* max say nothing of a pointer.                                           *)
Within(f, y) ==
  /\ \A k \in DOMAIN f.min : y >= f.min[k]
  /\ \A k \in DOMAIN f.max : y <= f.max[k]
Satisfies(f, x) ==
  IF f.ptr THEN f.required => x # << >>
  ELSE CASE f.kind = "bool" -> TRUE
         [] f.kind = "string" -> Within(f, x.len) /\ (f.required => x.len > 0)
         [] f.kind = "ints" -> Within(f, Len(x)) /\ (f.required => x # << >>)
         [] f.kind \in {"int", "uint"} -> Within(f, x) /\ (f.required => x # 0)

(* A negative bound makes no sense for an unsigned number; validateStruct  *)
(* takes it for a huge one.                                                *)
Sensible(f) ==
  f.kind = "uint" /\ ~f.ptr =>
    \A bounds \in {f.min, f.max} : \A k \in DOMAIN bounds : bounds[k] >= 0

(* A struct that a Bind accepts satisfies the rules of its tags, and one   *)
(* that it rejects has a field that breaks one, or a rule without sense.   *)
VerdictIsRight ==
  /\ result = "ok" =>
       \A i \in 1..Len(fields) : Sensible(fields[i]) => Satisfies(fields[i], v[i])
  /\ result = "invalid" =>
       \E i \in 1..Len(fields) : Sensible(fields[i]) => ~Satisfies(fields[i], v[i])
=============================================================================
