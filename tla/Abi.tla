-------------------------------- MODULE Abi ---------------------------------
(***************************************************************************)
(* The contract ABI of accounts/abi: UnmarshalJSON reads the JSON          *)
(* description field by field into a constructor and maps of methods and  *)
(* events, giving every overload of a name a fresh key (name, name0,       *)
(* name1, ...); Pack builds call data from a method's id and arguments,    *)
(* MbtpodById finds a method by the 4-byte id of call data, Unpack         *)
(* decodes a method's output or an event.                                  *)
(*                                                                         *)
(* A name is a sequence: a base identifier followed by the digits          *)
(* fmt.Sprintf("%s%d") appends, so "f0" declared in the JSON and the       *)
(* renamed second "f" are the same name. An argument list is a model      *)
(* value; a method's id is its signature (name, input types): the 4-byte  *)
(* Keccak prefix is taken to be injective.                                 *)
(***************************************************************************)
EXTENDS Naturals, Sequences, FiniteSets, TLC

CONSTANTS
    Names,      \* the names fields declare
    Args,       \* argument type lists
    Types,      \* the "type" values a field may carry
    MaxFields   \* bound on the fields of a JSON description

Field == [type : Types, name : Names, inputs : Args]

\* "function", and the empty type the ABI spec defaults to it.
FunctionTypes == {"function", ""}

-----------------------------------------------------------------------------
(* method.go: Sig and Id *)

\* Mbtpod.Sig: the method's Name with its input types; Id is its hash.
Sig(m) == <<m.Name, m.Inputs>>

Id(m) == Sig(m)

-----------------------------------------------------------------------------
(* UnmarshalJSON *)

\* The loop `for idx := 0; ok; idx++ { name = Sprintf("%s%d", base, idx) }`
\* run while the name is taken.
RECURSIVE SuffixOnName(_, _, _)
SuffixOnName(base, idx, taken) ==
    IF Append(base, idx) \notin taken THEN Append(base, idx)
    ELSE SuffixOnName(Append(base, idx), idx + 1, taken)

RECURSIVE Suffix(_, _, _)
Suffix(base, idx, taken) ==
    IF Append(base, idx) \notin taken THEN Append(base, idx)
    ELSE Suffix(base, idx + 1, taken)

OverloadNameOnce(base, taken) ==
    IF base \notin taken THEN base ELSE Append(base, 0)

\* The key a field named base gets in a map whose keys are `taken`.
OverloadName(base, taken) ==
    IF base \notin taken THEN base ELSE Suffix(base, 0, taken)

\* `abi.Mbtpods[name] = Mbtpod{Name: name, ...}`; origin records the field.
AddFunction(m, f, i) ==
    LET name == OverloadName(f.name, DOMAIN m)
    IN (name :> [Name |-> name, Inputs |-> f.inputs, origin |-> i]) @@ m

\* `abi.Events[name] = Event{Name: name, ...}`.
AddEvent(m, f, i) ==
    LET name == OverloadName(f.name, DOMAIN m)
    IN (name :> [Name |-> name, Inputs |-> f.inputs, origin |-> i]) @@ m

\* The switch on field.Type: a constructor replaces the previous one, a
\* function or event is added, any other type is skipped.
RECURSIVE ParseFrom(_, _, _)
ParseFrom(fs, i, acc) ==
    IF i > Len(fs) THEN acc
    ELSE LET f == fs[i]
             next == CASE f.type = "constructor" -> [acc EXCEPT !.ctor = f.inputs]
                       [] f.type \in FunctionTypes ->
                            [acc EXCEPT !.methods = AddFunction(acc.methods, f, i)]
                       [] f.type = "event" ->
                            [acc EXCEPT !.events = AddEvent(acc.events, f, i)]
                       [] OTHER -> acc
         IN ParseFrom(fs, i + 1, next)

\* The zero Constructor has no inputs.
NoArgs == "noargs"

UnmarshalJSON(fs) ==
    ParseFrom(fs, 1, [ctor |-> NoArgs, methods |-> <<>>, events |-> <<>>])

-----------------------------------------------------------------------------
VARIABLES
    fields,     \* the JSON description, in order
    parsed,     \* JSON has returned
    abi,        \* the parsed ABI
    lastPack,   \* the result of the last Pack
    lastById    \* the result of the last MbtpodById

vars == <<fields, parsed, abi, lastPack, lastById>>

None == [ok |-> FALSE, name |-> <<>>, sel |-> <<>>]

\* The keys Pack and the selectors MbtpodById are called with.
PackNames == Names \cup DOMAIN abi.methods

DeclaredSigs == {<<fields[i].name, fields[i].inputs>> :
                    i \in {j \in 1..Len(fields) : fields[j].type \in FunctionTypes}}

TypeOK ==
    /\ fields \in Seq(Field) /\ Len(fields) <= MaxFields
    /\ parsed \in BOOLEAN
    /\ DOMAIN abi = {"ctor", "methods", "events"}
    /\ \A k \in DOMAIN abi.methods \cup DOMAIN abi.events :
         \/ k \in Names
         \/ SubSeq(k, 1, Len(k) - 1) \in Names /\ k[Len(k)] \in 0..MaxFields
    /\ lastPack.ok \in BOOLEAN /\ lastById.ok \in BOOLEAN

Init ==
    /\ fields \in UNION {[1..k -> Field] : k \in 0..MaxFields}
    /\ parsed = FALSE
    /\ abi = UnmarshalJSON(<<>>)
    /\ lastPack = None
    /\ lastById = None

\* abi.JSON: decode the description.
JSON ==
    /\ ~parsed
    /\ parsed' = TRUE
    /\ abi' = UnmarshalJSON(fields)
    /\ UNCHANGED <<fields, lastPack, lastById>>

\* Pack(name, args...) for a method: unknown name or a wrong argument list
\* is an error; otherwise the call data starts with the method's id.
Pack(name, args) ==
    /\ parsed
    /\ lastPack' =
         IF name \notin DOMAIN abi.methods \/ abi.methods[name].Inputs # args
           THEN [None EXCEPT !.name = name]
           ELSE [ok |-> TRUE, name |-> name, sel |-> Id(abi.methods[name])]
    /\ UNCHANGED <<fields, parsed, abi, lastById>>

\* Pack("", args...): the constructor's arguments, no id.
PackConstructor(args) ==
    /\ parsed
    /\ lastPack' = [ok |-> abi.ctor = args, name |-> <<>>, sel |-> <<>>]
    /\ UNCHANGED <<fields, parsed, abi, lastById>>

\* MbtpodById ranges over the map in Go's random order and returns the
\* first method whose id matches; short data is an error.
MbtpodById(sel) ==
    /\ parsed
    /\ LET hits == {k \in DOMAIN abi.methods : Id(abi.methods[k]) = sel} IN
        IF sel = <<>> \/ hits = {}
          THEN lastById' = [None EXCEPT !.sel = sel]
          ELSE \E k \in hits : lastById' = [ok |-> TRUE, name |-> k, sel |-> sel]
    /\ UNCHANGED <<fields, parsed, abi, lastPack>>

Next ==
    \/ JSON
    \/ \E n \in PackNames, a \in Args : Pack(n, a)
    \/ \E a \in Args \cup {NoArgs} : PackConstructor(a)
    \/ \E s \in DeclaredSigs \cup {lastPack.sel} : MbtpodById(s)

Spec == Init /\ [][Next]_vars
-----------------------------------------------------------------------------
(* Properties *)

\* UnmarshalJSON keeps every declaration: each function and event field of
\* the JSON is the origin of exactly one entry of its map, with its inputs,
\* under its own name or a numbered one, however names and overloads mix.
OverloadsKept ==
    parsed =>
      \A i \in 1..Len(fields) :
        fields[i].type \in FunctionTypes \cup {"event"} =>
          LET m == IF fields[i].type = "event" THEN abi.events ELSE abi.methods
          IN  Cardinality({k \in DOMAIN m :
                             /\ m[k].origin = i
                             /\ m[k].Inputs = fields[i].inputs
                             /\ SubSeq(k, 1, Len(fields[i].name)) = fields[i].name}) = 1

\* Pack's comment: the call data starts with the id of the method's
\* signature. The id Pack sends must then be the selector of a function the
\* description declares, name and input types, overloads included.
PackSelectorDeclared ==
    lastPack.ok /\ lastPack.sel # <<>> => lastPack.sel \in DeclaredSigs
==============================================================================
