------------------------------- MODULE SignTx -------------------------------
(***************************************************************************)
(* signtx.go: the types that a transaction uses and the registry does not  *)
(* know, found by walking the JSON objects of its messages.  The fields of *)
(* an object are visited in the random order of Go's maps.                 *)
(*                                                                         *)
(* An object is the type it says it has and the objects under it: the      *)
(* values of its fields, and the elements of the arrays it holds, which    *)
(* encoding/json decodes to []any, never to the []map[string]any that the  *)
(* walk has a case for.                                                    *)
(***************************************************************************)
EXTENDS Naturals, Sequences, SequencesExt

CONSTANTS
  Transactions,   \* the possible transactions
  Registered,     \* the types of the registry
  Untyped,        \* the type of an object without "@type"
  NotAString      \* the type of one whose "@type" isn't a string

ASSUME TransactionsAssumption ==
  /\ Transactions # {}
  /\ \A t \in Transactions :
       /\ t.messages \in Seq(DOMAIN t.type)
       /\ t.objects \in [DOMAIN t.type -> SUBSET DOMAIN t.type]
       /\ t.arrays \in [DOMAIN t.type -> SUBSET DOMAIN t.type]

VARIABLES
  tx,             \* the transaction
  msg,            \* the messages that are done
  walk,           \* for each call of findUnregisteredTypes, the fields to visit
  types,          \* the unregistered types found
  signing         \* "walking", then "printed" or "panic"

signVars == <<tx, msg, walk, types, signing>>

\* The fields of an object, each with its kind.
Fields(o) ==
  (IF tx.type[o] = Untyped THEN {} ELSE {<<"@type", o>>})
    \cup {<<"object", c>> : c \in tx.objects[o]}
    \cup {<<"array", c>> : c \in tx.arrays[o]}

SignInit(transactions) ==
  /\ tx \in transactions
  /\ msg = 0
  /\ walk = <<>>
  /\ types = <<>>
  /\ signing = "walking"

NextMessage ==
  /\ signing = "walking" /\ walk = <<>>
  /\ msg < Len(tx.messages)
  /\ msg' = msg + 1
  /\ walk' = <<Fields(tx.messages[msg + 1])>>
  /\ UNCHANGED <<tx, types, signing>>

\* Some field of the object of the innermost call.
Visit(kind, o) ==
  signing = "walking" /\ walk # <<>> /\ <<kind, o>> \in Last(walk)
Rest(kind, o) == [walk EXCEPT ![Len(walk)] = @ \ {<<kind, o>>}]

\* Mutant: a type that is registered ends the search under its object.
VisitType_Stop(o) ==
  /\ Visit("@type", o)
  /\ tx.type[o] # NotAString
  /\ types' = IF tx.type[o] \in Registered \cup ToSet(types) THEN types
              ELSE Append(types, tx.type[o])
  /\ walk' = IF tx.type[o] \in Registered
             THEN [walk EXCEPT ![Len(walk)] = {}] ELSE Rest("@type", o)
  /\ UNCHANGED <<tx, msg, signing>>

\* A type that isn't registered is added to the list, once.
VisitType(o) ==
  /\ Visit("@type", o)
  /\ tx.type[o] # NotAString
  /\ types' = IF tx.type[o] \in Registered \cup ToSet(types) THEN types
              ELSE Append(types, tx.type[o])
  /\ walk' = Rest("@type", o)
  /\ UNCHANGED <<tx, msg, signing>>

TypePanics(o) ==
  /\ Visit("@type", o)
  /\ tx.type[o] = NotAString
  /\ signing' = "panic"
  /\ UNCHANGED <<tx, msg, walk, types>>

VisitObject(o) ==
  /\ Visit("object", o)
  /\ walk' = Append(Rest("object", o), Fields(o))
  /\ UNCHANGED <<tx, msg, types, signing>>

\* No case of the type switch matches an array.
VisitArray(o) ==
  /\ Visit("array", o)
  /\ walk' = Rest("array", o)
  /\ UNCHANGED <<tx, msg, types, signing>>

Return ==
  /\ signing = "walking" /\ walk # <<>>
  /\ Last(walk) = {}
  /\ walk' = Front(walk)
  /\ UNCHANGED <<tx, msg, types, signing>>

PrintTypes ==
  /\ signing = "walking" /\ walk = <<>>
  /\ msg = Len(tx.messages)
  /\ signing' = "printed"
  /\ UNCHANGED <<tx, msg, walk, types>>

SignNext ==
  \/ NextMessage
  \/ \E o \in DOMAIN tx.type :
       VisitType(o) \/ TypePanics(o) \/ VisitObject(o) \/ VisitArray(o)
  \/ Return
  \/ PrintTypes
=============================================================================
