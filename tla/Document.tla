------------------------------ MODULE Document ------------------------------
(***************************************************************************)
(* A protobuf message as the engines see it through protoreflect.          *)
(*                                                                         *)
(* A document is a function from the positions that hold something to what *)
(* they hold.  A position is the sequence of segments that leads to it     *)
(* from the root: a field of a message, the 1-based place of a list        *)
(* element, or the key of a map entry.  A scalar position maps to its      *)
(* scalar, a message to the mark Msg.  A list or a map has no presence in  *)
(* protobuf, so it has no position of its own: it is its elements.         *)
(*                                                                         *)
(* Such functions, and what is done to them whatever they stand for, are   *)
(* module Tree's.  An unset list field is the empty fragment.              *)
(*                                                                         *)
(* There is one message type, and it is recursive, which is what the       *)
(* sample schema of the repository's tests is.                             *)
(***************************************************************************)
EXTENDS Tree

CONSTANTS
  Field,     (* The fields the message type declares.                        *)
  Key,       (* Map keys.                                                    *)
  Scalar,    (* Scalar values,                                               *)
  Kind,      (* Scalar -> its type, and                                      *)
  Default,   (* the one a field without presence cannot be seen to hold.     *)
  Msg,       (* The mark of a message, and the arm of a message literal.     *)
  Card,      (* Field -> singular, list or map.                              *)
  Type,      (* Field -> the type of the field, its elements or its values.  *)
  OneofOf,   (* Field -> the oneof it is a member of, or NoOneof.            *)
  NoOneof,
  Implicit,  (* The scalar fields without presence.                          *)
  Unknown    (* The place of a message's unknown fields; no Key names it.    *)

ASSUME SchemaAssumption ==
  /\ Card \in [Field -> {"singular", "list", "map"}]
  /\ DOMAIN Type = Field
  /\ DOMAIN OneofOf = Field
  /\ DOMAIN Kind = Scalar
  /\ Implicit \subseteq Field
  /\ Default \in Scalar
  /\ Msg \notin Scalar
  /\ Field \cap (Key \cup {Unknown}) = {} /\ Unknown \notin Key
  /\ \A f \in Field \cup {Unknown} : f \notin Int
  /\ ({Msg} \cup {Type[f] : f \in Field}) \cap {"l", "map"} = {}
  /\ \A f \in Implicit : Card[f] = "singular" /\ Type[f] # Msg /\ OneofOf[f] = NoOneof
  /\ \A f \in Field : OneofOf[f] # NoOneof => Card[f] = "singular"

Oneof == {OneofOf[f] : f \in Field} \ {NoOneof}

\* The members a field's oneof has besides it: setting one clears the other.
Siblings(f) == {g \in Field \ {f} : OneofOf[f] # NoOneof /\ OneofOf[g] = OneofOf[f]}

EmptyMessage == [p \in {<<>>} |-> Msg]
EmptyFragment == [p \in {} |-> Msg]
ScalarFragment(s) == [p \in {<<>>} |-> s]

-----------------------------------------------------------------------------
(* Containers.  The kind of a container follows from its position.         *)

IsMessageAt(c) == c # <<>> /\ Last(c) \in Field => Card[Last(c)] = "singular"
IsListAt(c)    == ~IsMessageAt(c) /\ Card[Last(c)] = "list"
IsMapAt(c)     == ~IsMessageAt(c) /\ Card[Last(c)] = "map"

\* The type of what is at p: of its elements or values, if it is a collection.
TypeAt(p) == IF Last(p) \in Field THEN Type[Last(p)] ELSE Type[p[Len(p) - 1]]

\* protoreflect: Message.Set.  It clears the other members of f's oneof, and a
\* field without presence that is set to its default reads as absent.
SetField(d, c, f, v) ==
  LET kept == EraseAll(d, {Append(c, g) : g \in Siblings(f)})
  IN  IF f \in Implicit /\ v = ScalarFragment(Default)
      THEN Erase(kept, Append(c, f))
      ELSE Graft(kept, Append(c, f), v)

\* protoreflect: Message.Mutable.  An unset singular message comes into being
\* empty, which clears its oneof like any other Set; a list or a map only
\* becomes a container, which nothing can observe.
Mutable(d, c, f) ==
  IF Card[f] = "singular" /\ ~Has(d, Append(c, f))
  THEN SetField(d, c, f, EmptyMessage)
  ELSE d

\* clearMessage, clearMap and Truncate(0): everything a Key can name, and only
\* that, so what a message holds at Unknown stays.
\* Mutant: a message reset, unknown fields and all.
ResetContainer(d, c) == EraseAll(d, {Append(c, s) : s \in Places(d, c)})

EmptyContainer(d, c) ==
  IF IsMessageAt(c) THEN EraseAll(d, {Append(c, f) : f \in Field})
                    ELSE Erase(d, c)

\* The declared part of a fragment: equality does not look at unknown fields.
Known(v) == RestrictDomain(v, LAMBDA q : Unknown \notin Range(q))

-----------------------------------------------------------------------------
(* What makes a document one that protobuf could hold.                     *)

\* Is c a container of d?  A list or a map is one as soon as the message that has
\* the field is there.
Lives(d, c) ==
  LET holder == IF IsMessageAt(c) THEN c ELSE Front(c)
  IN  holder \in DOMAIN d /\ d[holder] = Msg

\* Every container a position lies in is there, and every place is one its
\* container has: a list's places are 1 .. n, without a gap.
Rooted(d) ==
  \A q \in DOMAIN d \ {<<>>} :
    LET c == Front(q) IN
    /\ Lives(d, c)
    /\ CASE IsMessageAt(c) -> Last(q) = Unknown \/ (Last(q) \in Field /\ Card[Last(q)] = "singular")
         [] IsListAt(c)    -> Last(q) \in 1 .. Length(d, c)
         [] IsMapAt(c)     -> Last(q) \in Key

\* Every value is one of its position's type, and unknown fields are bytes, not a
\* message that anything lies in.
WellTyped(d) ==
  \A q \in DOMAIN d \ {<<>>} :
    CASE Last(q) = Unknown                       -> d[q] # Msg
      [] Last(q) # Unknown /\ TypeAt(q) = Msg    -> d[q] = Msg
      [] Last(q) # Unknown /\ TypeAt(q) # Msg    -> d[q] \in Scalar /\ Kind[d[q]] = TypeAt(q)

\* At most one member of a oneof is set, in every message.
OneofExclusive(d) ==
  \A c \in DOMAIN d : \A f \in Field :
    Has(d, Append(c, f)) => \A g \in Siblings(f) : ~Has(d, Append(c, g))

\* A message that protobuf can hold.
IsMessage(d) ==
  /\ IsTree(d) /\ <<>> \in DOMAIN d /\ d[<<>>] = Msg
  /\ Rooted(d) /\ WellTyped(d) /\ OneofExclusive(d)

=============================================================================
