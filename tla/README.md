# A TLA+ development of protobuf-patch

protobuf-patch is a Go library for a patch format: a `Patch` is a protobuf message holding a
`Delta`, a list of entries that `remove`, `test`, `insert`, `assign`, `move`, `copy` or `nest` at
positions of a target. The library builds, validates, analyses and rewrites such documents and
applies them with three engines: to protobuf messages, to JSON values and to Go structs. It is
sequential: nothing runs concurrently, nothing persists between calls. What is hard about it is
*order inside one call*: selectors resolved before the writes and used after them, containers and
sources held by reference across writes, slices that move when they grow, Go values that are copies
where a reference was meant, recursion of deltas into nested deltas, and a failure in the middle of
all this.

This directory holds models of the three engines, of validation, of `Normalize`, of the write set and
the read-only check, and of the builders; all are checked with TLC on small instances, and part of
it is proved with TLAPS for every value of the constants.

## Inventory

| part | source | state it keeps | operations | status |
|---|---|---|---|---|
| protoreflect engine | `patchproto/*.go` | a private clone of the target; the Go call stack: base container, entry, container reached, resolved positions, source | `Apply`: navigate, expand, seven operations on targets, five on a container | modelled |
| JSON engine | `patchjson/*.go` | a deep copy made of Go maps and slices, with callbacks that store a grown slice in its parent; the same call stack | `ApplyValue` | modelled |
| Go struct engine | `patchstruct/*.go` | a deep copy made of Go variables, pointers, maps and slices; map values not addressable; the same call stack | `Apply` | modelled |
| validation, limits | `patch/validate.go`, `patch/limits.go` | none | `Validate`: depth, unknown fields, revision, rules of an entry and of its parts | modelled |
| index and range resolution | `patch/resolve.go` | none | `NormalizeIndex`, `NormalizeRange`, `ResolveField` | modelled |
| normalisation | `patch/normalize.go` | a working copy of the document | exchange neighbours, rewriting their list indices | modelled |
| write set, read-only fields | `patch/writes.go`, `patch/readonly.go` | the writes found so far | `Writes`, `ReadOnly.Check`, `ParseFieldPath` | modelled |
| schemaless names | `patch/schemaless.go` | none | `MemberName`, `MemberKey` | modelled |
| builders | `patch/build*.go` | the draft of an entry, shared by all scopes of a chain; the first error of each part | constructors, scopes, operations, `New` | modelled |
| literals and map keys | `patch/value.go` | none | `ShapeOf`, `CheckArm`, `Scalar`, `MapKeyFor` | partly |
| errors | `patch/errors.go` | none | codes and positions | codes only |
| conformance runner | `conformance/run.go` | none | reads cases, compares results | not modelled: a test harness |
| generated code | `patchpb/*.pb.go` | none | accessors | not modelled: generated |

How they interact: every engine calls `patch.ValidateWith` once, before it looks at the target, and
trusts its answer during the recursion; all of them share the resolution and literal helpers, and the
two that have no descriptors share `schemaless.go`. `Normalize` and `Writes` are meant to predict what
an engine does with a document without running one. `patchproto` writes through protoreflect, whose
`Set` and `Mutable` clear the other members of a oneof; `patchjson` and `patchstruct` write through
Go's own references. The builders make the documents that all the rest consume.

What makes each part correct:

* an engine: the call is atomic; an entry does to the positions its selectors named what the
  format says, to all of them at once; the value stays one its type can hold; a reference the
  engine holds is still part of the document when it is used; two places of a document never share
  memory; no index is stale; it returns.
* validation: what it accepts is bounded in depth, and a test in it cannot change anything.
* normalisation: the document it returns has the same result, and the same refusals.
* the write set: it contains every field an application changes, and it refuses nothing an engine takes.
* the builders: what they make validates, and what they refuse would not have.

The hazards this comes from are in `PROJECT.json` ("hazards"), each at its line, with the
properties that cover it.

## Modules

```
Tree
  Document                              protobuf messages
    Literal
      Validate                          what every engine trusts
        Parts - Build                   builders
        Normalize (with Shift)
    Address (with Resolve)
      PatchProto (with Validate)        the protoreflect engine; implements AtomicApply
        EntryContract
        ReadOnly (with Writes, which has Validate and Address)
        NormalizeContract               Normalize, and two instances of PatchProto
  Memory                                Go values and references
    PatchJson (with Resolve)            the JSON engine
      JsonContract (with Edits)         implements AtomicApply
    PatchStruct (with Resolve)          the struct engine
      StructContract (with Edits)       implements AtomicApply
```

* `Tree`: a value as a function from positions to what they hold, a position being the sequence of
  segments that leads to it, with erasing, grafting, lists and overlays.
* `Document`: a protobuf message as such a tree; a list or a map has no presence and so no position,
  it is its elements. `SetField` and `Mutable` are protoreflect's, with their effect on a oneof and on
  fields without presence. `Rooted`, `WellTyped` and `OneofExclusive` say what protobuf can hold.
* `Resolve`: `NormalizeIndex` and `NormalizeRange` as in `patch/resolve.go`.
* `Literal`: when a `Value` fits a position, what it writes there, and comparison with one.
* `Validate`: `ValidateWith`. `DocumentFaults` gives every code the document earns at the first
  check that refuses it; the code reports the one that is first in the document. `Parts`: the rules of
  the messages an entry is made of, down to the elements of a literal.
* `Address`: `patchproto/cont.go`. Keys and selectors to positions, one segment of a path, presence,
  identity of positions.
* `PatchProto`: `patchproto.Apply` as a state machine. `draft` is the clone; `stack` is the Go call
  stack of `applyDelta`, one frame a delta, with the entry's place, a program counter, the container
  reached (`c`), the positions still to be acted on (`locs`) and the source (`src`).

  | actions | code |
  |---|---|
  | `Refuse`, `RefuseType`, `Begin`, `Return` | `Apply` |
  | `Descend`, `LosePath`, `Arrive` | `navigate` and `descend*`, one segment a step |
  | `Select`, `RefuseSelector`, `Vacuous`, `NothingToDo` | `expand`, one selector a step, and the start of `applyEntry` |
  | `Dispatch`, `AllDone` | `applyToTargets` |
  | `RemoveTarget`, `TestTarget`, `FailTest`, `AssignTarget`, `InsertTarget`, `RefuseValue` | `removeAt`, `testAt`, `assignAt`, `insertAt`, one target a step |
  | `Splice` | `spliceInto`, which rebuilds the list at once |
  | `DescendSource`, `ReadSource`, `LoseSource`, `SkipSource`, `WriteTarget`, `RefuseTarget`, `ClearSource`, `KeepSource` | `relocate`, one target a step |
  | `NestTarget`, `NestScalar`, `EndDelta` | `nestAt`: push a frame, and pop it |
  | `Empty`, `AssignContainer`, `InsertContainer`, `TestContainer`, `RefuseContainer`, `NestContainer` | `container.go` |
  | `NextEntry` | the loop of `applyDelta` |

  A source held by reference is the value `held` as read, plus `HeldNow`, which reads it again when a
  target lies inside it, plus `attached`, which turns FALSE when a write replaces a message around
  it: then the engine clears an object that is no longer part of the document.
* `AtomicApply`: the abstract specification of one call. All three engines implement it under the
  mapping that hides their memory and their stack.
* `EntryContract`: adds a history variable, the document at the beginning of each entry under way,
  and states what the format says an entry means: `Meaning`, defined on the set of selected
  positions without any order. It is written independently of the engine's operators for writing.
  `Entangled` names the entries the engine gives another meaning to.
* `Memory`: Go's memory as far as the engines without descriptors use it. A block is a tree; a value
  in it may be a reference to another block: an object or a map, a pointer, or a slice, which has a
  length of its own and may share its block with others. `Read` follows the references and gives the
  tree a value stands for; `Load` allocates one; `Grown` is `append`, which writes in place or moves
  to a new block of twice the size as the capacity decides.
* `PatchJson`: `patchjson.ApplyValue` on that memory, one entry's operation a step. `Holder` is the
  variable that holds the root. `SetArr` is `setArr`: the new header goes to the container at hand and
  to the place it was read from, and nowhere else. What `ValidateWith` answers comes with the document.
* `PatchStruct`: `patchstruct.Apply` on that memory, with a type for every value. A container is a
  *variable*: a place in a block. Descending into a map entry copies it out (`CopyOut`), a nest into
  one stores its copy back when the inner delta ends (`StoredBack`).
* `Edits`: what the operations do to a tree. `JsonContract`, `StructContract`: what each step of an
  entry means for the document as a tree (`EntryMeans`), that no two places of a document share memory
  (`NothingGetsShared`), and the refinement of `AtomicApply`.
* `Shift`: what a change of a list's length does to indices: `shiftBack` and `leaves`.
* `Normalize`: `patch/normalize.go` as a state machine. `work` is the recursion of `normalizeDelta`,
  innermost delta first; `Enter` and `PutBack` are the recursive call and its return, `PassBy` an
  entry without a nest, `Swap` and `Leave` one call of `trySwap` each, `NextPass` the outer loop.
  What `examine` finds is recomputed from the entry whenever it is asked for; the code stores it
  and keeps it in step with the document through pointers, and a barrier is never rewritten.
* `NormalizeContract`: `Normalize`, and then two instances of `PatchProto` on one target, the one with
  the document as given and the other with what `Normalize` made of it.
* `Writes`: the scan, from the document and the message type alone: what it reports, in order, and the
  fault it stops at; `CheckFault` is `ReadOnly.Check`. `ReadOnly`: the scan beside `PatchProto`.
* `Build`: the builders. A part is what it holds and its error; `draft` is the entry all scopes of a
  chain write to, `held` the scopes the caller has. The actions are the calls each scope offers.
* `MCForms`, `MCSchema` and the other `MC` modules: instances and the documents they are made of.
* Lemmas and theorems: `TreeProofs` (positions, erasing, grafting), `DocumentProofs` (the operators
  on messages), `ValidateProofs` (what a valid document is made of), `PatchProtoProofs` (refinement, and
  index resolution), `PatchProtoControl` (the stack and the entries), `PatchProtoDraft` (the draft and the
  positions the engine holds), `EntryContractProofs` (what an entry means), `NormalizeProofs`.

`Validate` says what a document is before anything is known of its validity (`IsDocument`): a message
generated from `patch.proto`, in which a oneof has one of its members or none, a repeated field is a
sequence and an index is a number. It is the assumption on `Patches` and `Documents`, which TLC
evaluates on the documents of every run.

## What is abstracted

`PatchProto` and `Normalize` have one message type, recursive, with a field of each shape; scalars are
model values of two types, one of them the default. The sixteen scalar kinds and their ranges, enums,
floats, extension ranges and the wording of errors are not told apart. A literal message is the
fragment it writes or the code of its first fault. Map order: the code sorts every_entry by key; the
model takes one fixed order, and the format calls the targets a set. Unknown fields of a message are
one position that no key names. Outside `PatchProto`: a target that is a typed nil (`apply.go:37`), the
sharing of storage between source and target after a copy of a whole scalar list (`apply.go:488`), and
a message literal that names one field twice (`value.go:45`).

`PatchJson`: what a literal scalar becomes, and which scalars are equal, are tables (`JsonOf`, `Alike`):
6 and 6.0 are equal, NaN has no JSON form. Member names are model values. `append` with an operation that
may not have it never gets here: `Validate` refuses it.

`PatchStruct`: the type has strings, an int8, pointers, slices, maps by string and by int8 and a
recursive struct; whether a number fits is the table `Room`. An unexported field holds a scalar. Named
byte slices, arrays and interfaces are not told apart. A `Field` without an identifier never gets here.

`Build`: literals are those of `Validate` with their arms; `MustNew` panics where `New` fails and is left
out. A part keeps, beside its error, the message it was meant to hold, which the code discards: it is
there so that a refusal can be compared with what `Validate` says of it.

## Runs

| run | question | properties |
|---|---|---|
| `MCdocuments` | one entry on targets: every operation, every selector, with and without skip; moves and copies with sources and targets within, around, beside and inside each other, also where the target takes the place of what the source was in; the operations on a container as a whole; every way to lose or create a path; every pair of seventeen entries, every nest of such a pair, nests in nests; documents at and past each rule and each depth limit, and their accepted neighbours | `EntryKeepsContract`, `PositionsInRange`, `TypeOK`, `UnknownKept`, `NestConfined`, `StackBounded`, `TestNeverMutates`, `AtomicSpec`, `Terminates` |
| `MCnormalize` | every pair of fifty entries, triples and fours of entries around one list, nests of them, nests in nests; each also applied before and after | `FixedStay`, `Settled`, `NormalForm`, `SameMeaningButOneofs` |
| `MCwrites` | documents that write through every shape of field, with and without CREATE, moves and nests included, against policies on every field path of up to three fields | `ReadOnlyButOneofs`, `ScanRefusalIsApplys` |
| `MCjson` | one entry with every operation, path and relocation on an object of arrays, an array of objects and a scalar; sequences and nests that change the length of arrays within arrays | `EntryMeans`, `NothingGetsShared`, `AtomicSpec` |
| `MCstruct` | the same on a struct with pointers, slices of structs, maps of slices and of structs, on its zero value, on nil, on a scalar, on a nil map and on a slice | `EntryMeans`, `NothingGetsShared`, `AtomicSpec`, `PanicsOnlyAtNilBase` |
| `MCbuild` | every chain of calls from every scope the caller holds, with selectors, paths, values, sources and operations that are sound, broken or zero | `MakesOnlyValid`, `RefusesOnlyInvalid` |

Bounds. The runs of `PatchProto` have eleven fields, two map keys, three scalars, `NestDepth` 2,
`ValueDepth` 4, and three targets: an empty message, one with every field set, and one whose messages
nest and whose oneof holds its message member. The runs of `Normalize` have five scalars and targets
whose lists have up to four elements that differ, so that an index that has gone wrong shows. Nothing is
a symmetry set. Lists of two elements distinguish first, last, inside and outside, and an index that
shifted from one that did not; three elements are in the JSON documents, where a removal must move two
others. `NestDepth` 2 makes every document at the limit, one below and one above it small enough to
list; two entries are enough for one to meet what another left, and a nest around two for frames to
interleave with writes. The heap of the JSON and struct engines is as large as the documents need.
A chain of builder calls has no bound: the draft takes finitely many values.

What the properties say:

* `EntryKeepsContract`: by the end of an entry on targets, the document is the one from before the
  entry with the operation done to the selected positions simultaneously, unless the entry is
  entangled: two targets in one oneof, a source around the targets, a path that clears a oneof, or
  a source the engine mistakes. A target around the source is not set aside: when it takes the place of
  what the source was in, the engine clears a message that is no longer in the document, and what was
  written must stay (`ClearSourceAgain` is the mutant that clears by position instead).
* `PositionsInRange`: resolved list positions stay inside the list until they are used. The code
  does not check again and would panic.
* `TypeOK`: the draft is always a message protobuf can hold.
* `UnknownKept`: no step drops the unknown fields of the container its entry acts on; only a move that
  clears what that container lies in takes them along.
* `NestConfined`: an inner delta changes nothing outside its container.
* `TestNeverMutates`, `StackBounded`: what validation is trusted with.
* `AtomicSpec`: the engine implements `AtomicApply`. For the engines that work on Go values this says
  that no write reaches the caller's memory, which only a deep enough copy ensures.
* `EntryMeans`: read as trees, the memory before and after each step of an entry differs as its
  operation says, in that container and nowhere else; a path adds what it is missing and changes
  nothing. Set aside are entries that start from, or work on, memory that is no longer the document's
  (`DVjson`, `DVstruct`) and relocations the engine gives a meaning of its own (below).
* `NothingGetsShared`: a document in which no two places share memory, and none is the caller's, stays
  one. A struct relocation to several targets is set aside: the engine copies its source once.
* `PanicsOnlyAtNilBase`: a struct entry panics only in a delta whose container is a nil map, or in a
  relocation that is entangled.
* `SameMeaningButOneofs`: what `Normalize` returns gives the same message as what it was given, and is
  refused when that is; which code a refusal has may differ, as `docs/normalize.md` says. Set aside
  are documents in which a write of a oneof member crosses a list in another member (`DVoneof`).
* `Settled`: the passes end at a fixed point. Whether two entries may be exchanged is not an order
  and depends on indices that exchanges rewrite, so that n passes suffice is not the usual argument
  of a bubble sort; four entries are enough for an exchange to enable another two places away.
* `NormalForm`: on a list that only shrinks, every index of the result is one of the list as it was.
* `FixedStay`: tests, relocations, writes of whole containers and entries that create their path keep
  their place, and nothing passes them: in front of each are the operations that were, each as often
  as it was, and so in the whole delta, where none is lost or doubled. The delta in a nest is set aside,
  it is normalized on its own.
* `ReadOnlyButOneofs`: a field that an application changed is one whose policy refuses the document,
  unless the document sets a sibling in a oneof (`DVwrites`).
* `ScanRefusalIsApplys`: what the scan refuses, the engine refuses on every message. Left out of the
  comparison are the source and the inner document of an entry that may have nothing to act on (SKIP,
  or only ranges, `every_entry` and `oneof_member`), which the engine then never reads, and a nest on a
  `oneof_member` (`DVscan`). Its path and its selectors are compared there too.
* `MakesOnlyValid`: no error of a part is lost between the constructor and `New`: what it returns breaks
  no rule of `Validate`, but for the four ways around the builders (`WaysAround`): the zero value of an
  exported type; a document deeper than the limits, which belong to the reader and `New` does not count; a
  test on a scope used again after the chain has gone on; an append passed by pointer. The last two are
  against what `New` says of itself (below). `RefusesOnlyInvalid`: what `New` refuses breaks the rule it names; set aside is an
  operation after one that was refused (below).
* `Terminates`: under weak fairness of the next-state relation. `Apply` is a sequential function
  that waits for nothing, so a step that can be taken is taken; no stronger fairness is needed.

Deadlock is checked in every run: a call that has returned or panicked stutters by `Finished`, any other
state without a successor would be an engine stuck on a document nobody wrote a case for.

## Disagreements between the code and its documents

Six have a run of their own:

| run | the document says | the code does |
|---|---|---|
| `DVoneof` | `Normalize` preserves what a document does to any message (`normalize.go:45`) | it moves an assign of a oneof member in front of a change of a list in another member, which is then gone |
| `DVwrites` | `Writes` is not an under-approximation anywhere (`writes.go:197`) | setting a oneof member clears the one that was set, which is not reported: a read-only field is cleared by a document that passes the check |
| `DVjson` | each entry observes the effects of those before it (`docs/format.md:36`) | when a delta's container is an array whose length an entry changes, the next entry starts from the old slice: a second append writes over the first |
| `DVstruct` | the value of a container is always addressable, and a map value is refused (`patchstruct/cont.go:12`, `:205`) | a path into a map entry ends at a copy: an assign through `map[int8]Conf` is lost without an error, and a removal through `map[string][]T` leaves a slice of the old length with its elements moved (an assign to an element through it is kept, the array is shared) |
| `DVcreate` | a created path leaves what is there as it is (`patch.proto:432`, `patchproto/cont.go:157`) | creating a member of a oneof clears the one that was set (`cont.go:159`) |
| `DVscan` | a target the scan refuses is one `Apply` would refuse (`writes.go:216`) | a nest on a `oneof_member` whose set member is a message applies; the scan refuses it for the scalar members (`writes.go:562`) |

Others are in the models as the code has them, and the properties set them aside by name.

The protoreflect engine (`Entangled` in `EntryContract`, and the refusals and panics of `PatchProto`):

* targets are a set, and the result does not depend on their order (`patch.proto:208`); of two members of
  one oneof the one written last stays (`apply.go:214`);
* a source is never something the entry has just made (`cont.go:103`); the entry's own path is created
  first and can create it (`apply.go:384`);
* the source is read before any write, so the result does not depend on target order (`patch.proto:322`);
  it is held by reference and cloned for each target (`apply.go:373`): `copy m to m.m and m.b` gives the
  second a message that already has the first in it (`SourceGrows`);
* only a target that is the source is a no-op (`patch.proto:335`); one index of one list field in two
  messages counts as the same place (`apply.go:410`): `move l[0] to b.l[0]` does nothing
  (`SourceMistaken`);
* a duplicate is two selectors that resolve to the same location (`patch.proto:106`); two indices outside
  the list are duplicates (`cont.go:81`);
* a whole list or map may be moved to a field of its type (`patch.proto:326`); a list of messages, or any
  map, panics (`apply.go:490`).

The JSON engine (`Entangled` in `JsonContract`): several targets inside the source, a target around the
source, and a move by path out of an array that lies within one the entry makes longer, whose new header
goes to the array as it was before it grew (`patchjson/cont.go:112`, `apply.go:358`).

The struct engine (`StructContract`): a target around the source, or a move out of an element of a slice
the entry makes longer, which removes from the new value or panics; the source's value is copied once
and stored in every target, which then share it (`HeldByMany`, `patchstruct/apply.go:405`); a nest into a
nil map, or a root that is one, panics at the first write (`apply.go:498`), where a path makes the map
(`cont.go:199-203`) and the format says an empty map can be written to (`docs/format.md:142`); the path of
a test, too, makes an empty slice or map of a nil one, and the field is present afterwards.

The builders (`WaysAround`, `RefusesOnlyInvalid`) are said to make a test that tolerates a missing target
impossible to express, and to refuse an append given to an operation that cannot grow a list
(`build.go:23-27`): a scope that is kept offers a test after `Skip` or `InOrCreate` on the same draft
(`build.go:217`), and an append passed as `*Selector` is not recognised (`build.go:117`). The zero values of `Op`, `Field`, `Selector`, `Location`,
`FieldValue` and the like carry no error, so `New` returns documents that `Validate` refuses. An append
refused once stays an error of its scope (`build.go:173`). `Skip().InOrCreate(a).In(b)` leaves the policy
of `a` on the path `b` (`build.go:279`).

## Proofs

TLAPS proves what follows for every schema, every limit, every set of targets and of documents that
satisfies the assumptions: `SchemaAssumption` (a schema is well formed), `LimitsAssumption` (limits are
positive), `SlotAssumption` (the marks for an element to be appended and for nothing found are no names of the
schema), `TargetsAssumption` (a target is a
message protobuf can hold, `IsMessage`), `PatchesAssumption` and `DocumentsAssumption` (a document is a
`Patch` message, `IsDocument`; nothing is assumed of its validity).

| theorem | states | for |
|---|---|---|
| `PatchProtoProofs!ApplyIsAtomic` | `AtomicSpec` | `MCdocuments` |
| `PatchProtoControl!RecursionIsBounded` | `StackBounded` | `MCdocuments` |
| `PatchProtoControl!TestsNeverMutate` | `TestNeverMutates` | `MCdocuments` |
| `PatchProtoDraft!DraftIsSound` | `TypeOK` | `MCdocuments` |
| `PatchProtoDraft!UnknownFieldsStay` | `UnknownKept` | `MCdocuments` |
| `PatchProtoDraft!NestsStayConfined` | `NestConfined` | `MCdocuments` |
| `PatchProtoDraft!PositionsStayInRange` | `PositionsInRange` | `MCdocuments` |
| `EntryContractProofs!EntriesKeepContract` | `EntryKeepsContract` | `MCdocuments` |
| `NormalizeProofs!FixedEntriesStay` | `FixedStay` | `MCnormalize` |
| `NormalizeProofs!ShrinkingIsNormalized` | `NormalForm` | `MCnormalize` |
| `NormalizeProofs!BackOverRemoveFinds`, `BackOverInsertFinds` | what `shiftBack` answers | |
| `PatchProtoProofs!IndexResolves`, `RangeResolves` | what resolution answers | |

How they go:

* **Atomicity.** The mapping is a step or a stutter at each action. What has to be known is that `Return`
  hands out a message, never the zero value: `CallInv` says that a running call has a frame and that
  its draft has a root. That needs every write to be below the root, hence that the frames hold
  positions, which `IsFrame` carries from action to action.
* **Control.** Validation counts nests by one recursion and the engine spends them by another, so
  `StackBounded` is not inductive. `LayerInv` ties the two: the delta n frames above the document's own
  is made of entries of layer n of the document. A nest of layer `NestDepth` is what `checkDepth`
  refuses, so `NestTarget` and `NestContainer` are never taken there (`ValidateProofs!NestIsShallow`);
  an empty delta is refused at every layer, so the engine is at an entry of every delta on its stack.
  From the same invariant each entry under way is one that validation has passed, which is why no
  step of a test can create: the step that would is only taken with `create`.
* **The draft.** The properties proved in `PatchProtoDraft` rest on each other: that the draft is well
  typed needs every write to have the type of its place, hence that what the engine holds (the
  container `c`, the positions `locs`, the source `src`) is still there, hence that no earlier write
  has taken it away. So there is one inductive invariant, `IInv`: the control invariant, and `DraftInv`.
  `Formed(draft)` is that the draft is a message, with no two members of a oneof set. `FrameOK` says of each frame that its container is
  live at every step that uses it, that its positions are slots of that container and of the
  operation's kind (`Listed`), those still to be removed from a list in descending order (`Falling`), so
  that a removal leaves the ones to come where they are, and that a source is of the type it
  was read as and, while attached, where it was found (`SourceOK`). `Beneath` says that an inner delta
  works below the base of the outer one and, in a nest, strictly inside the container the outer
  one holds, so that nothing the outer one holds can be taken away by it. `Effect` is what every step does: the
  draft stays a message, nothing outside the base of the top frame changes, and the unknown fields of
  the container stay unless a move clears a source around it. `NestConfined` and `UnknownKept`,
  which are action properties, follow from it.
* **What an entry means.** The engine resolves one selector after another and then writes one position
  after another; the format speaks of all positions at once. `HInv`, which is inductive beside `IInv`,
  says what the draft is in between (`Story`). Until the first write it is the document the entry found,
  with the messages its path makes, and the positions found are those of the selectors done (`Sought`).
  After that some set R of the targets is done: the draft is what the operation makes of that document
  for R alone, and `locs` are the rest (`Done`). Each operation has its own lemma for one more target:
  `WithoutNext` for a removal, which needs that what is left lies below what is gone, `WithNext` for a
  write, where a sibling in a oneof would clear what was written, `SpliceMeets` for an insert, which a
  list takes in one step, and `PathStep` for the way to the container. For a move or a copy R leaves
  out the source, which has to hold what it held until the last write: that is what a document that is
  not entangled gives (`Apart`). Whether it is still attached is whether no target done so far has taken
  the place of what it was in (`Displaced`), and so decides as the format does what the last step clears. The other side of it is that the selectors still mean what they meant
  on the document the entry found, which `Remember` keeps in `entered`.
* **An index carried back.** `shiftBack` over a removal is a fold over the removed positions, upwards.
  Its loop invariant is that after n of them the answer is the element that stands at the index when
  those n are removed; it is proved from a least counterexample. Over an insertion the answer
  is found by counting; the theorem says that it is the element, and that `Created` is answered for no
  other than the inserted ones.
* **What stays.** `Reordering`: at every moment the document's own delta is the one given under a
  bijection, each entry but for indices the one it comes from (`ComesFrom`), and the bijection
  maps the entries in front of a fixed entry onto those that were in front of it. An exchange composes
  it with a transposition that no fixed entry takes part in, because each is a barrier. The count in
  `FixedStay` is the bijection restricted.
* **The normal form.** That n passes suffice is not the usual argument of a bubble sort, since an
  exchange rewrites what it compares. On a list that only shrinks it can be made one. `InForm(e, f)`,
  that f need not go in front of e, is stated on the indices as they are, each in the list as its entry
  finds it: when e removes, f removes too, and at a lower index. `Sifted` says that this holds
  between everything and the entries the passes have brought to the end, and between everything
  before it and the entry the pass is carrying; an exchange only raises the indices of what moves to
  the front, and so keeps it. When nothing can be exchanged the indices are those of the list as it
  was.

Only model-checked, and why:

* `Terminates` (liveness under fairness, and ENABLED) is out of the prover's reach.
* `Settled`. Between entries in general neither the order of the passes nor `InForm` is left: an
  exchange can enable one two places away, and no invariant that n passes establish is known.
* `SameMeaningButOneofs` compares the whole runs of two engines on one target, the one on a document that
  some sequence of exchanges has made. `EntriesKeepContract` gives each entry its meaning; what is missing is
  that each exchange keeps the meaning of the two entries together.
* `ReadOnlyButOneofs`, `ScanRefusalIsApplys`, `MakesOnlyValid`, `RefusesOnlyInvalid`, and everything about
  the JSON and the struct engine: `Writes`, `Parts`, `Memory`, `PatchJson` and `PatchStruct` recurse over
  literals, deltas or values, and what a recursive definition computes for every input cannot be
  proved here.

The recursion in `Layers` is a function over `0 .. NestDepth` and that of `shiftBack` one over the
removed positions; that they exist is proved from a least counterexample, with no induction rule.

## Not modelled

The conformance runner is a test harness, the generated code accessors. `patch/value.go` converts between
sixteen scalar kinds, one by one and without state: the models take arms and shapes from it and leave the
ranges to the unit tests. Error positions and wording are formatting.

## Plan

Models: storage of scalar lists in `PatchProto` (a copy of a whole list), the fill of a message field by
field.

Proofs: the swap of two single positions means the same (a lemma towards `SameMeaningButOneofs`, from
`EntryContract`'s meanings and from `BackOverRemoveFinds` and `BackOverInsertFinds`); that a nested delta, too,
is a rearrangement; `Settled`, should an invariant be found.
