------------------------------ MODULE MCBuild ------------------------------
(***************************************************************************)
(* Instances of Build for TLC: parts of every kind, sound, broken by a     *)
(* blank name, zero, by pointer, and too deep.                             *)
(***************************************************************************)
EXTENDS Build, TLC

CONSTANTS f, int, msg, none, unknown, zero, key

S == INSTANCE MCForms

\* The message type does not matter to the builders.
MCCard    == f :> "singular"
MCType    == f :> int
MCOneofOf == f :> none
MCKind    == zero :> int

Fd     == Name("name", f)
Bad    == Name("name", Blank)
Pinned == With(Fd, Name("number", Blank))
Twice  == With(With(Fd, Name("json_name", f)), Name("name", key))

MCSelectors ==
  {<<Fd>>, <<Twice, MapKey(key)>>, <<Index(0), AtEnd>>, <<AtEnd>>, <<Span(<<0>>, <<>>), EveryEntry>>,
   <<Bad>>, <<Pinned, OneofMember(Blank)>>, <<OneofMember(f), ZeroKeyer("Field")>>, <<Selector(NoPart), AtEnd, ZeroKeyer("Key")>>,
   <<ByPointer(AtEnd), Fd>>}

MCPaths == {<<>>, <<With(ZeroKeyer("Field"), Fd), Index(0)>>, <<MapKey(key), Bad>>, <<ZeroKeyer("MapKey")>>}

Int0 == ScalarOf(int, zero)

MCValues ==
  {ZeroValue,
   Message(<<Paired(Fd, List(<<Int0, Int0>>)), Paired(Twice, MapOf(<<Paired(MapKey(key), Int0)>>))>>),
   Message(<<Paired(Pinned, Int0), ZeroValue>>),
   List(<<Int0, ZeroValue>>), MapOf(<<ZeroValue, Paired(ZeroKeyer("MapKey"), Int0)>>),
   List(<<Message(<<Paired(Fd, ZeroValue)>>)>>), List(<<List(<<List(<<List(<<Int0>>)>>)>>)>>)}

MCLocations ==
  {Here(Fd), From(Index(-1), <<Fd>>), From(Fd, <<Bad>>), Here(Pinned), Here(ZeroKeyer("MapKey")), ZeroValue,
   From(ZeroKeyer("Key"), <<>>)}

Other(entry) == Part([entry EXCEPT !.targets = <<SelectorOf(Fd).pb>>])
Stray  == Broken("IllegalSelector", S!On(<<>>, <<[arm |-> "append"]>>, S!Remove))

MCOps ==
  {<<Other(S!On(<<>>, <<>>, S!Remove))>>, <<Other(S!On(<<>>, <<>>, S!Insert(Int0.pb))), Stray>>,
   <<ZeroValue, Other(S!On(<<>>, <<>>, S!Nest(<<S!Whole(<<>>, S!Remove)>>)))>>,
   <<Other(S!On(<<>>, <<>>, S!Nest(<<S!Whole(<<>>, S!Nest(<<S!Whole(<<>>, S!Remove)>>))>>)))>>}

=============================================================================
