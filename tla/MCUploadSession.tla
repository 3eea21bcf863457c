-------------------------- MODULE MCUploadSession --------------------------
(* TLC instances of UploadSession. *)
EXTENDS UploadSession

Def(f, types, quota, required) ==
  [field |-> f, config |-> [allowed_types |-> types, quota |-> quota,
                            max_size |-> 1, required |-> required]]

PlainDef(type) == [NoDef EXCEPT !.type = type]
Schema(def, required) == [props |-> [f \in Fields |-> def], required |-> required]
Blank == Schema(NoDef, {})

HandWritten(type, maxItems) ==
  [NoDef EXCEPT !.type = type, !.format = TRUE, !.maxItems = maxItems,
                !.isFile = TRUE, !.max_size = 1]

(* A required file and up to two others; the other way round, with a field *)
(* that changes its type and has no quota; file fields written by hand, of *)
(* which one is an array of one; no files.                                 *)
MCTemplates ==
  {WithFiles(Blank, <<Def("photo", {"png"}, 1, TRUE), Def("docs", {}, 2, FALSE)>>),
   WithFiles(Blank, <<Def("docs", {"pdf"}, 2, TRUE), Def("photo", {}, 0, FALSE)>>),
   [Blank EXCEPT !.props = [photo |-> HandWritten("string", -1),
                            docs  |-> HandWritten("array", 1)]],
   Blank}

(* Nothing, one file of each field, and the ways to get them wrong.        *)
Data(photo, docs) == [f \in Fields |-> IF f = "photo" THEN photo ELSE docs]
One(x)    == Value("string", <<x>>)
Many(seq) == Value("array", seq)
MCDatas == {Data(Missing, Missing), Data(One(1), Missing), Data(One(1), Many(<<2>>)),
            Data(One(1), Many(<<1>>)), Data(One(Junk), Many(<<1, 2>>)),
            Data(Missing, Many(<<1, 2>>)), Data(Missing, Many(<<>>)),
            Data(One(1), Many(<<2, 2>>)), Data(Missing, Many(<<1, Junk>>))}

MCKinds == [type : {"pdf", "png"}, size : {1, 2}]

(* Up to two definitions, for schemas that are blank, had other properties *)
(* or are those of a template as it stands, sent back.                     *)
MCDefinitions == [field : Fields,
                  config : [allowed_types : {{}, {"pdf"}}, quota : 0 .. 2,
                            max_size : {1}, required : BOOLEAN]]
MCDefLists == UNION {[1 .. n -> MCDefinitions] : n \in 0 .. 2}
MCSchemas == MCTemplates \cup
  {Schema(d, q) : d \in {NoDef, PlainDef("string"), PlainDef("array")},
                  q \in SUBSET Fields}
=============================================================================
