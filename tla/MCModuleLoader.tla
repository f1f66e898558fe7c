---------------------------- MODULE MCModuleLoader ----------------------------
(***************************************************************************)
(* An entry e and modules a, b in directory d, and a module c in           *)
(* directory d/s.  The specifier b names another file when the importer is *)
(* in d/s: c itself.  x names no file, old is a .smc file.  MCImports has  *)
(* chains, diamonds, cycles of one to three modules, cycles through e, and *)
(* a module reached under two names.                                       *)
(***************************************************************************)
EXTENDS ModuleLoader, TLC

CONSTANTS e, a, b, c, d, s, sa, sb, sc, se, x, old

MCFiles  == {e, a, b, c}
MCSpecs  == {sa, sb, sc, se, x, old}
MCDotted == {sa, sb, se, x}
MCDirs   == {d, s}
MCDirOf  == (e :> d) @@ (a :> d) @@ (b :> d) @@ (c :> s)
MCAt ==
    (d :> ((sa :> a) @@ (sb :> b) @@ (sc :> c) @@ (se :> e)
           @@ [n \in {x, old} |-> None]))
    @@ (s :> ((sb :> c) @@ [n \in MCSpecs \ {sb} |-> None]))
MCSearchDirs == <<d>>

MCImports == {<<>>, <<sa>>, <<sb>>, <<sc>>, <<se>>, <<x>>, <<old, sa>>,
              <<sa, sb>>, <<sb, sa>>, <<sb, sc>>, <<sc, sb>>, <<sc, sa>>}
MCSources ==
    [ok : {TRUE}, name : {None}, imports : MCImports]
    \cup [ok : {TRUE}, name : {sb},
            imports : {<<>>, <<sa>>, <<sc>>, <<se>>, <<sc, sa>>}]
    \cup [ok : {FALSE}, name : {None}, imports : {<<>>}]
===============================================================================
