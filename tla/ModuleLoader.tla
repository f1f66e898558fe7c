----------------------------- MODULE ModuleLoader -----------------------------
(***************************************************************************)
(* Loading of the modules an entry unit imports: src/driver/ModuleLoader.  *)
(* cpp, called by CompilerDriver::compileFile.  loadModuleFile recurses    *)
(* over the import graph; its recursion is the variable stack, one frame   *)
(* per call that is walking an import list.                                *)
(*                                                                         *)
(* The driver walks the entry's imports twice: before it parses the entry  *)
(* (preloadImports, over the specifiers found in the token stream) and     *)
(* after (processImports, "a safety net").                                 *)
(*                                                                         *)
(* Files, directories and specifiers are uninterpreted.  Of a file the     *)
(* loader sees whether it can be read, lexed and parsed (ok), the name in  *)
(* its `module` declaration and its list of imports; that is chosen when   *)
(* the file is first read and never changes.                               *)
(***************************************************************************)
EXTENDS Naturals, SequencesExt

CONSTANTS
    Files,          \* canonical paths of source files
    Entry,          \* the unit being compiled
    Specs,          \* import specifiers, and the names modules declare
    Legacy,         \* specifiers ending in .smc
    Dotted,         \* specifiers like std.c, which name the module they reach
    Dirs,           \* directories
    DirOf,          \* the directory of a file
    At,             \* At[d][s]: the file specifier s names in directory d
    SearchDirs,     \* -M directories and the standard library's, in order
    None,           \* no file, no module name, nothing read
    Sources         \* what a file may hold

ASSUME LoaderAssumption ==
    /\ Entry \in Files /\ None \notin Files /\ None \notin Specs
    /\ Legacy \subseteq Specs /\ Dotted \subseteq Specs
    /\ DirOf \in [Files -> Dirs]
    /\ At \in [Dirs -> [Specs -> Files \cup {None}]]
    /\ SearchDirs \in Seq(Dirs)
    /\ Sources \subseteq [ok : BOOLEAN, name : Specs \cup {None},
                          imports : Seq(Specs)]

VARIABLES
    phase,          \* of compileFile: preload, parse, process, done, failed
    content,        \* what each file read so far holds
    stack,          \* the loops over import lists in progress, outermost first
    loaded,         \* compileFile's loadedModules
    active,         \* the modules whose imports are being loaded (DFS stack)
    out,            \* declarations loaded so far, by file
    unit,           \* the entry's declarations after splicing, by file
    errors,         \* the diagnostics
    \* history
    edges,          \* the imports resolved: <<importer, imported>>
    parsed          \* the files whose types had been registered, per parsed file

vars == <<phase, content, stack, loaded, active, out, unit, errors, edges, parsed>>

-------------------------------------------------------------------------------
Top   == stack[Len(stack)]
Spec1 == Top.todo[1]                           \* the import at hand
Error(kind, path) == [kind |-> kind, path |-> path]

\* resolveImport: the first directory that has a file of that name.
Resolve(s, dirs) ==
    LET hits == {i \in DOMAIN dirs : At[dirs[i]][s] # None}
    IN  IF s \in Legacy \/ hits = {} THEN None
        ELSE At[dirs[CHOOSE i \in hits : \A j \in hits : i <= j]][s]

\* The search path of an importer: its own directory first, then its
\* importer's path (so a nested module searches the whole chain above it).
PathsBelow(f, dirs) == <<DirOf[f]>> \o dirs

\* isDottedSpecifier and specifierToModuleName (MOD-13).
NameMatches(s, c) == c.name = None \/ s \notin Dotted \/ c.name = s

-------------------------------------------------------------------------------
(* compileFile and the two walks over the entry's imports.                  *)

Walk(f, dirs) == [file |-> f, todo |-> content[f].imports, dirs |-> dirs]

Init ==
    /\ phase = "preload"
    /\ \E c \in Sources : content = [f \in Files |-> IF f = Entry THEN c ELSE None]
    /\ stack = <<Walk(Entry, PathsBelow(Entry, SearchDirs))>>
    /\ loaded = {Entry}
    /\ active = <<>> /\ out = <<>> /\ unit = <<>> /\ errors = {}
    /\ edges = {} /\ parsed = [f \in Files |-> {}]

\* The end of preloadImports: any diagnostic ends the compilation.
EndPreload ==
    /\ phase = "preload" /\ Len(stack) = 1 /\ Top.todo = <<>>
    /\ phase' = IF errors = {} THEN "parse" ELSE "failed"
    /\ stack' = <<>>
    /\ UNCHANGED <<content, loaded, active, out, unit, errors, edges, parsed>>

\* The entry is parsed and its module name checked against its path; then the
\* second walk begins, over the same set of loaded modules.
SecondWalk ==
    /\ phase' = "process"
    /\ unit' = Append(out, Entry)
    /\ out' = <<>>
    /\ stack' = <<Walk(Entry, PathsBelow(Entry, SearchDirs))>>
LoadAfresh ==
    /\ phase = "parse"
    /\ parsed' = [parsed EXCEPT ![Entry] = Range(out)]
    /\ SecondWalk
    /\ loaded' = {Entry}
    /\ UNCHANGED <<content, active, errors, edges>>
ParseEntry ==
    /\ phase = "parse"
    /\ parsed' = [parsed EXCEPT ![Entry] = Range(out)]
    /\ IF content[Entry].ok THEN SecondWalk
       ELSE phase' = "failed" /\ UNCHANGED <<stack, unit, out>>
    /\ UNCHANGED <<content, loaded, active, errors, edges>>

\* The end of processImports: what it loaded goes in front of the unit.
EndProcess ==
    /\ phase = "process" /\ Len(stack) = 1 /\ Top.todo = <<>>
    /\ phase' = IF errors = {} THEN "done" ELSE "failed"
    /\ unit' = out \o unit
    /\ out' = <<>> /\ stack' = <<>>
    /\ UNCHANGED <<content, loaded, active, errors, edges, parsed>>

-------------------------------------------------------------------------------
(* One import of the list at hand: the loop bodies of preloadImports,       *)
(* processImports and loadModuleFile, with the call to loadModuleFile.      *)

Importing == stack # <<>> /\ Top.todo # <<>>
Target    == Resolve(Spec1, Top.dirs)
StaysPut  == stack
Next1     == [stack EXCEPT ![Len(stack)].todo = Tail(@)]
Ignore(e) == errors' = errors
Fail(e)   == errors' = errors \cup {e}
Resolved  == edges' = edges \cup {<<Top.file, Target>>}

\* A .smc specifier, or one that names no file.
ImportNothing ==
    /\ Importing /\ Target = None
    /\ Fail(Error(IF Spec1 \in Legacy THEN "legacy" ELSE "unresolved", <<Spec1>>))
    /\ stack' = Next1
    /\ UNCHANGED <<phase, content, loaded, active, out, unit, edges, parsed>>

\* A module that is being loaded further up: the cycle is reported.
IfNotLoaded == Target \in Range(active) \ loaded
OnStack == Target \in Range(active)
CyclePath ==
    LET i == CHOOSE k \in DOMAIN active : active[k] = Target
    IN  SubSeq(active, i, Len(active))
ImportCycle ==
    /\ Importing /\ Target # None
    /\ OnStack
    /\ Fail(Error("cycle", CyclePath))
    /\ Resolved
    /\ stack' = Next1
    /\ UNCHANGED <<phase, content, loaded, active, out, unit, parsed>>

\* A module reached before: nothing to do.
ImportAgain ==
    /\ Importing /\ Target # None
    /\ ~OnStack /\ Target \in loaded
    /\ Resolved
    /\ stack' = Next1
    /\ UNCHANGED <<phase, content, loaded, active, out, unit, errors, parsed>>

\* A new file: it is marked as loaded before it is read, whatever follows.
ReadUnmarked ==
    /\ Importing /\ Target # None
    /\ ~OnStack /\ Target \notin loaded
    /\ Resolved
    /\ UNCHANGED loaded
ReadFile ==
    /\ Importing /\ Target # None
    /\ ~OnStack /\ Target \notin loaded
    /\ Resolved
    /\ loaded' = loaded \cup {Target}

\* It cannot be read, lexed or parsed, or declares another name than the
\* specifier says: a diagnostic, and none of its imports are looked at.
ImportBroken ==
    /\ ReadFile
    /\ \E c \in Sources :
          /\ ~c.ok \/ ~NameMatches(Spec1, c)
          /\ content' = [content EXCEPT ![Target] = c]
          /\ Fail(Error(IF c.ok THEN "name" ELSE "broken", <<Target>>))
    /\ stack' = Next1
    /\ UNCHANGED <<phase, active, out, unit, parsed>>

\* It is fine: it has been parsed, and its own imports come next.
ImportModule ==
    /\ ReadFile
    /\ parsed' = [parsed EXCEPT ![Target] =
                    Range(out) \cup Range(active)]
    /\ active' = Append(active, Target)
    /\ \E c \in Sources :
          /\ c.ok /\ NameMatches(Spec1, c)
          /\ content' = [content EXCEPT ![Target] = c]
          /\ stack' = Append(Next1, [file |-> Target, todo |-> c.imports,
                                     dirs |-> PathsBelow(Target, Top.dirs)])
    /\ UNCHANGED <<phase, out, unit, errors>>

\* The end of loadModuleFile: the module's declarations follow its imports'.
ImportersFirst ==
    /\ Len(stack) > 1 /\ Top.todo = <<>>
    /\ active' = Front(active)
    /\ out' = <<Top.file>> \o out
    /\ stack' = Front(stack)
    /\ UNCHANGED <<phase, content, loaded, unit, errors, edges, parsed>>
StaysActive ==
    /\ Len(stack) > 1 /\ Top.todo = <<>>
    /\ out' = Append(out, Top.file)
    /\ stack' = Front(stack)
    /\ UNCHANGED <<phase, content, loaded, active, unit, errors, edges, parsed>>
FinishModule ==
    /\ Len(stack) > 1 /\ Top.todo = <<>>
    /\ active' = Front(active)
    /\ out' = Append(out, Top.file)
    /\ stack' = Front(stack)
    /\ UNCHANGED <<phase, content, loaded, unit, errors, edges, parsed>>

Next ==
    \/ EndPreload \/ ParseEntry \/ EndProcess
    \/ ImportNothing \/ ImportCycle \/ ImportAgain
    \/ ImportBroken \/ ImportModule
    \/ FinishModule

\* The compiler is one thread that runs to its end.
Spec == Init /\ [][Next]_vars /\ WF_vars(Next)

-------------------------------------------------------------------------------
(* Properties.                                                              *)

Phases == {"preload", "parse", "process", "done", "failed"}
Errors == [kind : {"legacy", "unresolved", "cycle", "broken", "name"},
           path : Seq(Files \cup Specs)]
Walks  == [file : Files, todo : Seq(Specs), dirs : Seq(Dirs)]

\* The type of every variable; while a list is being walked, the modules on
\* the DFS stack are those whose lists are being walked.
TypeOK ==
    /\ phase \in Phases
    /\ content \in [Files -> Sources \cup {None}]
    /\ stack \in Seq(Walks)
    /\ loaded \subseteq Files
    /\ active \in Seq(Files) /\ out \in Seq(Files) /\ unit \in Seq(Files)
    /\ errors \subseteq Errors
    /\ edges \subseteq Files \X Files
    /\ parsed \in [Files -> SUBSET Files]
    /\ stack # <<>> => Len(stack) = Len(active) + 1
    /\ stack = <<>> => active = <<>>
    /\ \A i \in DOMAIN active : stack[i + 1].file = active[i]

\* However many paths of the import graph lead to a module, from however many
\* specifiers and in both walks, its declarations are spliced in once.
LoadedOnce ==
    /\ IsInjective(out) /\ IsInjective(unit)
    /\ Range(out) \cap Range(unit) = {}
    /\ Range(out) \cap Range(active) = {}

\* ModuleLoader.h:40, "imports before importers": what a module imports stands
\* before it in the unit, unless it is the entry itself.
DependencyOrder ==
    phase = "done" =>
        \A e \in edges : e[2] # Entry =>
            \E i, j \in DOMAIN unit : i < j /\ unit[i] = e[2] /\ unit[j] = e[1]

\* A compilation that goes on to semantic analysis has every module that is
\* imported, directly or not, and no other; and (docs/spec/modules.md section 11)
\* all their types were there when the entry was parsed, not only after the second
\* walk.  (For a nested module the code does not keep the latter: it is parsed
\* before its own imports are.)
Complete ==
    phase = "done" =>
        /\ \A f \in Range(unit) : \A i \in DOMAIN content[f].imports :
              \E g \in Range(unit) :
                 /\ <<f, g>> \in edges
                 /\ \E d \in Dirs : At[d][content[f].imports[i]] = g
        /\ \A S \in SUBSET Files :
              Entry \in S /\ (\A e \in edges : e[1] \in S => e[2] \in S)
              => Range(unit) \subseteq S
        /\ \A e \in edges : e[2] = Entry \/ e[2] \in parsed[Entry]

Acyclic(E) ==
    \A S \in (SUBSET Files) \ {{}} : \E f \in S : \A g \in S : <<f, g>> \notin E

\* MOD-07: an import cycle among imported modules does not pass, although each
\* module is looked at once only; and a cycle is reported only where there is
\* one: a diamond of imports, or a module reached again by another specifier, is
\* none.
CyclesReported ==
    /\ phase \in {"parse", "process", "done"} =>
           Acyclic({e \in edges : Entry \notin {e[1], e[2]}})
    /\ \A err \in errors : err.kind = "cycle" =>
           \A i \in DOMAIN err.path :
               <<err.path[i], err.path[IF i = Len(err.path) THEN 1 ELSE i + 1]>>
                   \in edges

\* CompilerDriver.cpp:361, the second walk is "a safety net": it finds nothing
\* to load and nothing to complain about.
SafetyNetIdle ==
    phase = "process" => out = <<>> /\ active = <<>> /\ errors = {}

\* Loading ends, whatever the imports look like.
Terminates == <>(phase \in {"done", "failed"})
===============================================================================
