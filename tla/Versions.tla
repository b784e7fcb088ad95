------------------------------ MODULE Versions ------------------------------
(***************************************************************************)
(* bin/version_manager.ts, which keeps the versions of the published        *)
(* modules: check, fix, bump and suggest.  A version is in the package.json,*)
(* in the deno.json and in the version.ts of its module, and every other    *)
(* module may refer to it; a command writes one file after the other, and   *)
(* may be interrupted between any two.  ls, which only prints, is left out, *)
(* and so is what a commit's message says.                                  *)
(***************************************************************************)
EXTENDS Integers, Sequences, FiniteSets, FiniteSetsExt, SequencesExt

CONSTANTS
  Modules,      \* the published modules, in the order of the directory
  Npm, Jsr, Ts, \* the modules that have a package.json, a deno.json, a version.ts
  Refers,       \* the modules each module refers to
  Dependencies, \* MODULE_DEPENDENCIES
  Bumps,        \* the bump types used
  MaxCommands   \* bound: commands run

All == Range(Modules)

VersionsAssumption ==
  /\ Npm \cup Jsr = All /\ Ts \subseteq All /\ MaxCommands \in Nat
  /\ Refers \in [All -> SUBSET All] /\ Dependencies \in [All -> SUBSET All]

VARIABLES
  files,    \* the version each file holds, by what it is the version of
  command,  \* the command: its name, what it has to check at the end
  todo,     \* the writes it still has to do, in their order
  bumped,   \* what the bump or suggestion under way bumps, by module
  commands

vars == <<files, command, todo, bumped, commands>>

Fields ==
  ({"package"} \X Npm) \cup ({"deno"} \X Jsr) \cup ({"ts"} \X Ts)
    \cup UNION {{<<"ref", m, d>> : d \in Refers[m]} : m \in All}

Release(a, b, c) == [major |-> a, minor |-> b, patch |-> c, pre |-> -1]
Idle == [name |-> "none", check |-> FALSE]
NoBump == [m \in All |-> "none"]

Init ==
  /\ \E v \in {Release(1, 0, 0), [Release(1, 1, 0) EXCEPT !.pre = 1]} :
       files = [f \in Fields |-> v]
  /\ command = Idle /\ todo = <<>> /\ commands = 0
  /\ bumped = NoBump

----------------------------------------------------------------------------
\* semver
Lower(v, w) ==
  \/ v.major < w.major
  \/ v.major = w.major /\ v.minor < w.minor
  \/ v.major = w.major /\ v.minor = w.minor /\ v.patch < w.patch
  \/ /\ v.major = w.major /\ v.minor = w.minor /\ v.patch = w.patch
     /\ v.pre >= 0 /\ (w.pre = -1 \/ v.pre < w.pre)

Increment(v, type) ==
  LET final == v.pre = -1
  IN CASE type = "major" -> Release(IF final \/ v.minor + v.patch > 0 THEN v.major + 1
                                    ELSE v.major, 0, 0)
       [] type = "minor" -> Release(v.major, IF final \/ v.patch > 0 THEN v.minor + 1
                                             ELSE v.minor, 0)
       [] type = "patch" -> Release(v.major, v.minor, IF final THEN v.patch + 1 ELSE v.patch)
       [] type = "premajor" -> [Release(v.major + 1, 0, 0) EXCEPT !.pre = 0]
       [] type = "preminor" -> [Release(v.major, v.minor + 1, 0) EXCEPT !.pre = 0]
       [] type = "prepatch" -> [Release(v.major, v.minor, v.patch + 1) EXCEPT !.pre = 0]
       [] type = "prerelease" -> IF final THEN [v EXCEPT !.patch = @ + 1, !.pre = 0]
                                 ELSE [v EXCEPT !.pre = @ + 1]
       [] type = "release" -> [v EXCEPT !.pre = -1]

----------------------------------------------------------------------------
\* getModuleVersions(): the higher of the two
Own(m) == {f \in Fields : f \in {<<"package", m>>, <<"deno", m>>}}
Expected(m) == CHOOSE v \in {files[f] : f \in Own(m)} : \A f \in Own(m) : ~Lower(v, files[f])

\* checkVersions(): a module's two manifests, its version.ts, and what refers to it
Wrong == {f \in Fields : files[f] # Expected(IF f[1] = "ref" THEN f[3] ELSE f[2])}
Consistent == Wrong = {}

Write(f, v) == [file |-> f, to |-> v]

\* fixVersions(): deno.json, then what refers to a module, then version.ts
FixOf(kind) ==
  SetToSeq({Write(f, Expected(IF f[1] = "ref" THEN f[3] ELSE f[2])) :
              f \in {g \in Wrong : g[1] = kind}})
FixWrites == FixOf("deno") \o FixOf("ref") \o FixOf("ts")

----------------------------------------------------------------------------
\* bumpVersion(): from the manifest that is read first
Original(m) == IF m \in Npm THEN files[<<"package", m>>] ELSE files[<<"deno", m>>]

If(f, v) == IF f \in Fields THEN <<Write(f, v)>> ELSE <<>>

\* Faulty: deno.json is written first.
OwnWritesDenoFirst(m, v) ==
  If(<<"deno", m>>, v) \o If(<<"package", m>>, v) \o If(<<"ts", m>>, v)

OwnWrites(m, v) ==
  If(<<"package", m>>, v) \o If(<<"deno", m>>, v) \o If(<<"ts", m>>, v)

RefWrites(m, v) ==
  SetToSeq({Write(f, v) : f \in {g \in Fields : g[1] = "ref" /\ g[3] = m /\ files[g] # v}})

Skips(m, type) == type = "release" /\ Original(m).pre = -1

DependentBump(m, type) ==
  IF Skips(m, type) THEN <<>>
  ELSE LET v == Increment(Original(m), type) IN OwnWrites(m, v) \o RefWrites(m, v)

Dependents(m) == SelectSeq(Modules, LAMBDA d : m \in Dependencies[d])
Propagates(type) == type \in {"major", "minor"}

BumpWrites(m, type) ==
  IF Skips(m, type) THEN <<>>
  ELSE LET v == Increment(Original(m), type)
           deps == IF Propagates(type) THEN Dependents(m) ELSE <<>>
       IN OwnWrites(m, v)
            \o FlattenSeq([i \in DOMAIN deps |-> DependentBump(deps[i], type)])
            \o RefWrites(m, v)

----------------------------------------------------------------------------
Ready == todo = <<>> /\ command = Idle /\ commands < MaxCommands
Start(name, check, writes) ==
  /\ Ready /\ commands' = commands + 1
  /\ command' = [name |-> name, check |-> check] /\ todo' = writes
  /\ UNCHANGED files

Fix == Start("fix", FALSE, FixWrites) /\ UNCHANGED bumped

Bump ==
  \E m \in All, type \in Bumps :
    /\ Start("bump", FALSE, BumpWrites(m, type))
    /\ bumped' = [d \in All |->
         IF d = m \/ (Propagates(type) /\ d \in Range(Dependents(m))) THEN type ELSE "none"]

\* bump all: none of them propagates
BumpAll ==
  \E type \in Bumps :
    /\ Start("all", TRUE, FlattenSeq([i \in DOMAIN Modules |-> DependentBump(Modules[i], type)]))
    /\ bumped' = [m \in All |-> type]

Stronger(own, theirs) ==
  IF theirs = "major" \/ (theirs = "minor" /\ own # "major") THEN theirs ELSE own

\* suggestVersionBumps(): the suggestions are looked at in the order of the directories,
\* and one may have been raised by one before.
Suggested(own, order) ==
  FoldLeft(LAMBDA s, m : [d \in All |-> IF m \in Dependencies[d] THEN Stronger(s[d], s[m])
                                       ELSE s[d]],
           own, order)

Pre(type) == CASE type = "major" -> "premajor" [] type = "minor" -> "preminor"
               [] type = "patch" -> "prepatch"

\* What the commits of each module suggest, handed on in any order of the directories.
Suggestions ==
  {Suggested(own, order) : own \in [All -> {"none", "patch", "minor", "major"}],
                           order \in SetToSeqs(All)}

\* suggest --apply, with prereleases or without
Suggest == Ready /\
  \E s \in Suggestions, prerelease \in BOOLEAN :
    LET todos == SelectSeq(Modules, LAMBDA m : s[m] # "none")
    IN /\ Start("suggest", TRUE,
                FlattenSeq([i \in DOMAIN todos |->
                  DependentBump(todos[i], IF prerelease THEN Pre(s[todos[i]])
                                          ELSE s[todos[i]])]))
       /\ bumped' = s

WriteFile ==
  /\ todo # <<>>
  /\ files' = [files EXCEPT ![Head(todo).file] = Head(todo).to] /\ todo' = Tail(todo)
  /\ UNCHANGED <<command, bumped, commands>>

\* The end of a command: all and suggest check, and fix what they find.
Finish ==
  /\ command # Idle /\ todo = <<>>
  /\ IF command.check /\ ~Consistent
     THEN todo' = FixWrites /\ command' = [command EXCEPT !.check = FALSE]
          /\ UNCHANGED bumped
     ELSE command' = Idle /\ bumped' = NoBump /\ UNCHANGED todo
  /\ UNCHANGED <<files, commands>>

\* The command is interrupted.
Interrupt ==
  /\ todo # <<>> /\ todo' = <<>> /\ command' = Idle /\ bumped' = NoBump
  /\ UNCHANGED <<files, commands>>

Next == Fix \/ Bump \/ BumpAll \/ Suggest \/ WriteFile \/ Finish \/ Interrupt

Spec == Init /\ [][Next]_vars

----------------------------------------------------------------------------
\* Wherever commands were interrupted before, fix leaves nothing to fix, and so do bump all
\* and suggest: fix never writes a package.json, so this takes that no bump leaves a
\* package.json behind its deno.json.
FixRepairs ==
  (command.name \in {"fix", "all", "suggest"} /\ ~command.check /\ todo = <<>>) => Consistent

Rank(type) == CASE type = "major" -> 2 [] type = "minor" -> 1 [] OTHER -> 0

\* A module is bumped no less than one it depends on, if that gets more than a patch,
\* whatever the order the directories are read in.
DependentsFollow ==
  \A m, d \in All : m \in Dependencies[d] => Rank(bumped[d]) >= Rank(bumped[m])
=============================================================================
