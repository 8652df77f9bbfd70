---------------------------- MODULE ClawInstall ----------------------------
(***************************************************************************)
(* claw skills install: install_skill_into of                              *)
(* Rust/handwritten-claw-code/rust/crates/commands/src/lib.rs, by several  *)
(* processes on one registry.  Whether the directory of the skill exists   *)
(* is asked before it is made, and nothing is locked, so each call to the  *)
(* file system is a step here; a process may be killed between any two.    *)
(* A source stands for what resolve_skill_install_source found: a          *)
(* directory with SKILL.md, or a markdown file, which is copied as         *)
(* SKILL.md.                                                               *)
(***************************************************************************)
EXTENDS Naturals, FiniteSets

CONSTANTS Installers, \* processes
          Sources,    \* what they install
          NameOf,     \* source |-> the name derive_skill_install_name gives it
          FilesOf,    \* source |-> its files
          MaxInstalls \* bound on the number of installs

SkillNames == {NameOf[s] : s \in Sources}
Files == UNION {FilesOf[s] : s \in Sources}
ASSUME InstallAssumption == /\ NameOf \in [Sources -> SkillNames]
                            /\ FilesOf \in [Sources -> SUBSET Files]
                            /\ MaxInstalls \in Nat

VARIABLES present,   \* the names whose directory exists in the registry
          holds,     \* name |-> the files in it, each with the source it came from
          stage, src, \* per process: the step of install_skill_into, and its source
          left,      \* per process: the files still to be copied
          alone,     \* history, per process: nobody else was installing this name
          reported,  \* history: the installs that were reported
          installs   \* counter for the bound

installVars == <<present, holds, stage, src, left, alone, reported, installs>>

InstallInit == /\ present = {}
               /\ holds = [n \in SkillNames |-> {}]
               /\ stage = [p \in Installers |-> "off"]
               /\ src \in [Installers -> Sources]
               /\ left = [p \in Installers |-> {}]
               /\ alone = [p \in Installers |-> TRUE]
               /\ reported = {}
               /\ installs = 0

Enter(p, step) == stage' = [stage EXCEPT ![p] = step]
Name(p) == NameOf[src[p]]
\* past the check, and not yet done with the directory
Busy(p) == stage[p] \in {"create", "copy", "cleanup"}
Rivals(p) == {q \in Installers \ {p} : Busy(q) /\ Name(q) = Name(p)}

\* claw skills install with a source that resolves and has a name
Begin(p, s) == /\ stage[p] = "off" /\ installs < MaxInstalls
               /\ Enter(p, "check")
               /\ src' = [src EXCEPT ![p] = s]
               /\ installs' = installs + 1
               /\ UNCHANGED <<present, holds, left, alone, reported>>

\* Mutant of AlreadyExists: a directory that exists is installed into
AlreadyExistsIgnored(p) == FALSE
AlreadyExists(p) == Name(p) \in present
\* installed_path.exists()
Check(p) == /\ stage[p] = "check"
            /\ IF AlreadyExists(p) THEN Enter(p, "off") /\ UNCHANGED alone
               ELSE /\ Enter(p, "create")
                    /\ alone' = [q \in Installers |-> IF q = p THEN Rivals(p) = {}
                                                 ELSE alone[q] /\ q \notin Rivals(p)]
            /\ UNCHANGED <<present, holds, src, left, reported, installs>>

\* create_dir_all, which is content with a directory that is there by now
Create(p) == /\ stage[p] = "create"
             /\ present' = present \cup {Name(p)}
             /\ left' = [left EXCEPT ![p] = FilesOf[src[p]]]
             /\ Enter(p, "copy")
             /\ UNCHANGED <<holds, src, alone, reported, installs>>
CreateFails(p) == /\ stage[p] = "create"
                  /\ Enter(p, "off")
                  /\ UNCHANGED <<present, holds, src, left, alone, reported, installs>>

Written(had, f, s) == {e \in had : e[1] # f} \cup {<<f, s>>}
CopyFile(p, f) == /\ stage[p] = "copy" /\ f \in left[p]
                  /\ Name(p) \in present
                  /\ holds' = [holds EXCEPT ![Name(p)] = Written(@, f, src[p])]
                  /\ left' = [left EXCEPT ![p] = @ \ {f}]
                  /\ UNCHANGED <<present, stage, src, alone, reported, installs>>
\* a file cannot be read or written, for one because the directory was removed
CopyFails(p) == /\ stage[p] = "copy" /\ left[p] # {}
                /\ Enter(p, "cleanup")
                /\ UNCHANGED <<present, holds, src, left, alone, reported, installs>>
\* remove_dir_all, the result of which is ignored: what it cannot remove stays
Cleanup(p) == /\ stage[p] = "cleanup"
              /\ \/ /\ present' = present \ {Name(p)}
                    /\ holds' = [holds EXCEPT ![Name(p)] = {}]
                 \/ /\ \E kept \in SUBSET holds[Name(p)] :
                          holds' = [holds EXCEPT ![Name(p)] = kept]
                    /\ UNCHANGED present
              /\ Enter(p, "off")
              /\ UNCHANGED <<src, left, alone, reported, installs>>
Report(p) == /\ stage[p] = "copy" /\ left[p] = {}
             /\ reported' = reported \cup {[source |-> src[p], alone |-> alone[p]]}
             /\ Enter(p, "off")
             /\ UNCHANGED <<present, holds, src, left, alone, installs>>
\* the process is killed
Crash(p) == /\ stage[p] # "off"
            /\ Enter(p, "off")
            /\ UNCHANGED <<present, holds, src, left, alone, reported, installs>>

InstallStep(p) == \/ \E s \in Sources : Begin(p, s)
                  \/ Check(p)
                  \/ Create(p)
                  \/ CreateFails(p)
                  \/ \E f \in Files : CopyFile(p, f)
                  \/ CopyFails(p)
                  \/ Cleanup(p)
                  \/ Report(p)
                  \/ Crash(p)
InstallNext == \E p \in Installers : InstallStep(p)
InstallSpec == InstallInit /\ [][InstallNext]_installVars

\* What the steps rest on: the variables have their types.
InstallTypeOK == /\ present \in SUBSET SkillNames
                 /\ holds \in [SkillNames -> SUBSET (Files \X Sources)]
                 /\ stage \in [Installers -> {"off", "check", "create", "copy", "cleanup"}]
                 /\ src \in [Installers -> Sources]
                 /\ left \in [Installers -> SUBSET Files]
                 /\ alone \in [Installers -> BOOLEAN]
                 /\ reported \in SUBSET [source : Sources, alone : BOOLEAN]
                 /\ installs \in Nat

CopyOf(s) == FilesOf[s] \X {s}
\* A skill whose install was reported holds its own files, all of them and no others, for
\* ever after: whatever later installs of the same name do, whoever is killed in the middle
\* of one, and whatever a failed one removes.  Installs of one name that ran at the same
\* time are exempted: nothing is locked between the check and the directory.
InstalledWhole ==
    \A r \in reported : r.alone => /\ NameOf[r.source] \in present
                                   /\ holds[NameOf[r.source]] = CopyOf(r.source)

\* What makes InstalledWhole inductive: a name that was reported has nobody in the middle of
\* installing it, and one who installs a name alone found no directory and has put his own
\* files there and nothing else.
NothingElsewhere == \A n \in SkillNames : n \notin present => holds[n] = {}
NobodyAtReported ==
    \A r \in reported, p \in Installers : r.alone /\ Busy(p) => Name(p) # NameOf[r.source]
NoRivals == \A p \in Installers : Busy(p) /\ alone[p] => Rivals(p) = {}
CreatesNew == \A p \in Installers : stage[p] = "create" /\ alone[p] => Name(p) \notin present
CopiesOwn ==
    \A p \in Installers : stage[p] = "copy" /\ alone[p] =>
       /\ Name(p) \in present
       /\ left[p] \subseteq FilesOf[src[p]]
       /\ holds[Name(p)] = (FilesOf[src[p]] \ left[p]) \X {src[p]}
InstallInv == /\ InstallTypeOK /\ InstalledWhole
              /\ NothingElsewhere /\ NobodyAtReported /\ NoRivals /\ CreatesNew /\ CopiesOwn
=============================================================================
