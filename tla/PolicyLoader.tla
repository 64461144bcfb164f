----------------------------- MODULE PolicyLoader -----------------------------
(***************************************************************************)
(* core/policy/loader.py: the policies of the running gateway follow the   *)
(* policy path.  load() runs without awaiting, but the files belong to     *)
(* other processes, which may write between any two system calls of it:    *)
(* the look for the path, the listing of a directory, each open-and-read   *)
(* and the stat that closes a load are steps.                              *)
(*                                                                         *)
(* A file is a version [content, mtime]; of a content it counts whether it *)
(* parses and validates, whether there is anything in it, and which agents *)
(* it defines and what they extend.  Who writes a file gives it a new      *)
(* mtime; who renames a backup over it brings an old version back with the *)
(* mtime it had.                                                           *)
(***************************************************************************)
EXTENDS Integers, FiniteSets, FiniteSetsExt

CONSTANTS
    Layouts,      \* what the path can be: [dir, files], a directory with the
                  \* names its *.yaml files can have, in order, or one file
    Valid, Broken,\* contents that validate, and those that raise
    Blank,        \* the content that parses to None: an empty file
    Gone,         \* no content at all
    Items,        \* the [agent, extends] a content defines
    NoExtends,    \* the extends of an agent that extends nothing
    MaxWrites     \* bound: writes, renames, removals and restores

Contents == Valid \union Broken \union {Blank}

ASSUME LoaderAssumption ==
    /\ \A l \in Layouts :
          /\ l.dir \in BOOLEAN
          /\ l.files \subseteq Nat /\ IsFiniteSet(l.files)
          /\ ~l.dir => Cardinality(l.files) = 1
    /\ Valid \intersect Broken = {} /\ Blank \notin Valid \union Broken /\ Gone \notin Contents
    /\ DOMAIN Items = Contents
    /\ MaxWrites \in Nat

VARIABLES
    path,         \* the layout of _path
    present,      \* _path.exists()
    file,         \* the version of each file there is
    backups,      \* the versions each file has had, which may be renamed over it
    dirTime,      \* mtime of the directory
    clock,        \* the latest mtime handed out
    writes,
    policies,     \* _policies, by the files and contents it was built from
    mtime,        \* _mtime
    pc,           \* where the loading task stands
    todo,         \* the files listed and not read yet
    parsed,       \* the files load() has read so far
    during,       \* what each file has been since the load began (history)
    raced         \* somebody wrote during a load (history)

disk == <<path, present, file, backups, dirTime, clock, writes, raced>>
load == <<pc, todo, parsed, during>>
loaderVars == <<disk, policies, mtime, load>>

Files == path.files
Nothing == <<>>   \* the empty map

Versions == [content : Contents, mtime : 0 .. MaxWrites]

\* What an open of f finds.
Now(f) == IF present /\ f \in DOMAIN file THEN file[f].content ELSE Gone

TypeOK ==
    /\ path \in Layouts /\ present \in BOOLEAN /\ raced \in BOOLEAN
    /\ DOMAIN file \subseteq Files /\ \A f \in DOMAIN file : file[f] \in Versions
    /\ ~path.dir => DOMAIN file = Files
    /\ backups \in [Files -> SUBSET Versions]
    /\ dirTime \in 0 .. MaxWrites /\ clock \in 0 .. MaxWrites /\ writes \in 0 .. MaxWrites
    /\ DOMAIN policies \subseteq Files /\ \A f \in DOMAIN policies : policies[f] \in Contents
    /\ mtime \in -1 .. MaxWrites
    /\ pc \in {"sleep", "load", "list", "reading", "stat"}
    /\ todo \subseteq Files
    /\ DOMAIN parsed \subseteq Files /\ \A f \in DOMAIN parsed : parsed[f] \in Contents
    /\ during \in [Files -> SUBSET (Contents \union {Gone})]

----------------------------------------------------------------------------
(* What can be wrong with a set of files.                                  *)

Agents(c) == {i.agent : i \in Items[c]}

\* The next file defines an agent that one read before it defines.
Duplicate(g, c) == \E f \in DOMAIN g : Agents(g[f]) \intersect Agents(c) # {}

\* No two files define the same agent.
Apart(g) == \A e, f \in DOMAIN g : e # f => Agents(g[e]) \intersect Agents(g[f]) = {}

\* _resolve_inheritance() finds every base and no cycle.
Resolves(g) ==
    LET items == UNION {Items[g[f]] : f \in DOMAIN g} IN
    /\ \A i \in items : i.extends = NoExtends \/ \E j \in items : j.agent = i.extends
    /\ \A S \in SUBSET items : S # {} => \E i \in S : \A j \in S : j.agent # i.extends

\* What a load would make of the files as they are, and whether it would raise.
OnDisk == [f \in {f \in DOMAIN file : file[f].content # Blank} |-> file[f].content]
WouldLoad ==
    /\ \A f \in DOMAIN file : file[f].content \in IF path.dir THEN Valid \union {Blank} ELSE Valid
    /\ Apart(OnDisk) /\ Resolves(OnDisk)

NoLoad == [f \in Files |-> {}]

\* main() has called load() once: there was nothing to load, or all of it was
\* read; anything that did not validate has ended the process.
LoaderInit ==
    /\ path \in Layouts /\ present \in BOOLEAN /\ raced = FALSE
    /\ \E F \in IF path.dir THEN SUBSET Files ELSE {Files} :
          file \in [F -> [content : Contents, mtime : {0}]]
    /\ backups = [f \in Files |-> {file[g] : g \in {f} \intersect DOMAIN file}]
    /\ dirTime = 0 /\ clock = 0 /\ writes = 0
    /\ mtime = -1
    /\ IF present THEN WouldLoad ELSE path.dir => file = Nothing
    /\ policies = IF present THEN OnDisk ELSE Nothing
    /\ pc = (IF present THEN "stat" ELSE "sleep") /\ todo = {} /\ parsed = Nothing /\ during = NoLoad

----------------------------------------------------------------------------
(* The watcher.                                                            *)

\* _current_mtime()
CurrentMtime == Max({file[f].mtime : f \in DOMAIN file} \union (IF path.dir THEN {dirTime} ELSE {}))

\* Mutant: only a newer file counts as a change.
Changed_Newer == CurrentMtime > mtime

Changed == CurrentMtime # mtime

\* load() is entered; from here the files may change under it.
Enter == pc' = "load" /\ during' = [f \in Files |-> {Now(f)'}] /\ UNCHANGED <<todo, parsed>>

\* There is nothing left to read, or an exception leaves everything as it was.
Leave(where) == pc' = where /\ todo' = {} /\ parsed' = Nothing /\ during' = NoLoad

\* One round of _watch(): sleep, look, load if the path is there and changed.
Poll ==
    /\ pc = "sleep"
    /\ present /\ Changed
    /\ UNCHANGED <<disk, policies, mtime>>
    /\ Enter

\* load() finds the path, or finds none and denies everybody.
LookForPath ==
    /\ pc = "load"
    /\ IF present
       THEN pc' = "list" /\ UNCHANGED <<policies, todo, parsed, during>>
       ELSE policies' = Nothing /\ Leave("sleep")
    /\ UNCHANGED <<disk, mtime>>

\* _policy_files(): what is in the directory now is what will be read.
ListFiles ==
    /\ pc = "list"
    /\ IF present
       THEN pc' = "reading" /\ todo' = DOMAIN file /\ UNCHANGED <<parsed, during>>
       ELSE Leave("sleep")
    /\ UNCHANGED <<disk, policies, mtime>>

\* Reading f raises: it is gone, does not parse and validate, or repeats an
\* agent; where the path is one file, nothing in it is no policy either.
Rejected(f) ==
    \/ Now(f) \in Broken \union {Gone}
    \/ ~path.dir /\ Now(f) = Blank
    \/ Duplicate(parsed, Now(f))

\* In a directory an empty file is passed over.
Read(f) ==
    IF Now(f) = Blank THEN parsed
    ELSE [g \in DOMAIN parsed \union {f} |-> IF g = f THEN Now(f) ELSE parsed[g]]

IsNext(f) == pc = "reading" /\ f \in todo /\ \A g \in todo : f <= g

\* Mutant: the map is emptied before it is built anew.
ReadFile_Emptied(f) ==
    /\ IsNext(f)
    /\ policies' = Nothing
    /\ IF Rejected(f) THEN Leave("sleep")
       ELSE todo' = todo \ {f} /\ parsed' = Read(f) /\ UNCHANGED <<pc, during>>
    /\ UNCHANGED <<disk, mtime>>

\* The next file is read, in the order of the names.
ReadFile(f) ==
    /\ IsNext(f)
    /\ IF Rejected(f) THEN Leave("sleep")
       ELSE todo' = todo \ {f} /\ parsed' = Read(f) /\ UNCHANGED <<pc, during>>
    /\ UNCHANGED <<disk, policies, mtime>>

\* Mutant: the map goes live, and then its inheritance is resolved.
Swap_Unresolved ==
    /\ pc = "reading" /\ todo = {}
    /\ policies' = parsed
    /\ IF Resolves(parsed) THEN Leave("stat") ELSE Leave("sleep")
    /\ UNCHANGED <<disk, mtime>>

\* All are read: if they resolve, the new map replaces the old one.
Swap ==
    /\ pc = "reading" /\ todo = {}
    /\ IF Resolves(parsed)
       THEN policies' = parsed /\ Leave("stat")
       ELSE UNCHANGED policies /\ Leave("sleep")
    /\ UNCHANGED <<disk, mtime>>

\* The mtime of the load is taken after its files were read.
Stat ==
    /\ pc = "stat"
    /\ mtime' = IF present THEN CurrentMtime ELSE mtime
    /\ Leave("sleep")
    /\ UNCHANGED <<disk, policies>>

----------------------------------------------------------------------------
(* The rest of the world.                                                  *)

\* Somebody writes; what becomes of the files is seen by a load that is running.
MayWrite ==
    /\ writes < MaxWrites /\ writes' = writes + 1
    /\ raced' = (raced \/ pc # "sleep")
    /\ UNCHANGED path

Watched == during' = [f \in Files |-> IF pc \in {"sleep", "stat"} THEN {} ELSE during[f] \union {Now(f)'}]

\* f becomes v: the directory, if there is one, gets another mtime when an entry
\* is made or replaced.
PutFile(f, v, entry) ==
    /\ MayWrite
    /\ path.dir => present
    /\ clock' = clock + 1
    /\ file' = [g \in DOMAIN file \union {f} |-> IF g = f THEN v ELSE file[g]]
    /\ backups' = [backups EXCEPT ![f] = @ \union {v}]
    /\ present' = TRUE
    /\ dirTime' = IF entry THEN clock + 1 ELSE dirTime

\* A file is written in place, or created where there was none.
Write(f, c) ==
    /\ PutFile(f, [content |-> c, mtime |-> clock + 1], f \notin DOMAIN file)
    /\ Watched
    /\ UNCHANGED <<policies, mtime, pc, todo, parsed>>

\* guardmcp_setup writes the policy file and calls load() itself.
Setup(f, c) ==
    /\ pc = "sleep" /\ ~path.dir
    /\ c \in Valid
    /\ PutFile(f, [content |-> c, mtime |-> clock + 1], FALSE)
    /\ Enter
    /\ UNCHANGED <<policies, mtime>>

\* An earlier version is renamed over a file, or back to where it was.
RenameOver(f, v) ==
    /\ v \in backups[f]
    /\ PutFile(f, v, TRUE)
    /\ Watched
    /\ UNCHANGED <<policies, mtime, pc, todo, parsed>>

\* A file of the directory is deleted; if the stat of a load has just listed it,
\* that raises, with the map in force and its mtime not taken.
Delete(f) ==
    /\ MayWrite /\ path.dir /\ present /\ f \in DOMAIN file
    /\ file' = [g \in DOMAIN file \ {f} |-> file[g]]
    /\ clock' = clock + 1 /\ dirTime' = clock + 1
    /\ UNCHANGED <<present, backups, policies, mtime>>
    /\ \/ Watched /\ UNCHANGED <<pc, todo, parsed>>
       \/ pc = "stat" /\ Leave("sleep")

\* The path is moved away, or back with all that was in it.
Move ==
    /\ MayWrite
    /\ present' = ~present
    /\ UNCHANGED <<file, backups, dirTime, clock, policies, mtime, pc, todo, parsed>>
    /\ Watched

Watch == Poll \/ LookForPath \/ ListFiles \/ (\E f \in Files : ReadFile(f)) \/ Swap \/ Stat

LoaderNext ==
    \/ Poll
    \/ LookForPath
    \/ ListFiles
    \/ \E f \in Files : ReadFile(f)
    \/ Swap
    \/ Stat
    \/ \E f \in Files : (\E c \in Contents : Write(f, c) \/ Setup(f, c)) \/ (\E v \in backups[f] : RenameOver(f, v))
    \/ \E f \in Files : Delete(f)
    \/ Move

\* The watcher task keeps polling.  Nobody is obliged to write.
LoaderFairness == WF_loaderVars(Watch)

LoaderSpec == LoaderInit /\ [][LoaderNext]_loaderVars
LoaderFairSpec == LoaderSpec /\ LoaderFairness

----------------------------------------------------------------------------

\* Whatever is written while a load runs, no policy map is ever in force with a
\* file in it that did not validate, an agent defined twice, a base that is not
\* there or a chain of bases in a circle.
OnlyWholeValidMaps ==
    /\ \A f \in DOMAIN policies : policies[f] \in Valid
    /\ Apart(policies) /\ Resolves(policies)

\* The map changes only to what the files were during one load: each file is in
\* it as it was then, and is missing only if it was gone, or empty, for a while.
\* A broken, half-written or contradictory file takes nobody's policy away.
PoliciesNotLost ==
    [][policies' # policies =>
          \A f \in Files :
             IF f \in DOMAIN policies' THEN policies'[f] \in during[f]
             ELSE {Gone, Blank} \intersect during[f] # {}]_loaderVars

\* What is in force is what the files say, if they say anything.
Enforced == ~present \/ ~WouldLoad \/ policies = OnDisk

\* loader.py:204 and setup.py:163: what the files say in the end is what the
\* gateway enforces in the end (writes are bounded, so they end).
UpToDate == []<>Enforced

\* That much is true unless some write fell into a load: whether a file was
\* edited, renamed over, broken and mended, or removed and restored.
UpToDateUnlessRaced == []<>(Enforced \/ raced)

\* loader.py:144-147: no get() finds a map without policies that were there, as
\* long as their files are.  An empty file, such as one cut short by whoever is
\* writing it, is passed over without an error.
NoFileIsPassedOver ==
    [][\A f \in DOMAIN policies \ DOMAIN policies' : Gone \in during[f]]_loaderVars

=============================================================================
