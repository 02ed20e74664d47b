----------------------------- MODULE BuildCache -----------------------------
(***************************************************************************)
(* The incremental, parallel build of the library: `make -jN` runs one      *)
(* `kernel verify` process per target, and the processes share the caches   *)
(* under build/.  Every module has two targets, its interface (statements    *)
(* elaborated, proofs skipped) and its full cache (proofs checked against    *)
(* the interfaces of everything it imports).  An interface module is sealed   *)
(* besides, and for that the full caches of some imports are read, when they  *)
(* are there, of whatever age they are: make orders no stage 1 after them.   *)
(*                                                                         *)
(* Make's comparison of modification times is the set `outdated`: a target   *)
(* is in it when it does not exist or a prerequisite was written after it.   *)
(* Sources are edited, builds killed and the kernel relinked at any moment   *)
(* the build allows it.                                                    *)
(***************************************************************************)
EXTENDS Naturals, FiniteSets

CONSTANTS
  Modules,
  Imports,        \* the modules a module imports directly
  Sealed,         \* the interface modules
  Implementation, \* ... the construction each is implemented by
  Kept,           \* ... and the imports its sealed cache still names
  Kernels,        \* versions of the kernel binary
  Contents,       \* what a source file may hold
  Possible,       \* which of it each module's source may hold
  FirstKernel,
  FirstSource,
  Bytes,          \* what an interface cache may hold
  Error,          \* no interface: the statements do not elaborate
  Missing,        \* no file
  NotLoaded,
  \* From kernel, module, source, interfaces loaded, and what the full caches
  \* that sealing read state:
  Interface(_, _, _, _, _),  \* the bytes of the interface
  Proves(_, _, _, _, _),     \* do the proofs check?
  MaxJobs,        \* make -j
  MaxUpsets       \* bound: edits, relinks, cleans, crashes, failed writes

Targets  == {"iface", "full"} \X Modules
Iface(m) == <<"iface", m>>
Full(m)  == <<"full", m>>

\* The modules of `start`, those they lead to, and so on.
Reached(start, leads) ==
  {d \in Modules : \A S \in SUBSET Modules :
     start \subseteq S /\ (\A k \in S : leads[k] \subseteq S) => d \in S}

\* Everything a module imports, directly or through another module.
Closure == [m \in Modules |-> Reached(Imports[m], Imports)]

\* The dependencies a cache records: a sealed one drops the construction.
Records == [m \in Modules |-> IF m \in Sealed THEN Kept[m] ELSE Imports[m]]

\* What a module loads: its imports, and what the caches loaded record.
Loads == [m \in Modules |-> Reached(Imports[m], Records)]

Views  == [Modules -> Bytes \cup {Missing, NotLoaded}]
Unread == [d \in Modules |-> NotLoaded]

ASSUME BuildAssumption ==
  /\ IsFiniteSet(Modules)
  /\ Imports \in [Modules -> SUBSET Modules]
  /\ \A m \in Modules : m \notin Closure[m]
  /\ Sealed \subseteq Modules
  /\ Implementation \in [Sealed -> Modules]
  /\ Kept \in [Sealed -> SUBSET Modules]
  /\ \A m \in Sealed : Kept[m] \cup {Implementation[m]} \subseteq Imports[m]
  /\ Possible \in [Modules -> SUBSET Contents]
  /\ FirstKernel \in Kernels
  /\ FirstSource \in [Modules -> Contents]
  /\ Missing \notin Bytes \cup Contents \cup {Error, NotLoaded}
  /\ NotLoaded \notin Bytes /\ Error \notin Bytes
  /\ MaxJobs \in Nat \ {0}
  /\ MaxUpsets \in Nat

ASSUME ElaborationAssumption ==
  \A k \in Kernels, m \in Modules, c \in Contents, v, s \in Views :
    /\ Interface(k, m, c, v, s) \in Bytes \cup {Error}
    /\ Proves(k, m, c, v, s) \in BOOLEAN

\* Sealing reads names and types of declarations and the `implements` clause of
\* a full cache.  An interface has them all (deriveInterfaceCache): a full cache
\* that states what the interface does, or none, tells it nothing new.
AgreesWith(s, v) == \A d \in Modules : s[d] \in {NotLoaded, Missing, v[d]}

ASSUME SealingAssumption ==
  \A k \in Kernels, m \in Modules, c \in Contents, v, s \in Views :
    AgreesWith(s, v) =>
      /\ Interface(k, m, c, v, s) = Interface(k, m, c, v, Unread)
      /\ Proves(k, m, c, v, s) = Proves(k, m, c, v, Unread)

Verified == [kernel : Kernels, source : Contents, view : Views, statements : Bytes]
JobPCs   == {"load", "sidecar"}
Jobs     == [pc : JobPCs, kernel : Kernels, source : Contents, view : Views, seal : Views]
NoJob    == [pc |-> "none"]

VARIABLES
  kernel,     \* the binary, by what it does
  source,     \* the .math files
  iface,      \* the .mathv.iface files
  sidecar,    \* the .srchash files, as the source they are the hash of
  full,       \* the .mathv files, as what they state and were verified against
  outdated,   \* the targets make would find older than a prerequisite
  make,       \* "idle", "running", or "failing": waits for the jobs it has
  done,       \* the targets this make is through with
  jobs,
  claim,      \* "none", "pending": nothing was edited since make started, "green"
  complaint,  \* the dependency last reported stale
  raced,      \* targets whose source was edited while their job ran (history)
  superseded, \* targets sealed in view of a full cache that states other than
              \* its interface (history)
  upsets      \* edits, relinks, cleans, crashes and failed writes so far

files     == <<kernel, source, iface, sidecar, full, outdated>>
makeVars  == <<make, done, claim, complaint>>
exempt    == <<raced, superseded>>
vars      == <<files, makeVars, jobs, exempt, upsets>>

Nothing == [m \in Modules |-> Missing]

Init ==
  /\ kernel = FirstKernel
  /\ source = FirstSource
  /\ iface = Nothing /\ sidecar = Nothing /\ full = Nothing
  /\ outdated = Targets
  /\ make = "idle"
  /\ done = {}
  /\ jobs = [t \in Targets |-> NoJob]
  /\ claim = "none"
  /\ complaint = Missing
  /\ raced = {} /\ superseded = {}
  /\ upsets = 0

Upset == upsets < MaxUpsets /\ upsets' = upsets + 1

\* mutant: edges to the direct imports only
DirectPrerequisites(t) ==
  {Iface(d) : d \in Imports[t[2]]} \cup (IF t[1] = "full" THEN {Iface(t[2])} ELSE {})

\* The generated prerequisites of a target (kernel deps, and the rule for a
\* full cache); its own source and the kernel are prerequisites of every one.
Prerequisites(t) ==
  {Iface(d) : d \in Closure[t[2]]} \cup (IF t[1] = "full" THEN {Iface(t[2])} ELSE {})

\* What a write of target t does to the comparisons.
WriteOf(t) == outdated' = (outdated \ {t}) \cup {u \in Targets : t \in Prerequisites(u)}

Running(t) == jobs[t] # NoJob
Busy       == {t \in Targets : Running(t)}

-----------------------------------------------------------------------------
(* The user. *)

Edit(m, content) ==
  /\ Upset
  /\ content # source[m]
  /\ source' = [source EXCEPT ![m] = content]
  /\ outdated' = outdated \cup {Iface(m), Full(m)}
  /\ claim' = "none"
  /\ raced' = (raced \ {Iface(m), Full(m)}) \cup {t \in Busy : t[2] = m}
  /\ superseded' = superseded \ {Iface(m), Full(m)}
  /\ UNCHANGED <<kernel, iface, sidecar, full, make, done, complaint, jobs>>

\* mutant: the kernel is an order-only prerequisite
RelinkOrderOnly(k) ==
  /\ Upset
  /\ make = "idle"
  /\ k # kernel
  /\ kernel' = k
  /\ claim' = "none"
  /\ UNCHANGED <<source, iface, sidecar, full, outdated, make, done, complaint, jobs, exempt>>

\* The kernel is relinked with another behaviour, before anything runs it.
Relink(k) ==
  /\ Upset
  /\ make = "idle"
  /\ k # kernel
  /\ kernel' = k
  /\ outdated' = Targets
  /\ claim' = "none"
  /\ UNCHANGED <<source, iface, sidecar, full, make, done, complaint, jobs, exempt>>

\* make library-clean
LibraryClean ==
  /\ Upset
  /\ make = "idle"
  /\ iface' = Nothing /\ sidecar' = Nothing /\ full' = Nothing
  /\ outdated' = Targets
  /\ claim' = "none"
  /\ UNCHANGED <<kernel, source, make, done, complaint, jobs, exempt>>

StartMake ==
  /\ make = "idle"
  /\ make' = "running"
  /\ claim' = "pending"
  /\ complaint' = Missing
  /\ UNCHANGED <<files, done, jobs, exempt, upsets>>

\* The machine stops, or make and its jobs are killed: the files stay.
Crash ==
  /\ Upset
  /\ make # "idle"
  /\ make' = "idle"
  /\ done' = {}
  /\ jobs' = [t \in Targets |-> NoJob]
  /\ claim' = "none"
  /\ UNCHANGED <<files, complaint, exempt>>

-----------------------------------------------------------------------------
(* make *)

\* mutant: targets are taken in any order
ConsideredAtOnce(t) ==
  /\ make = "running"
  /\ t \notin done
  /\ ~Running(t)

Considered(t) ==
  /\ make = "running"
  /\ t \notin done
  /\ ~Running(t)
  /\ Prerequisites(t) \subseteq done

Skip(t) ==
  /\ Considered(t)
  /\ t \notin outdated
  /\ done' = done \cup {t}
  /\ UNCHANGED <<files, make, claim, complaint, jobs, exempt, upsets>>

\* A kernel verify process starts, and reads its source first.
StartJob(t) ==
  /\ Considered(t)
  /\ t \in outdated
  /\ Cardinality(Busy) < MaxJobs
  /\ jobs' = [jobs EXCEPT ![t] =
                [pc |-> "load", kernel |-> kernel, source |-> source[t[2]],
                 view |-> Unread, seal |-> Unread]]
  /\ raced' = raced \ {t}
  /\ UNCHANGED <<files, makeVars, superseded, upsets>>

MakeSucceeds ==
  /\ make = "running"
  /\ done = Targets
  /\ make' = "idle"
  /\ done' = {}
  /\ claim' = IF claim = "pending" THEN "green" ELSE "none"
  /\ UNCHANGED <<files, complaint, jobs, exempt, upsets>>

MakeFails ==
  /\ make = "failing"
  /\ Busy = {}
  /\ make' = "idle"
  /\ done' = {}
  /\ claim' = "none"
  /\ UNCHANGED <<files, complaint, jobs, exempt, upsets>>

-----------------------------------------------------------------------------
(* kernel verify: load the interfaces, elaborate, seal, write. *)

JobDone(t) ==
  /\ jobs' = [jobs EXCEPT ![t] = NoJob]
  /\ done' = done \cup {t}
  /\ UNCHANGED <<make, claim, complaint, raced>>

\* mutant: the slot of a failed recipe is never given back
JobFailsHolding(t) ==
  /\ make' = "failing"
  /\ UNCHANGED <<done, claim, jobs, raced>>

\* mutant: make goes on after a recipe that failed, as if it had not
JobFailsUnnoticed(t) ==
  /\ jobs' = [jobs EXCEPT ![t] = NoJob]
  /\ done' = done \cup {t}
  /\ UNCHANGED <<make, claim, raced>>

JobFails(t) ==
  /\ jobs' = [jobs EXCEPT ![t] = NoJob]
  /\ make' = "failing"
  /\ UNCHANGED <<done, claim, raced>>

At(t, pc)  == Running(t) /\ jobs[t].pc = pc
InView(t)  == {d \in Modules : jobs[t].view[d] # NotLoaded}

\* loadCacheRecursive: the module's imports, then those of what was loaded.
ToLoad(t)  == (Imports[t[2]] \cup UNION {Records[k] : k \in InView(t)}) \ InView(t)

\* The sidecar, when there is one, is compared with the source as it is now.
Stale(d) == sidecar[d] # Missing /\ sidecar[d] # source[d]

LoadInterface(t) ==
  /\ At(t, "load")
  /\ \E d \in ToLoad(t) :
       /\ ~Stale(d)
       /\ jobs' = [jobs EXCEPT ![t].view[d] = iface[d]]
  /\ UNCHANGED <<files, makeVars, exempt, upsets>>

LoadStale(t) ==
  /\ At(t, "load")
  /\ \E d \in ToLoad(t) : Stale(d) /\ complaint' = d
  /\ JobFails(t)
  /\ UNCHANGED <<files, superseded, upsets>>

\* collectReachable: from the kept imports, through the full caches there are; an
\* interface cache leads to interface caches only.
Walk(t) ==
  Reached(Kept[t[2]],
          [k \in Modules |-> IF jobs[t].seal[k] \in Bytes THEN Records[k] ELSE {}])

\* The caches sealing looks at next, full before interface: the implementation's,
\* for its `implements`, then those of the walk.
ToRead(t) ==
  {d \in Modules :
     /\ t[2] \in Sealed
     /\ jobs[t].seal[d] = NotLoaded
     /\ \/ d = Implementation[t[2]]
        \/ d \in Walk(t) /\ jobs[t].seal[Implementation[t[2]]] # NotLoaded}

ReadFull(t) ==
  /\ At(t, "load")
  /\ ToLoad(t) = {}
  /\ \E d \in ToRead(t) :
       jobs' = [jobs EXCEPT ![t].seal[d] =
                  IF full[d] = Missing THEN Missing ELSE full[d].statements]
  /\ UNCHANGED <<files, makeVars, exempt, upsets>>

Loaded(stage, t) == t[1] = stage /\ At(t, "load") /\ ToLoad(t) = {} /\ ToRead(t) = {}

Elaborated(t) ==
  Interface(jobs[t].kernel, t[2], jobs[t].source, jobs[t].view, jobs[t].seal)
Checked(t) ==
  /\ Elaborated(t) # Error
  /\ Proves(jobs[t].kernel, t[2], jobs[t].source, jobs[t].view, jobs[t].seal)

\* What a write says of how its target was sealed.
SealedBy(t) ==
  superseded' = IF AgreesWith(jobs[t].seal, jobs[t].view)
                THEN superseded \ {t} ELSE superseded \cup {t}

\* Stage 1: the statements do not elaborate, or the write fails.
RefuseStatements(t) ==
  /\ Loaded("iface", t)
  /\ Elaborated(t) = Error
  /\ JobFails(t)
  /\ UNCHANGED <<files, complaint, superseded, upsets>>

\* mutant: the interface is written whether or not it changed
AlwaysWrite(t) ==
  /\ iface' = [iface EXCEPT ![t[2]] = Elaborated(t)]
  /\ WriteOf(t)

\* writeCacheFileIfChanged: an unchanged interface keeps its old time.
WriteIfChanged(t) ==
  \/ /\ iface[t[2]] # Elaborated(t)
     /\ iface' = [iface EXCEPT ![t[2]] = Elaborated(t)]
     /\ WriteOf(t)
  \/ /\ iface[t[2]] = Elaborated(t)
     /\ UNCHANGED <<iface, outdated>>

WriteInterface(t) ==
  /\ Loaded("iface", t)
  /\ Elaborated(t) # Error
  /\ WriteIfChanged(t)
  /\ SealedBy(t)
  /\ jobs' = [jobs EXCEPT ![t].pc = "sidecar"]
  /\ UNCHANGED <<kernel, source, sidecar, full, makeVars, raced, upsets>>

WriteSidecar(t) ==
  /\ At(t, "sidecar")
  /\ sidecar' = [sidecar EXCEPT ![t[2]] = jobs[t].source]
  /\ JobDone(t)
  /\ UNCHANGED <<kernel, source, iface, full, outdated, superseded, upsets>>

\* Stage 2: a proof does not check.
RefuseProofs(t) ==
  /\ Loaded("full", t)
  /\ ~Checked(t)
  /\ JobFails(t)
  /\ UNCHANGED <<files, complaint, superseded, upsets>>

WriteFull(t) ==
  /\ Loaded("full", t)
  /\ Checked(t)
  /\ full' = [full EXCEPT ![t[2]] = [kernel |-> jobs[t].kernel,
                                     source |-> jobs[t].source,
                                     view |-> jobs[t].view,
                                     statements |-> Elaborated(t)]]
  /\ WriteOf(t)
  /\ SealedBy(t)
  /\ JobDone(t)
  /\ UNCHANGED <<kernel, source, iface, sidecar, upsets>>

\* A write or a rename fails; what was moved into place before it stays.
WriteFails(t) ==
  /\ Upset
  /\ Loaded("iface", t) \/ Loaded("full", t) \/ At(t, "sidecar")
  /\ JobFails(t)
  /\ UNCHANGED <<files, complaint, superseded>>

Job(t) ==
  \/ LoadInterface(t) \/ LoadStale(t) \/ ReadFull(t)
  \/ RefuseStatements(t) \/ WriteInterface(t) \/ WriteSidecar(t)
  \/ RefuseProofs(t) \/ WriteFull(t) \/ WriteFails(t)

Build ==
  \/ \E t \in Targets : Skip(t) \/ StartJob(t) \/ Job(t)
  \/ MakeSucceeds \/ MakeFails

User ==
  \/ \E m \in Modules : \E c \in Possible[m] : Edit(m, c)
  \/ \E k \in Kernels : Relink(k)
  \/ LibraryClean \/ StartMake \/ Crash

Next == User \/ Build

\* make and its jobs are running processes.
Spec == Init /\ [][Next]_vars /\ WF_vars(Build)
-----------------------------------------------------------------------------
(* Properties. *)

\* Every variable keeps its type.
TypeOK ==
  /\ kernel \in Kernels
  /\ source \in [Modules -> Contents]
  /\ iface \in [Modules -> Bytes \cup {Missing}]
  /\ sidecar \in [Modules -> Contents \cup {Missing}]
  /\ full \in [Modules -> Verified \cup {Missing}]
  /\ outdated \in SUBSET Targets /\ done \in SUBSET Targets
  /\ raced \in SUBSET Targets /\ superseded \in SUBSET Targets
  /\ make \in {"idle", "running", "failing"}
  /\ jobs \in [Targets -> Jobs \cup {NoJob}]
  /\ claim \in {"none", "pending", "green"}
  /\ complaint \in Modules \cup {Missing}
  /\ upsets \in 0..MaxUpsets

\* The interfaces a module would load now.
ViewOf(m) == [d \in Modules |-> IF d \in Loads[m] THEN iface[d] ELSE NotLoaded]

\* What a module is by itself and the interfaces it loads.
FreshInterface(k, m, c, v) == Interface(k, m, c, v, Unread)
FreshlyProves(k, m, c, v)  == Interface(k, m, c, v, Unread) # Error /\ Proves(k, m, c, v, Unread)

\* A target is what a clean build of the present sources would make it.
Current(t) ==
  LET m == t[2]
  IN IF t[1] = "iface"
     THEN iface[m] # Missing /\ iface[m] = FreshInterface(kernel, m, source[m], ViewOf(m))
     ELSE /\ full[m] = [kernel |-> kernel, source |-> source[m], view |-> ViewOf(m),
                        statements |-> FreshInterface(kernel, m, source[m], ViewOf(m))]
          /\ FreshlyProves(kernel, m, source[m], ViewOf(m))

\* A successful make means that every proof of the library checks as it is
\* now: whatever was edited, killed, relinked or failed before, every interface
\* and every full cache is the one a build from nothing would leave.  There are
\* two exceptions: a source edited while its own recipe ran, and an interface
\* module that was sealed while a full cache it reads stated other than the
\* interface beside it.
GreenMeansVerified ==
  claim = "green" => \A t \in Targets \ (raced \cup superseded) : Current(t)

\* What a job has loaded does not change under it, though other jobs write
\* interfaces at the same time and sources are edited.
ViewsHold ==
  \A t \in Busy : \A d \in Modules : jobs[t].view[d] \in {NotLoaded, iface[d]}

\* A proof is checked again only when it, its statements, the kernel or an
\* interface it loads changed: "an upstream proof-only edit does not re-verify
\* this module" (Makefile).
ProofEditsStayLocal ==
  [][\A m \in Modules : Full(m) \in outdated' \ outdated =>
       \/ kernel' # kernel
       \/ source'[m] # source[m]
       \/ \E d \in Closure[m] \cup {m} : iface'[d] # iface[d]]_vars

\* Every make ends: no target waits for one that waits for it, and a failure
\* drains the jobs that still run.
BuildEnds == make # "idle" ~> make = "idle"

\* "stale cache ... its source ... has changed since the cache was written ...
\* Run `make -j 16 library` from the project root to rebuild" (main.cpp): then
\* make would rebuild it, sources edited under their own recipe again apart.
MakeCuresStale ==
  make = "idle" /\ complaint # Missing =>
    Iface(complaint) \in outdated \cup raced

\* With its files and processes the build is the one step it is meant to be.
Promise == INSTANCE VerifiedLibrary WITH
  building <- make # "idle", verified <- claim = "green",
  exempt <- raced \cup superseded,
  Interface <- FreshInterface, Proves <- FreshlyProves

\* No incremental build passes what would "only fail on a clean rebuild -- a
\* real trap" (Makefile): when a make succeeds, a build of the present library
\* from nothing would, whatever it found in the caches.
BuildsFromNothing == Promise!Spec
=============================================================================
