-------------------------- MODULE BuildCacheProofs --------------------------
(***************************************************************************)
(* Of BuildCache, for every library, every elaborator, any number of jobs   *)
(* and any history of edits, crashes, relinks and failed writes: types are   *)
(* kept (TypeOK), nothing a job has loaded changes under it (ViewsHold), and *)
(* a successful make leaves what a build from nothing would leave, but for    *)
(* what an interface module was sealed with (GreenMeansVerified).  Last comes *)
(* why every make ends.                                                    *)
(*                                                                         *)
(* The invariant says of every target that make would not rebuild, or that   *)
(* it is through with, that it is current; and of every job, that it works   *)
(* on what is there.                                                       *)
(***************************************************************************)
EXTENDS BuildCache, FiniteSetTheorems, TLAPS

\* A job runs after its prerequisites and before the targets that need it.
SlotsOK ==
  /\ make = "idle" => done = {} /\ Busy = {}
  /\ \A t \in Busy : t \notin done /\ Prerequisites(t) \subseteq done
  /\ \A t \in done : Prerequisites(t) \subseteq done
  /\ claim = "pending" => make # "idle"
  /\ claim = "green" => make = "idle"

JobOK(t) ==
  /\ jobs[t].kernel = kernel
  /\ t \notin raced => jobs[t].source = source[t[2]]
  /\ InView(t) \subseteq Loads[t[2]]
  /\ jobs[t].seal # Unread => t[2] \in Sealed
  /\ \A d \in Modules : jobs[t].view[d] \in {NotLoaded, iface[d]}
  /\ jobs[t].pc = "sidecar" => t[1] = "iface" /\ (t \notin raced \cup superseded => Current(t))

BInv ==
  /\ TypeOK
  /\ SlotsOK
  /\ \A t \in Busy : JobOK(t)
  /\ \A t \in Targets \ (outdated \cup raced \cup superseded) : Current(t)
  /\ claim = "pending" => \A t \in done \ (raced \cup superseded) : Current(t)
  /\ GreenMeansVerified
-----------------------------------------------------------------------------
(* Targets and imports. *)

LEMMA TargetFacts ==
  ASSUME NEW t \in Targets
  PROVE  /\ t[1] \in {"iface", "full"} /\ t[2] \in Modules
         /\ t = <<t[1], t[2]>>
         /\ t[1] = "iface" => t = Iface(t[2])
         /\ t[1] = "full" => t = Full(t[2])
  BY DEF Targets, Iface, Full

\* What is reached holds the start and is closed under being led to; it is
\* within every such set.
LEMMA ReachedFacts ==
  ASSUME NEW start \in SUBSET Modules, NEW leads \in [Modules -> SUBSET Modules]
  PROVE  /\ Reached(start, leads) \subseteq Modules
         /\ start \subseteq Reached(start, leads)
         /\ \A k \in Reached(start, leads) : leads[k] \subseteq Reached(start, leads)
         /\ \A S \in SUBSET Modules :
              start \subseteq S /\ (\A k \in S : leads[k] \subseteq S)
                => Reached(start, leads) \subseteq S
  BY DEF Reached

\* What a cache records is among what its module imports.
LEMMA RecordsFacts ==
  /\ Records \in [Modules -> SUBSET Modules]
  /\ \A k \in Modules : Records[k] \subseteq Imports[k]
  BY BuildAssumption DEF Records

LEMMA ClosureFacts ==
  ASSUME NEW m \in Modules
  PROVE  /\ Closure[m] \subseteq Modules
         /\ Imports[m] \subseteq Closure[m]
         /\ \A k \in Closure[m] : Imports[k] \subseteq Closure[m]
         /\ \A S \in SUBSET Modules :
              Imports[m] \subseteq S /\ (\A k \in S : Imports[k] \subseteq S)
                => Closure[m] \subseteq S
         /\ m \notin Closure[m]
<1>1. Imports[m] \in SUBSET Modules /\ Closure[m] = Reached(Imports[m], Imports)
  BY BuildAssumption DEF Closure
<1> QED BY <1>1, ReachedFacts, BuildAssumption

\* A module loads nothing that is not a prerequisite of its targets.
LEMMA LoadsFacts ==
  ASSUME NEW m \in Modules
  PROVE  /\ Loads[m] \subseteq Closure[m]
         /\ Imports[m] \subseteq Loads[m]
         /\ \A k \in Loads[m] : Records[k] \subseteq Loads[m]
         /\ \A S \in SUBSET Modules :
              Imports[m] \subseteq S /\ (\A k \in S : Records[k] \subseteq S)
                => Loads[m] \subseteq S
<1>1. Imports[m] \in SUBSET Modules /\ Loads[m] = Reached(Imports[m], Records)
  BY BuildAssumption DEF Loads
<1>2. \A k \in Closure[m] : Records[k] \subseteq Closure[m]
  BY ClosureFacts, RecordsFacts
<1>3. Loads[m] \subseteq Closure[m]
  BY <1>1, <1>2, ReachedFacts, ClosureFacts, RecordsFacts
<1> QED BY <1>1, <1>3, ReachedFacts, RecordsFacts

\* What a busy slot holds.
LEMMA BusyFacts ==
  ASSUME TypeOK, NEW t \in Targets
  PROVE  /\ t \in Busy <=> Running(t)
         /\ Running(t) => jobs[t] \in Jobs
  BY DEF Busy, Running, TypeOK

\* A job that has nothing left to load has loaded what there is now.
LEMMA ViewComplete ==
  ASSUME TypeOK, NEW t \in Busy, JobOK(t), ToLoad(t) = {}
  PROVE  jobs[t].view = ViewOf(t[2])
<1> DEFINE view == jobs[t].view
           m == t[2]
<1>1. t \in Targets /\ m \in Modules /\ view \in Views
  BY TargetFacts, BusyFacts DEF Busy, Jobs
<1>2. InView(t) = Loads[m]
  <2>1. InView(t) \subseteq Modules /\ InView(t) \subseteq Loads[m]
    BY DEF InView, JobOK
  <2>2. Imports[m] \subseteq InView(t) /\ \A k \in InView(t) : Records[k] \subseteq InView(t)
    BY DEF ToLoad
  <2> QED BY <1>1, <2>1, <2>2, LoadsFacts
<1>3. ASSUME NEW d \in Modules
      PROVE  view[d] = (IF d \in Loads[m] THEN iface[d] ELSE NotLoaded)
  BY <1>2, <1>3 DEF InView, JobOK
<1>4. view = [d \in Modules |-> view[d]]
  BY <1>1 DEF Views
<1> QED BY <1>3, <1>4 DEF ViewOf

\* Nothing read, and what a job read to seal, agree with its view or mark it.
LEMMA UnreadFacts ==
  /\ Unread \in Views
  /\ \A v \in Views : AgreesWith(Unread, v)
  BY DEF Unread, Views, AgreesWith

\* A job that has read nothing its view does not say makes what a job that
\* reads the interfaces alone would.
LEMMA SealedFresh ==
  ASSUME TypeOK, NEW t \in Busy, JobOK(t), ToLoad(t) = {},
         AgreesWith(jobs[t].seal, jobs[t].view)
  PROVE  /\ Elaborated(t) = FreshInterface(kernel, t[2], jobs[t].source, ViewOf(t[2]))
         /\ Checked(t) => FreshlyProves(kernel, t[2], jobs[t].source, ViewOf(t[2]))
<1>1. jobs[t] \in Jobs /\ t[2] \in Modules
  BY TargetFacts, BusyFacts DEF Busy
<1>2. jobs[t].view = ViewOf(t[2]) /\ jobs[t].kernel = kernel
  BY ViewComplete DEF JobOK
<1>3. /\ jobs[t].source \in Contents /\ jobs[t].view \in Views /\ jobs[t].seal \in Views
      /\ jobs[t].kernel \in Kernels
  BY <1>1 DEF Jobs
<1>4. /\ Interface(kernel, t[2], jobs[t].source, jobs[t].view, jobs[t].seal)
           = Interface(kernel, t[2], jobs[t].source, jobs[t].view, Unread)
      /\ Proves(kernel, t[2], jobs[t].source, jobs[t].view, jobs[t].seal)
           = Proves(kernel, t[2], jobs[t].source, jobs[t].view, Unread)
  BY <1>1, <1>2, <1>3, SealingAssumption
<1> QED BY <1>2, <1>4 DEF Elaborated, Checked, FreshInterface, FreshlyProves

\* What is found to be current stays so as long as the files it is about do.
LEMMA CurrentKept ==
  ASSUME NEW t \in Targets, Current(t),
         kernel' = kernel, source'[t[2]] = source[t[2]],
         t[1] = "iface" => iface'[t[2]] = iface[t[2]],
         t[1] = "full" => full'[t[2]] = full[t[2]],
         \A d \in Loads[t[2]] : iface'[d] = iface[d]
  PROVE  Current(t)'
<1>1. ViewOf(t[2])' = ViewOf(t[2])
  BY DEF ViewOf
<1> QED BY <1>1, TargetFacts DEF Current

-----------------------------------------------------------------------------
(* Types. *)

LEMMA TypeKept ==
  ASSUME TypeOK, Next
  PROVE  TypeOK'
<1> USE DEF TypeOK
<1>1. ASSUME NEW m \in Modules, NEW c \in Possible[m], Edit(m, c) PROVE TypeOK'
  <2>1. c \in Contents
    BY BuildAssumption
  <2>2. /\ source' \in [Modules -> Contents]
        /\ outdated' \in SUBSET Targets /\ raced' \in SUBSET Targets
        /\ superseded' \in SUBSET Targets
        /\ upsets' \in 0..MaxUpsets
    BY <1>1, <2>1, BuildAssumption DEF Edit, Upset, Targets, Iface, Full, Busy
  <2> QED BY <1>1, <2>2 DEF Edit
<1>2. ASSUME NEW k \in Kernels, Relink(k) PROVE TypeOK'
  BY <1>2, BuildAssumption DEF Relink, exempt, Upset
<1>3. CASE LibraryClean
  <2>1. Nothing \in [Modules -> {Missing}]
    BY DEF Nothing
  <2> QED BY <1>3, <2>1, BuildAssumption DEF LibraryClean, exempt, Upset
<1>4. CASE StartMake
  BY <1>4 DEF StartMake, files, exempt
<1>5. CASE Crash
  BY <1>5, BuildAssumption DEF Crash, files, exempt, Upset
<1>6. ASSUME NEW t \in Targets, Skip(t) PROVE TypeOK'
  BY <1>6 DEF Skip, files, exempt
<1>7. ASSUME NEW t \in Targets, StartJob(t) PROVE TypeOK'
  <2>1. [pc |-> "load", kernel |-> kernel, source |-> source[t[2]],
         view |-> Unread, seal |-> Unread] \in Jobs
    BY TargetFacts, UnreadFacts DEF Jobs, JobPCs
  <2>2. jobs' \in [Targets -> Jobs \cup {NoJob}] /\ raced' \in SUBSET Targets
    BY <1>7, <2>1 DEF StartJob
  <2> QED BY <1>7, <2>2 DEF StartJob, files, makeVars
<1>8. CASE MakeSucceeds \/ MakeFails
  BY <1>8 DEF MakeSucceeds, MakeFails, files, exempt
<1>9. ASSUME NEW t \in Targets, LoadInterface(t) PROVE TypeOK'
  <2>1. PICK d \in ToLoad(t) : jobs' = [jobs EXCEPT ![t].view[d] = iface[d]]
    BY <1>9 DEF LoadInterface
  <2>2. jobs[t] \in Jobs /\ d \in Modules
    BY <1>9, BusyFacts, TargetFacts, RecordsFacts, BuildAssumption
       DEF LoadInterface, At, ToLoad, InView
  <2>3. [jobs[t].view EXCEPT ![d] = iface[d]] \in Views
    BY <2>2 DEF Jobs, Views
  <2>4. [jobs[t] EXCEPT !.view[d] = iface[d]] \in Jobs
    BY <2>2, <2>3 DEF Jobs
  <2>5. jobs' \in [Targets -> Jobs \cup {NoJob}]
    BY <2>1, <2>4
  <2> QED BY <1>9, <2>5 DEF LoadInterface, files, makeVars, exempt
<1>10. ASSUME NEW t \in Targets, LoadStale(t) PROVE TypeOK'
  <2>1. complaint' \in Modules
    BY <1>10, TargetFacts, RecordsFacts, BuildAssumption DEF LoadStale, ToLoad, InView
  <2> QED BY <1>10, <2>1 DEF LoadStale, JobFails, files
<1>11. ASSUME NEW t \in Targets, RefuseStatements(t) \/ RefuseProofs(t) PROVE TypeOK'
  BY <1>11 DEF RefuseStatements, RefuseProofs, JobFails, files
<1>16. ASSUME NEW t \in Targets, ReadFull(t) PROVE TypeOK'
  <2>1. PICK d \in ToRead(t) : jobs' = [jobs EXCEPT ![t].seal[d] =
                                 IF full[d] = Missing THEN Missing ELSE full[d].statements]
    BY <1>16 DEF ReadFull
  <2>2. jobs[t] \in Jobs /\ d \in Modules
    BY <1>16, BusyFacts DEF ReadFull, At, ToRead
  <2>3. (IF full[d] = Missing THEN Missing ELSE full[d].statements) \in Bytes \cup {Missing}
    BY <2>2 DEF Verified
  <2> DEFINE states == IF full[d] = Missing THEN Missing ELSE full[d].statements
  <2> HIDE DEF states
  <2>4. [jobs[t].seal EXCEPT ![d] = states] \in Views
    BY <2>2, <2>3 DEF Jobs, Views, states
  <2>5. [jobs[t] EXCEPT !.seal[d] = states] \in Jobs
    BY <2>2, <2>4 DEF Jobs
  <2>6. jobs' \in [Targets -> Jobs \cup {NoJob}]
    BY <2>1, <2>5 DEF states
  <2> QED BY <1>16, <2>6 DEF ReadFull, files, makeVars, exempt
<1>12. ASSUME NEW t \in Targets, WriteFails(t) PROVE TypeOK'
  BY <1>12, BuildAssumption DEF WriteFails, JobFails, files, Upset
<1>13. ASSUME NEW t \in Targets, WriteInterface(t) PROVE TypeOK'
  <2>1. jobs[t] \in Jobs /\ t[2] \in Modules
    BY <1>13, BusyFacts, TargetFacts DEF WriteInterface, Loaded, At
  <2>2. Elaborated(t) \in Bytes
    BY <1>13, <2>1, ElaborationAssumption DEF WriteInterface, Elaborated, Jobs
  <2>3. iface' \in [Modules -> Bytes \cup {Missing}] /\ outdated' \in SUBSET Targets
    BY <1>13, <2>1, <2>2 DEF WriteInterface, WriteIfChanged, WriteOf
  <2>4. [jobs[t] EXCEPT !.pc = "sidecar"] \in Jobs
    BY <2>1 DEF Jobs, JobPCs
  <2>5. jobs' \in [Targets -> Jobs \cup {NoJob}] /\ superseded' \in SUBSET Targets
    BY <1>13, <2>4 DEF WriteInterface, SealedBy
  <2> QED BY <1>13, <2>3, <2>5 DEF WriteInterface, makeVars
<1>14. ASSUME NEW t \in Targets, WriteSidecar(t) PROVE TypeOK'
  <2>1. jobs[t].source \in Contents /\ t[2] \in Modules
    BY <1>14, BusyFacts, TargetFacts DEF WriteSidecar, At, Jobs
  <2> QED BY <1>14, <2>1 DEF WriteSidecar, JobDone
<1>15. ASSUME NEW t \in Targets, WriteFull(t) PROVE TypeOK'
  <2>1. jobs[t] \in Jobs /\ t[2] \in Modules
    BY <1>15, BusyFacts, TargetFacts DEF WriteFull, Loaded, At
  <2>2. Elaborated(t) \in Bytes
    BY <1>15, <2>1, ElaborationAssumption DEF WriteFull, Checked, Elaborated, Jobs
  <2>3. [kernel |-> jobs[t].kernel, source |-> jobs[t].source, view |-> jobs[t].view,
         statements |-> Elaborated(t)] \in Verified
    BY <2>1, <2>2 DEF Jobs, Verified
  <2>4. /\ full' \in [Modules -> Verified \cup {Missing}] /\ outdated' \in SUBSET Targets
        /\ superseded' \in SUBSET Targets
    BY <1>15, <2>1, <2>3 DEF WriteFull, WriteOf, SealedBy
  <2> QED BY <1>15, <2>4 DEF WriteFull, JobDone
<1> QED
  BY <1>1, <1>2, <1>3, <1>4, <1>5, <1>6, <1>7, <1>8, <1>9, <1>10, <1>11, <1>12,
     <1>13, <1>14, <1>15, <1>16 DEF Next, User, Build, Job

-----------------------------------------------------------------------------
(* The invariant. *)

JobsOK   == \A t \in Busy : JobOK(t)
FilesOK  == \A t \in Targets \ (outdated \cup raced \cup superseded) : Current(t)
DoneOK   == claim = "pending" => \A t \in done \ (raced \cup superseded) : Current(t)

LEMMA BInvParts ==
  BInv <=> TypeOK /\ SlotsOK /\ JobsOK /\ FilesOK /\ DoneOK /\ GreenMeansVerified
BY DEF BInv, JobsOK, FilesOK, DoneOK

\* A step that writes nothing and touches at most the slot w.
LEMMA NothingWritten ==
  ASSUME TypeOK, JobsOK, FilesOK, UNCHANGED files, UNCHANGED exempt,
         NEW w \in Targets,
         \A t \in Targets \ {w} : jobs'[t] = jobs[t],
         Running(w)' => JobOK(w)'
  PROVE  JobsOK' /\ FilesOK' /\ \A t \in Targets : Current(t)' = Current(t)
<1>1. \A t \in Targets : Current(t)' = Current(t)
  BY DEF files, Current, ViewOf
<1>2. ASSUME NEW t \in Busy', t # w PROVE JobOK(t)'
  <2>1. t \in Busy /\ t \in Targets /\ jobs'[t] = jobs[t]
    BY <1>2 DEF Busy, Running
  <2>2. JobOK(t) /\ Current(t)' = Current(t)
    BY <1>1, <2>1 DEF JobsOK
  <2> QED BY <2>1, <2>2 DEF JobOK, InView, files, exempt
<1>3. JobsOK'
  BY <1>2 DEF JobsOK, Busy
<1>4. FilesOK'
  BY <1>1 DEF FilesOK, files, exempt
<1> QED BY <1>1, <1>3, <1>4

\* A job that writes its target w, and the interface of that module if it is
\* one: every target the file matters to is out of date and not yet done.
LEMMA TargetWritten ==
  ASSUME BInv, NEW w \in Busy, WriteOf(w),
         UNCHANGED <<kernel, source, raced>>, SealedBy(w),
         \A m \in Modules : w # Iface(m) => iface'[m] = iface[m],
         \A m \in Modules : w # Full(m) => full'[m] = full[m],
         w \notin (raced \cup superseded)' => Current(w)',
         \A t \in Targets \ {w} : jobs'[t] = jobs[t],
         Running(w)' => JobOK(w)'
  PROVE  /\ JobsOK' /\ FilesOK'
         /\ \A t \in done : t # w /\ (Current(t) => Current(t)')
<1>1. w \in Targets /\ w \notin done
  BY DEF BInv, SlotsOK, Busy
<1>2. ASSUME NEW t \in Targets, t # w, w \notin Prerequisites(t), Current(t)
      PROVE  Current(t)'
  <2>1. \A d \in Loads[t[2]] : w # Iface(d)
    BY <1>2, TargetFacts, LoadsFacts DEF Prerequisites
  <2>2. \A d \in Loads[t[2]] : iface'[d] = iface[d]
    BY <2>1, TargetFacts, ClosureFacts, LoadsFacts
  <2>3. /\ t[1] = "iface" => iface'[t[2]] = iface[t[2]]
        /\ t[1] = "full" => full'[t[2]] = full[t[2]]
    BY <1>2, TargetFacts
  <2> QED BY <1>2, <2>2, <2>3, TargetFacts, CurrentKept
<1>3. ASSUME NEW t \in done PROVE t \in Targets /\ t # w /\ w \notin Prerequisites(t)
  BY <1>1, <1>3 DEF BInv, SlotsOK, TypeOK
<1>4. ASSUME NEW t \in Busy', t # w PROVE JobOK(t)'
  <2>1. t \in Busy /\ t \in Targets /\ jobs'[t] = jobs[t] /\ JobOK(t)
    BY <1>4 DEF Busy, Running, BInv
  <2>2. w \notin Prerequisites(t)
    BY <1>1, <2>1 DEF BInv, SlotsOK
  <2>3. Current(t) => Current(t)'
    BY <1>2, <1>4, <2>1, <2>2
  <2>4. \A d \in InView(t) : iface'[d] = iface[d]
    <3>1. \A d \in Loads[t[2]] : w # Iface(d)
      BY <2>1, <2>2, TargetFacts, LoadsFacts DEF Prerequisites
    <3> QED BY <3>1, <2>1, TargetFacts, ClosureFacts, LoadsFacts DEF JobOK
  <2>5. \A d \in Modules : jobs'[t].view[d] \in {NotLoaded, iface'[d]}
    BY <2>1, <2>4 DEF JobOK, InView
  <2>6. t \in superseded' <=> t \in superseded
    BY <1>4 DEF SealedBy
  <2> QED BY <2>1, <2>3, <2>5, <2>6 DEF JobOK, InView
<1>5. JobsOK'
  BY <1>4 DEF JobsOK, Busy
<1>6. FilesOK'
  <2> SUFFICES ASSUME NEW t \in Targets, t \notin outdated', t \notin raced',
                      t \notin superseded'
               PROVE  Current(t)'
    BY DEF FilesOK
  <2>1. CASE t = w
    BY <2>1
  <2>2. CASE t # w
    <3>1. t \notin outdated /\ t \notin superseded /\ w \notin Prerequisites(t)
      BY <2>2 DEF WriteOf, SealedBy
    <3> QED BY <2>2, <3>1, <1>2 DEF BInv
  <2> QED BY <2>1, <2>2
<1> QED BY <1>2, <1>3, <1>5, <1>6

\* Every step keeps the invariant.
LEMMA NextKeeps ==
  ASSUME BInv, Next
  PROVE  BInv'
<1>0. /\ TypeOK /\ SlotsOK /\ JobsOK /\ FilesOK /\ DoneOK /\ GreenMeansVerified
      /\ TypeOK'
  BY BInvParts, TypeKept
<1> SUFFICES SlotsOK' /\ JobsOK' /\ FilesOK' /\ DoneOK' /\ GreenMeansVerified'
  BY <1>0 DEF BInv, JobsOK, FilesOK, DoneOK
<1>1. ASSUME NEW m \in Modules, NEW c \in Possible[m], Edit(m, c)
      PROVE  SlotsOK' /\ JobsOK' /\ FilesOK' /\ DoneOK' /\ GreenMeansVerified'
  <2>1. SlotsOK' /\ DoneOK' /\ GreenMeansVerified'
    BY <1>1, <1>0 DEF Edit, SlotsOK, Busy, Running, DoneOK, GreenMeansVerified, Prerequisites
  <2>2. ASSUME NEW t \in Targets, t[2] # m, Current(t) PROVE Current(t)'
    <3>1. source'[t[2]] = source[t[2]]
      BY <1>1, <1>0, <2>2, TargetFacts DEF Edit, TypeOK
    <3> QED BY <1>1, <2>2, <3>1, CurrentKept DEF Edit
  <2>3. ASSUME NEW t \in Busy' PROVE JobOK(t)'
    <3>1. t \in Busy /\ t \in Targets /\ JobOK(t) /\ jobs' = jobs
      BY <1>1, <1>0, <2>3 DEF Edit, Busy, Running, JobsOK
    <3>2. CASE t[2] = m
      BY <1>1, <3>1, <3>2 DEF Edit, JobOK, InView
    <3>3. CASE t[2] # m
      <4>1. source'[t[2]] = source[t[2]] /\ (t \notin raced' => t \notin raced)
        BY <1>1, <1>0, <3>1, <3>3, TargetFacts DEF Edit, TypeOK, Iface, Full
      <4>2. Current(t) => Current(t)'
        BY <2>2, <3>1, <3>3
      <4>3. t \notin superseded' => t \notin superseded
        BY <1>1, <3>1, <3>3, TargetFacts DEF Edit, Iface, Full
      <4> QED BY <1>1, <3>1, <4>1, <4>2, <4>3 DEF Edit, JobOK, InView
    <3> QED BY <3>2, <3>3
  <2>4. ASSUME NEW t \in Targets, t \notin outdated', t \notin raced', t \notin superseded'
        PROVE  Current(t)'
    <3>1. t[2] # m /\ t \notin outdated /\ t \notin raced
      BY <1>1, <2>4, TargetFacts DEF Edit
    <3>2. t \notin superseded
      BY <1>1, <2>4, <3>1 DEF Edit, Iface, Full
    <3> QED BY <1>0, <2>2, <3>1, <3>2 DEF FilesOK
  <2> QED BY <2>1, <2>3, <2>4 DEF JobsOK, FilesOK
<1>2. ASSUME NEW k \in Kernels, Relink(k)
      PROVE  SlotsOK' /\ JobsOK' /\ FilesOK' /\ DoneOK' /\ GreenMeansVerified'
  BY <1>2, <1>0 DEF Relink, exempt, SlotsOK, Busy, Running, JobsOK, FilesOK, DoneOK,
                    GreenMeansVerified
<1>3. CASE LibraryClean
  BY <1>3, <1>0 DEF LibraryClean, exempt, SlotsOK, Busy, Running, JobsOK, FilesOK, DoneOK,
                    GreenMeansVerified
<1>4. CASE StartMake
  <2>1. SlotsOK' /\ done = {} /\ Busy = {} /\ Busy' = {}
    BY <1>4, <1>0 DEF StartMake, SlotsOK, Busy, Running
  <2>2. \A t \in Targets : Current(t)' = Current(t)
    BY <1>4 DEF StartMake, files, exempt, Current, ViewOf
  <2> QED BY <1>4, <1>0, <2>1, <2>2
          DEF StartMake, files, exempt, JobsOK, FilesOK, DoneOK, GreenMeansVerified
<1>5. CASE Crash
  <2>1. SlotsOK' /\ Busy' = {}
    BY <1>5 DEF Crash, SlotsOK, Busy, Running
  <2>2. \A t \in Targets : Current(t)' = Current(t)
    BY <1>5 DEF Crash, files, exempt, Current, ViewOf
  <2> QED BY <1>5, <1>0, <2>1, <2>2
          DEF Crash, files, exempt, JobsOK, FilesOK, DoneOK, GreenMeansVerified
<1>6. ASSUME NEW t \in Targets, Skip(t)
      PROVE  SlotsOK' /\ JobsOK' /\ FilesOK' /\ DoneOK' /\ GreenMeansVerified'
  <2>1. UNCHANGED files /\ UNCHANGED exempt /\ UNCHANGED jobs /\ ~Running(t)
    BY <1>6 DEF Skip, Considered
  <2>2. JobsOK' /\ FilesOK' /\ \A u \in Targets : Current(u)' = Current(u)
    BY <1>0, <2>1, NothingWritten DEF Running
  <2>3. SlotsOK'
    BY <1>6, <1>0, <2>1 DEF Skip, Considered, SlotsOK, Busy, Running
  <2>4. DoneOK'
    BY <1>6, <1>0, <2>2 DEF Skip, exempt, DoneOK, FilesOK, TypeOK
  <2>5. GreenMeansVerified'
    BY <1>6, <1>0, <2>2 DEF Skip, Considered, SlotsOK, GreenMeansVerified
  <2> QED BY <2>2, <2>3, <2>4, <2>5
<1>7. ASSUME NEW t \in Targets, StartJob(t)
      PROVE  SlotsOK' /\ JobsOK' /\ FilesOK' /\ DoneOK' /\ GreenMeansVerified'
  <2>1. \A u \in Targets : Current(u)' = Current(u)
    BY <1>7 DEF StartJob, files, exempt, Current, ViewOf
  <2>2. \A u \in Targets \ {t} : jobs'[u] = jobs[u]
    BY <1>7, <1>0 DEF StartJob, TypeOK
  <2>3. JobOK(t)'
    <3>1. jobs'[t] = [pc |-> "load", kernel |-> kernel, source |-> source[t[2]],
                      view |-> Unread, seal |-> Unread]
      BY <1>7, <1>0 DEF StartJob, TypeOK
    <3> QED BY <1>7, <3>1 DEF Unread, StartJob, files, exempt, JobOK, InView
  <2>4. JobsOK'
    <3> SUFFICES ASSUME NEW u \in Busy', u # t PROVE JobOK(u)'
      BY <2>3 DEF JobsOK
    <3>1. u \in Busy /\ u \in Targets /\ jobs'[u] = jobs[u] /\ JobOK(u)
      BY <1>0, <2>2 DEF Busy, Running, JobsOK
    <3>2. u \notin raced' => u \notin raced
      BY <1>7 DEF StartJob
    <3> QED BY <1>7, <2>1, <3>1, <3>2 DEF StartJob, files, exempt, JobOK, InView
  <2>5. FilesOK'
    BY <1>7, <1>0, <2>1 DEF StartJob, files, exempt, FilesOK
  <2>6. SlotsOK'
    BY <1>7, <1>0, <2>2 DEF StartJob, Considered, makeVars, SlotsOK, Busy, Running
  <2>7. DoneOK' /\ GreenMeansVerified'
    BY <1>7, <1>0, <2>1 DEF StartJob, Considered, makeVars, SlotsOK, DoneOK, TypeOK,
                            GreenMeansVerified
  <2> QED BY <2>4, <2>5, <2>6, <2>7
<1>8. CASE MakeSucceeds
  <2>1. \A u \in Targets : Current(u)' = Current(u)
    BY <1>8 DEF MakeSucceeds, files, exempt, Current, ViewOf
  <2>2. Busy = {} /\ Busy' = {}
    BY <1>8, <1>0 DEF MakeSucceeds, SlotsOK, Busy, Running
  <2> QED BY <1>8, <1>0, <2>1, <2>2
          DEF MakeSucceeds, files, exempt, SlotsOK, JobsOK, FilesOK, DoneOK, GreenMeansVerified
<1>9. CASE MakeFails
  <2>1. \A u \in Targets : Current(u)' = Current(u)
    BY <1>9 DEF MakeFails, files, exempt, Current, ViewOf
  <2>2. Busy = {} /\ Busy' = {}
    BY <1>9 DEF MakeFails, Busy, Running
  <2> QED BY <1>9, <1>0, <2>1, <2>2
          DEF MakeFails, files, exempt, SlotsOK, JobsOK, FilesOK, DoneOK, GreenMeansVerified
<1>10. ASSUME NEW t \in Targets, LoadInterface(t)
       PROVE  SlotsOK' /\ JobsOK' /\ FilesOK' /\ DoneOK' /\ GreenMeansVerified'
  <2>1. PICK d \in ToLoad(t) : jobs' = [jobs EXCEPT ![t].view[d] = iface[d]]
    BY <1>10 DEF LoadInterface
  <2>2. t \in Busy /\ JobOK(t) /\ jobs[t] \in Jobs /\ t[2] \in Modules
    BY <1>10, <1>0, BusyFacts, TargetFacts DEF LoadInterface, At, JobsOK
  <2>3. d \in Loads[t[2]] /\ d \in Modules
    BY <2>1, <2>2, ClosureFacts, LoadsFacts DEF ToLoad, JobOK
  <2>4. /\ \A u \in Targets \ {t} : jobs'[u] = jobs[u]
        /\ jobs'[t] = [jobs[t] EXCEPT !.view[d] = iface[d]]
    BY <1>0, <2>1 DEF TypeOK
  <2>5. /\ jobs'[t].pc = jobs[t].pc /\ jobs'[t].kernel = jobs[t].kernel
        /\ jobs'[t].source = jobs[t].source /\ jobs'[t].seal = jobs[t].seal
        /\ jobs'[t].view = [jobs[t].view EXCEPT ![d] = iface[d]]
    BY <2>2, <2>4 DEF Jobs
  <2>6. InView(t)' \subseteq Loads[t[2]] /\
        \A k \in Modules : jobs'[t].view[k] \in {NotLoaded, iface[k]}
    BY <2>2, <2>3, <2>5 DEF JobOK, InView, Jobs, Views
  <2>7. UNCHANGED files /\ UNCHANGED exempt /\ jobs[t].pc = "load"
    BY <1>10 DEF LoadInterface, At
  <2>8. JobOK(t)'
    BY <2>2, <2>5, <2>6, <2>7 DEF JobOK, files, exempt
  <2>9. JobsOK' /\ FilesOK' /\ \A u \in Targets : Current(u)' = Current(u)
    BY <1>0, <2>4, <2>7, <2>8, NothingWritten
  <2>10. Busy' \subseteq Busy
    BY <2>2, <2>4 DEF Busy, Running
  <2> QED BY <1>10, <1>0, <2>9, <2>10
          DEF LoadInterface, exempt, makeVars, SlotsOK, DoneOK, TypeOK, GreenMeansVerified
<1>16. ASSUME NEW t \in Targets, ReadFull(t)
       PROVE  SlotsOK' /\ JobsOK' /\ FilesOK' /\ DoneOK' /\ GreenMeansVerified'
  <2>1. /\ t \in Busy /\ JobOK(t) /\ jobs[t] \in Jobs /\ jobs[t].pc = "load"
        /\ UNCHANGED files /\ UNCHANGED exempt /\ UNCHANGED makeVars
        /\ t[2] \in Sealed
    BY <1>16, <1>0, BusyFacts DEF ReadFull, At, ToRead, JobsOK
  <2>2. /\ \A u \in Targets \ {t} : jobs'[u] = jobs[u]
        /\ jobs'[t].pc = jobs[t].pc /\ jobs'[t].kernel = jobs[t].kernel
        /\ jobs'[t].source = jobs[t].source /\ jobs'[t].view = jobs[t].view
    BY <1>16, <1>0, <2>1 DEF ReadFull, TypeOK, Jobs
  <2>3. JobOK(t)'
    BY <2>1, <2>2 DEF JobOK, InView, files, exempt
  <2>4. JobsOK' /\ FilesOK' /\ \A u \in Targets : Current(u)' = Current(u)
    BY <1>0, <2>1, <2>2, <2>3, NothingWritten
  <2>5. Busy' \subseteq Busy
    BY <2>1, <2>2 DEF Busy, Running
  <2> QED BY <1>0, <2>1, <2>4, <2>5
          DEF makeVars, exempt, SlotsOK, DoneOK, TypeOK, GreenMeansVerified
<1>11. ASSUME NEW t \in Targets, JobFails(t), UNCHANGED files, UNCHANGED superseded, Running(t)
       PROVE  SlotsOK' /\ JobsOK' /\ FilesOK' /\ DoneOK' /\ GreenMeansVerified'
  <2>1. /\ \A u \in Targets \ {t} : jobs'[u] = jobs[u]
        /\ jobs'[t] = NoJob /\ UNCHANGED exempt
    BY <1>11, <1>0 DEF JobFails, exempt, TypeOK
  <2>2. JobsOK' /\ FilesOK' /\ \A u \in Targets : Current(u)' = Current(u)
    BY <1>11, <1>0, <2>1, NothingWritten DEF Running
  <2>3. Busy' \subseteq Busy /\ t \in Busy
    BY <1>11, <2>1 DEF Busy, Running
  <2> QED BY <1>11, <1>0, <2>2, <2>3
          DEF JobFails, exempt, SlotsOK, DoneOK, TypeOK, GreenMeansVerified
<1>12. ASSUME NEW t \in Targets,
              LoadStale(t) \/ RefuseStatements(t) \/ RefuseProofs(t) \/ WriteFails(t)
       PROVE  SlotsOK' /\ JobsOK' /\ FilesOK' /\ DoneOK' /\ GreenMeansVerified'
  BY <1>11, <1>12 DEF LoadStale, RefuseStatements, RefuseProofs, WriteFails, Loaded, At
<1>13. ASSUME NEW t \in Targets, WriteInterface(t)
       PROVE  SlotsOK' /\ JobsOK' /\ FilesOK' /\ DoneOK' /\ GreenMeansVerified'
  <2> DEFINE m == t[2]
  <2>1. /\ t \in Busy /\ JobOK(t) /\ jobs[t] \in Jobs
        /\ m \in Modules /\ t[1] = "iface" /\ t = Iface(m)
    BY <1>13, <1>0, BusyFacts, TargetFacts DEF WriteInterface, Loaded, At, JobsOK
  <2>2. /\ \A u \in Targets \ {t} : jobs'[u] = jobs[u]
        /\ jobs'[t] = [jobs[t] EXCEPT !.pc = "sidecar"]
        /\ UNCHANGED <<kernel, source, full, makeVars, raced>> /\ SealedBy(t)
    BY <1>13, <1>0 DEF WriteInterface, TypeOK
  <2>3. /\ jobs'[t].pc = "sidecar" /\ jobs'[t].kernel = jobs[t].kernel
        /\ jobs'[t].source = jobs[t].source /\ jobs'[t].view = jobs[t].view
        /\ jobs'[t].seal = jobs[t].seal
    BY <2>1, <2>2 DEF Jobs
  <2>4. /\ jobs[t].view = ViewOf(m)
        /\ t \notin superseded' =>
             Elaborated(t) = FreshInterface(kernel, m, jobs[t].source, ViewOf(m))
        /\ Elaborated(t) \in Bytes /\ Missing # Elaborated(t)
    <3>1. jobs[t].view = ViewOf(m) /\ ToLoad(t) = {}
      BY <1>13, <1>0, <2>1, ViewComplete DEF WriteInterface, Loaded
    <3>2. AgreesWith(jobs[t].seal, jobs[t].view) =>
            Elaborated(t) = FreshInterface(kernel, m, jobs[t].source, ViewOf(m))
      BY <1>0, <2>1, <3>1, SealedFresh
    <3>3. Elaborated(t) \in Bytes
      BY <1>13, <2>1, ElaborationAssumption DEF WriteInterface, Elaborated, Jobs
    <3> QED BY <2>2, <3>1, <3>2, <3>3, BuildAssumption DEF SealedBy
  <2>5. iface'[m] = Elaborated(t) /\ \A k \in Modules \ {m} : iface'[k] = iface[k]
    BY <1>13, <1>0, <2>1 DEF WriteInterface, WriteIfChanged, TypeOK
  <2>6. ViewOf(m)' = ViewOf(m)
    BY <2>1, <2>5, ClosureFacts, LoadsFacts DEF ViewOf
  <2>7. t \notin (raced \cup superseded)' => Current(t)'
    BY <2>1, <2>2, <2>4, <2>5, <2>6 DEF Current, JobOK
  <2>8. JobOK(t)'
    <3>1. \A k \in Modules : jobs'[t].view[k] \in {NotLoaded, iface'[k]}
      BY <2>1, <2>3, <2>4, <2>6 DEF ViewOf
    <3> QED BY <2>1, <2>2, <2>3, <2>7, <3>1 DEF JobOK, InView
  <2>9. JobsOK' /\ FilesOK' /\ \A u \in done : u # t /\ (Current(u) => Current(u)')
    <3>1. CASE WriteOf(t)
      <4>1. \A k \in Modules : t # Iface(k) => iface'[k] = iface[k]
        BY <2>1, <2>5
      <4> QED BY <3>1, <4>1, <2>1, <2>2, <2>7, <2>8, TargetWritten
    <3>2. CASE UNCHANGED <<iface, outdated>>
      <4>1. \A u \in Targets : Current(u)' = Current(u)
        BY <3>2, <2>2 DEF Current, ViewOf
      <4>2. ASSUME NEW u \in Busy', u # t PROVE JobOK(u)'
        <5>1. u \in Busy /\ u \in Targets /\ jobs'[u] = jobs[u] /\ JobOK(u)
          BY <1>0, <2>2, <4>2 DEF Busy, Running, JobsOK
        <5>2. u \in superseded' <=> u \in superseded
          BY <2>2, <4>2 DEF SealedBy
        <5> QED BY <3>2, <2>2, <4>1, <5>1, <5>2 DEF JobOK, InView
      <4>3. JobsOK'
        BY <2>8, <4>2 DEF JobsOK
      <4>4. FilesOK'
        <5> SUFFICES ASSUME NEW u \in Targets, u \notin outdated', u \notin raced',
                            u \notin superseded'
                     PROVE  Current(u)'
          BY DEF FilesOK
        <5>1. CASE u = t
          BY <2>2, <2>7, <5>1
        <5>2. CASE u # t
          <6>1. u \notin outdated /\ u \notin raced /\ u \notin superseded
            BY <2>2, <3>2, <5>2 DEF SealedBy
          <6> QED BY <1>0, <4>1, <6>1 DEF FilesOK
        <5> QED BY <5>1, <5>2
      <4> QED BY <1>0, <2>1, <4>1, <4>3, <4>4 DEF TypeOK, SlotsOK
    <3> QED BY <1>13, <3>1, <3>2 DEF WriteInterface, WriteIfChanged
  <2>10. Busy' \subseteq Busy
    BY <2>1, <2>2 DEF Busy, Running
  <2>11. make # "idle"
    BY <1>0, <2>1 DEF SlotsOK
  <2>12. \A u \in done : u \in superseded' <=> u \in superseded
    BY <2>2, <2>9 DEF SealedBy
  <2> QED BY <1>0, <2>2, <2>9, <2>10, <2>11, <2>12
          DEF makeVars, SlotsOK, DoneOK, GreenMeansVerified
<1>14. ASSUME NEW t \in Targets, WriteSidecar(t)
       PROVE  SlotsOK' /\ JobsOK' /\ FilesOK' /\ DoneOK' /\ GreenMeansVerified'
  <2>1. t \in Busy /\ JobOK(t) /\ jobs[t].pc = "sidecar"
    BY <1>14, <1>0, BusyFacts DEF WriteSidecar, At, JobsOK
  <2>2. /\ \A u \in Targets \ {t} : jobs'[u] = jobs[u]
        /\ jobs'[t] = NoJob /\ done' = done \cup {t}
        /\ UNCHANGED <<kernel, source, iface, full, outdated, make, claim, raced, superseded>>
    BY <1>14, <1>0 DEF WriteSidecar, JobDone, TypeOK
  <2>3. \A u \in Targets : Current(u)' = Current(u)
    BY <2>2 DEF Current, ViewOf
  <2>4. ASSUME NEW u \in Busy' PROVE u \in Busy /\ u # t /\ JobOK(u)'
    <3>1. u \in Busy /\ u \in Targets /\ u # t /\ jobs'[u] = jobs[u] /\ JobOK(u)
      BY <1>0, <2>2, <2>4 DEF Busy, Running, JobsOK
    <3> QED BY <2>2, <2>3, <3>1 DEF JobOK, InView
  <2>5. make # "idle" /\ claim # "green"
    BY <1>0, <2>1 DEF SlotsOK
  <2>6. SlotsOK'
    BY <1>0, <2>1, <2>2, <2>4, <2>5 DEF SlotsOK
  <2>7. DoneOK'
    BY <1>0, <2>1, <2>2, <2>3 DEF DoneOK, JobOK, TypeOK
  <2> QED BY <1>0, <2>2, <2>3, <2>4, <2>5, <2>6, <2>7
          DEF JobsOK, FilesOK, GreenMeansVerified
<1>15. ASSUME NEW t \in Targets, WriteFull(t)
       PROVE  SlotsOK' /\ JobsOK' /\ FilesOK' /\ DoneOK' /\ GreenMeansVerified'
  <2> DEFINE m == t[2]
  <2>1. /\ t \in Busy /\ JobOK(t) /\ jobs[t] \in Jobs
        /\ m \in Modules /\ t[1] = "full" /\ t = Full(m)
    BY <1>15, <1>0, BusyFacts, TargetFacts DEF WriteFull, Loaded, At, JobsOK
  <2>2. /\ \A u \in Targets \ {t} : jobs'[u] = jobs[u]
        /\ jobs'[t] = NoJob /\ done' = done \cup {t}
        /\ UNCHANGED <<kernel, source, iface, make, claim, raced>>
        /\ WriteOf(t) /\ SealedBy(t)
    BY <1>15, <1>0 DEF WriteFull, JobDone, TypeOK
  <2>3. jobs[t].view = ViewOf(m) /\ jobs[t].kernel = kernel
    BY <1>15, <1>0, <2>1, ViewComplete DEF WriteFull, Loaded, JobOK
  <2>4. full'[m] = [kernel |-> kernel, source |-> jobs[t].source, view |-> ViewOf(m),
                    statements |-> Elaborated(t)]
    BY <1>15, <1>0, <2>1, <2>3 DEF WriteFull, TypeOK
  <2>5. t \notin superseded' =>
          /\ Elaborated(t) = FreshInterface(kernel, m, jobs[t].source, ViewOf(m))
          /\ FreshlyProves(kernel, m, jobs[t].source, ViewOf(m))
    <3>1. ToLoad(t) = {} /\ Checked(t)
      BY <1>15 DEF WriteFull, Loaded
    <3>2. t \notin superseded' => AgreesWith(jobs[t].seal, jobs[t].view)
      BY <2>2 DEF SealedBy
    <3> QED BY <1>0, <2>1, <3>1, <3>2, SealedFresh
  <2>6. ViewOf(m)' = ViewOf(m)
    BY <2>2 DEF ViewOf
  <2>7. t \notin (raced \cup superseded)' => Current(t)'
    BY <2>1, <2>2, <2>4, <2>5, <2>6 DEF Current, JobOK
  <2>8. \A k \in Modules : t # Full(k) => full'[k] = full[k]
    BY <1>15, <1>0, <2>1 DEF WriteFull, TypeOK
  <2>9. JobsOK' /\ FilesOK' /\ \A u \in done : u # t /\ (Current(u) => Current(u)')
    BY <2>1, <2>2, <2>7, <2>8, TargetWritten DEF Running
  <2>10. make # "idle" /\ claim # "green" /\ Busy' \subseteq Busy \ {t}
    BY <1>0, <2>1, <2>2 DEF SlotsOK, Busy, Running
  <2>11. SlotsOK'
    BY <1>0, <2>1, <2>2, <2>10 DEF SlotsOK
  <2>12. DoneOK'
    <3>1. \A u \in done : u \in superseded' <=> u \in superseded
      BY <2>2, <2>9 DEF SealedBy
    <3> QED BY <1>0, <2>2, <2>7, <2>9, <3>1 DEF DoneOK
  <2> QED BY <2>2, <2>9, <2>10, <2>11, <2>12 DEF GreenMeansVerified
<1> QED
  BY <1>1, <1>2, <1>3, <1>4, <1>5, <1>6, <1>7, <1>8, <1>9, <1>10, <1>12, <1>13,
     <1>14, <1>15, <1>16 DEF Next, User, Build, Job

\* The invariant holds in every reachable state.
THEOREM Invariance == Spec => []BInv
<1>1. Init => BInv
  <2> SUFFICES ASSUME Init PROVE BInv
    OBVIOUS
  <2>1. TypeOK
    BY BuildAssumption DEF Init, TypeOK, Nothing
  <2>2. Busy = {}
    BY DEF Init, Busy, Running
  <2> QED BY <2>1, <2>2 DEF Init, BInv, SlotsOK, GreenMeansVerified
<1>2. BInv /\ [Next]_vars => BInv'
  <2> SUFFICES ASSUME BInv, [Next]_vars PROVE BInv'
    OBVIOUS
  <2>1. CASE Next
    BY <2>1, NextKeeps
  <2>2. CASE UNCHANGED vars
    <3>1. /\ kernel' = kernel /\ source' = source /\ iface' = iface /\ sidecar' = sidecar
          /\ full' = full /\ outdated' = outdated /\ make' = make /\ done' = done
          /\ claim' = claim /\ complaint' = complaint /\ jobs' = jobs
          /\ raced' = raced /\ superseded' = superseded /\ upsets' = upsets
      BY <2>2 DEF vars, files, exempt, makeVars
    <3>2. TypeOK'
      BY <3>1 DEF BInv, TypeOK
    <3>3. Busy' = Busy /\ SlotsOK'
      BY <3>1 DEF BInv, SlotsOK, Busy, Running
    <3>4. \A t \in Targets : Current(t)' = Current(t)
      BY <3>1 DEF Current, ViewOf
    <3>5. \A t \in Busy : JobOK(t)'
      BY <3>1, <3>4 DEF BInv, JobOK, InView, Busy
    <3>6. GreenMeansVerified'
      BY <3>1, <3>4 DEF BInv, GreenMeansVerified
    <3>7. /\ \A t \in Targets \ (outdated \cup raced \cup superseded)' : Current(t)'
          /\ claim' = "pending" => \A t \in (done \ (raced \cup superseded))' : Current(t)'
      BY <3>1, <3>4 DEF BInv, TypeOK
    <3> QED BY <3>2, <3>3, <3>5, <3>6, <3>7 DEF BInv
  <2> QED BY <2>1, <2>2
<1> QED BY <1>1, <1>2, PTL DEF Spec

\* Every variable keeps its type, whatever is built.
THEOREM TypeCorrect == Spec => []TypeOK
<1>1. BInv => TypeOK
  BY DEF BInv
<1> QED BY <1>1, Invariance, PTL

\* What a job has loaded does not change under it.
THEOREM LoadedViewsHold == Spec => []ViewsHold
<1>1. BInv => ViewsHold
  BY DEF BInv, JobOK, ViewsHold
<1> QED BY <1>1, Invariance, PTL

\* A successful make is worth a build from nothing, for every library and any
\* number of jobs, after any history.
THEOREM SuccessIsVerified == Spec => []GreenMeansVerified
<1>1. BInv => GreenMeansVerified
  BY DEF BInv
<1> QED BY <1>1, Invariance, PTL

-----------------------------------------------------------------------------
(* What make re-checks. *)

\* A target make would keep, or is through with, has its interface on disk.
ExistOK ==
  /\ \A m \in Modules : iface[m] = Missing =>
       {Iface(m), Full(m)} \subseteq outdated /\ Iface(m) \notin done
  /\ \A t \in Busy : jobs[t].pc = "sidecar" => t[1] = "iface" /\ iface[t[2]] # Missing

LEMMA ExistKept ==
  ASSUME BInv, ExistOK, Next
  PROVE  ExistOK'
<1>0. TypeOK /\ TypeOK' /\ SlotsOK
  BY TypeKept DEF BInv
<1>1. ASSUME NEW m \in Modules, NEW c \in Possible[m], Edit(m, c) PROVE ExistOK'
  BY <1>1 DEF Edit, ExistOK, Busy, Running
<1>2. ASSUME NEW k \in Kernels, Relink(k) PROVE ExistOK'
  BY <1>2 DEF Relink, ExistOK, Busy, Running, Targets, Iface, Full
<1>3. CASE LibraryClean
  BY <1>0, <1>3 DEF LibraryClean, SlotsOK, ExistOK, Busy, Running, Targets, Iface, Full
<1>4. CASE StartMake \/ MakeSucceeds \/ MakeFails \/ Crash
  BY <1>4 DEF StartMake, MakeSucceeds, MakeFails, Crash, files, exempt, ExistOK, Busy, Running
<1>5. ASSUME NEW t \in Targets, Skip(t) PROVE ExistOK'
  BY <1>5 DEF Skip, files, exempt, ExistOK, Busy, Running
<1>6. ASSUME NEW t \in Targets, UNCHANGED files, UNCHANGED done,
             \A u \in Targets \ {t} : jobs'[u] = jobs[u],
             jobs'[t].pc # "sidecar"
      PROVE  ExistOK'
  BY <1>6 DEF files, exempt, ExistOK, Busy, Running
<1>7. ASSUME NEW t \in Targets, StartJob(t) PROVE ExistOK'
  <2>1. jobs'[t].pc = "load" /\ \A u \in Targets \ {t} : jobs'[u] = jobs[u]
    BY <1>0, <1>7 DEF StartJob, TypeOK
  <2> QED BY <1>6, <1>7, <2>1 DEF StartJob, makeVars
<1>8. ASSUME NEW t \in Targets, LoadInterface(t) PROVE ExistOK'
  <2>1. PICK d \in ToLoad(t) : jobs' = [jobs EXCEPT ![t].view[d] = iface[d]]
    BY <1>8 DEF LoadInterface
  <2>2. jobs[t] \in Jobs /\ jobs[t].pc = "load"
    BY <1>0, <1>8, BusyFacts DEF LoadInterface, At
  <2>3. jobs'[t].pc = "load" /\ \A u \in Targets \ {t} : jobs'[u] = jobs[u]
    BY <1>0, <2>1, <2>2 DEF TypeOK, Jobs
  <2> QED BY <1>6, <1>8, <2>3 DEF LoadInterface, makeVars
<1>13. ASSUME NEW t \in Targets, ReadFull(t) PROVE ExistOK'
  <2>1. jobs[t] \in Jobs /\ jobs[t].pc = "load"
    BY <1>0, <1>13, BusyFacts DEF ReadFull, At
  <2>2. jobs'[t].pc = "load" /\ \A u \in Targets \ {t} : jobs'[u] = jobs[u]
    BY <1>0, <1>13, <2>1 DEF ReadFull, TypeOK, Jobs
  <2> QED BY <1>6, <1>13, <2>2 DEF ReadFull, makeVars
<1>9. ASSUME NEW t \in Targets,
             LoadStale(t) \/ RefuseStatements(t) \/ RefuseProofs(t) \/ WriteFails(t)
      PROVE  ExistOK'
  <2>1. UNCHANGED files /\ JobFails(t)
    BY <1>9 DEF LoadStale, RefuseStatements, RefuseProofs, WriteFails
  <2>2. jobs'[t] = NoJob /\ \A u \in Targets \ {t} : jobs'[u] = jobs[u]
    BY <1>0, <2>1 DEF JobFails, TypeOK
  <2> QED BY <1>6, <2>1, <2>2 DEF JobFails, NoJob
<1>10. ASSUME NEW t \in Targets, WriteInterface(t) PROVE ExistOK'
  <2>1. jobs[t] \in Jobs /\ t[2] \in Modules /\ t[1] = "iface" /\ t = Iface(t[2])
    BY <1>0, <1>10, BusyFacts, TargetFacts DEF WriteInterface, Loaded, At
  <2>2. Elaborated(t) # Missing
    BY <1>10, <2>1, ElaborationAssumption, BuildAssumption
       DEF WriteInterface, Elaborated, Jobs
  <2>3. iface' = [iface EXCEPT ![t[2]] = Elaborated(t)]
    BY <1>0, <1>10, <2>1 DEF WriteInterface, WriteIfChanged, TypeOK
  <2>4. \A m \in Modules \ {t[2]} : t # Iface(m) /\ t # Full(m)
    BY <2>1 DEF Iface, Full
  <2>5. ASSUME NEW m \in Modules, iface'[m] = Missing
        PROVE  {Iface(m), Full(m)} \subseteq outdated' /\ Iface(m) \notin done'
    <3>1. m # t[2] /\ iface[m] = Missing
      BY <1>0, <2>1, <2>2, <2>3, <2>5 DEF TypeOK
    <3> QED BY <1>10, <2>4, <3>1
            DEF WriteInterface, WriteIfChanged, WriteOf, makeVars, ExistOK
  <2>6. ASSUME NEW u \in Busy', jobs'[u].pc = "sidecar"
        PROVE  u[1] = "iface" /\ iface'[u[2]] # Missing
    <3>1. CASE u = t
      BY <1>0, <2>1, <2>2, <2>3, <3>1 DEF TypeOK
    <3>2. CASE u # t
      <4>1. u \in Busy /\ jobs'[u] = jobs[u]
        BY <1>0, <1>10, <2>6, <3>2 DEF WriteInterface, Busy, Running, TypeOK
      <4> QED BY <1>0, <2>2, <2>3, <2>6, <4>1, TargetFacts DEF ExistOK, TypeOK, Busy
    <3> QED BY <3>1, <3>2
  <2> QED BY <2>5, <2>6 DEF ExistOK
<1>11. ASSUME NEW t \in Targets, WriteSidecar(t) PROVE ExistOK'
  <2>1. t \in Busy /\ jobs[t].pc = "sidecar"
    BY <1>11 DEF WriteSidecar, At, Busy
  <2>2. t[1] = "iface" /\ iface[t[2]] # Missing /\ t = Iface(t[2])
    BY <2>1, TargetFacts DEF ExistOK
  <2>3. \A u \in Targets \ {t} : jobs'[u] = jobs[u]
    BY <1>0, <1>11 DEF WriteSidecar, JobDone, TypeOK
  <2>4. t \notin Busy'
    BY <1>0, <1>11 DEF WriteSidecar, JobDone, TypeOK, Busy, Running
  <2> QED BY <1>11, <2>2, <2>3, <2>4
          DEF WriteSidecar, JobDone, ExistOK, Busy, Running, Iface
<1>12. ASSUME NEW t \in Targets, WriteFull(t) PROVE ExistOK'
  <2>1. t \in Busy /\ t[2] \in Modules /\ t[1] = "full" /\ t = Full(t[2])
    BY <1>12, TargetFacts DEF WriteFull, Loaded, At, Busy
  <2>2. Iface(t[2]) \in done
    BY <1>0, <2>1 DEF SlotsOK, Prerequisites
  <2>3. iface[t[2]] # Missing
    BY <2>1, <2>2 DEF ExistOK
  <2>4. \A m \in Modules : t # Iface(m) /\ (m # t[2] => t # Full(m))
    BY <2>1 DEF Iface, Full
  <2>5. t \notin Busy' /\ \A u \in Targets \ {t} : jobs'[u] = jobs[u]
    BY <1>0, <1>12 DEF WriteFull, JobDone, TypeOK, Busy, Running
  <2> QED BY <1>12, <2>3, <2>4, <2>5 DEF WriteFull, WriteOf, JobDone, ExistOK, Busy, Running
<1> QED
  BY <1>1, <1>2, <1>3, <1>4, <1>5, <1>7, <1>8, <1>9, <1>10, <1>11, <1>12, <1>13
     DEF Next, User, Build, Job

\* For every library: a proof is checked again only when its source, the
\* kernel or an interface it loads changed.
THEOREM UpstreamProofsStayUpstream == Spec => ProofEditsStayLocal
<1> DEFINE Local ==
      \A m \in Modules : Full(m) \in outdated' \ outdated =>
        \/ kernel' # kernel
        \/ source'[m] # source[m]
        \/ \E d \in Closure[m] \cup {m} : iface'[d] # iface[d]
<1>1. Init => ExistOK
  BY DEF Init, ExistOK, Busy, Running, Targets, Iface, Full
<1>2. BInv /\ ExistOK /\ [Next]_vars => ExistOK'
  <2>1. BInv /\ ExistOK /\ Next => ExistOK'
    BY ExistKept
  <2>2. ExistOK /\ UNCHANGED vars => ExistOK'
    BY DEF vars, files, exempt, makeVars, ExistOK, Busy, Running
  <2> QED BY <2>1, <2>2
<1>3. BInv /\ ExistOK /\ Next => Local
  <2> SUFFICES ASSUME BInv, ExistOK, Next, NEW m \in Modules,
                      Full(m) \in outdated', Full(m) \notin outdated
               PROVE  \/ kernel' # kernel
                      \/ source'[m] # source[m]
                      \/ \E d \in Closure[m] \cup {m} : iface'[d] # iface[d]
    OBVIOUS
  <2>0. TypeOK /\ iface[m] # Missing /\ Full(m) \in Targets
    BY DEF BInv, ExistOK, Targets, Full
  <2>1. ASSUME NEW k \in Modules, NEW c \in Possible[k], Edit(k, c)
        PROVE  source'[m] # source[m]
    <3>1. k = m
      BY <2>1 DEF Edit, Iface, Full
    <3> QED BY <2>0, <2>1, <3>1 DEF Edit, TypeOK
  <2>2. ASSUME NEW k \in Kernels, Relink(k) PROVE kernel' # kernel
    BY <2>2 DEF Relink
  <2>3. CASE LibraryClean
    <3>1. iface'[m] # iface[m]
      BY <2>0, <2>3 DEF LibraryClean, Nothing
    <3> QED BY <3>1
  <2>4. ASSUME NEW t \in Targets, WriteOf(t), \A k \in Modules : t = Iface(k) => iface'[k] # iface[k]
        PROVE  \E d \in Closure[m] \cup {m} : iface'[d] # iface[d]
    <3>1. t \in Prerequisites(Full(m))
      BY <2>4 DEF WriteOf
    <3>2. PICK d \in Closure[m] \cup {m} : t = Iface(d)
      BY <3>1 DEF Prerequisites, Full
    <3> QED BY <2>4, <3>2, ClosureFacts
  <2>5. ASSUME NEW t \in Targets, WriteInterface(t)
        PROVE  \E d \in Closure[m] \cup {m} : iface'[d] # iface[d]
    <3>1. t[2] \in Modules /\ t = Iface(t[2])
      BY <2>5, TargetFacts DEF WriteInterface, Loaded
    <3>2. WriteOf(t) /\ iface'[t[2]] # iface[t[2]]
      BY <2>0, <2>5, <3>1 DEF WriteInterface, WriteIfChanged, TypeOK
    <3>3. \A k \in Modules : t = Iface(k) => k = t[2]
      BY DEF Iface
    <3> QED BY <2>4, <3>2, <3>3
  <2>6. ASSUME NEW t \in Targets, WriteFull(t)
        PROVE  \E d \in Closure[m] \cup {m} : iface'[d] # iface[d]
    <3>1. \A k \in Modules : t # Iface(k)
      BY <2>6 DEF WriteFull, Loaded, Iface
    <3> QED BY <2>4, <2>6, <3>1 DEF WriteFull
  <2>7. ASSUME UNCHANGED outdated PROVE FALSE
    BY <2>7
  <2> QED
    BY <2>1, <2>2, <2>3, <2>5, <2>6, <2>7
       DEF Next, User, Build, Job, StartMake, Crash, Skip, StartJob, MakeSucceeds,
           MakeFails, LoadInterface, LoadStale, ReadFull, RefuseStatements, RefuseProofs,
           WriteFails, WriteSidecar, files, exempt
<1>4. BInv /\ ExistOK /\ [Next]_vars => [Local]_vars
  BY <1>3
<1> QED BY <1>1, <1>2, <1>4, Invariance, PTL DEF Spec, ProofEditsStayLocal
-----------------------------------------------------------------------------
(* The build implements the promise. *)

\* A make through with every target leaves the interfaces of a build from
\* nothing.
LEMMA SuccessVerifies ==
  ASSUME BInv, ExistOK, done = Targets, claim = "pending"
  PROVE  Promise!Verifies
<1>1. iface \in [Modules -> Bytes]
  BY DEF BInv, TypeOK, ExistOK, Targets, Iface
<1>2. ASSUME NEW m \in Modules
      PROVE  Promise!Seen(iface, m) = ViewOf(m)
  BY DEF Promise!Seen, ViewOf
<1>3. ASSUME NEW m \in Modules, Iface(m) \notin raced \cup superseded
      PROVE  iface[m] = FreshInterface(kernel, m, source[m], ViewOf(m))
  <2>1. Current(Iface(m))
    BY <1>3 DEF BInv, Targets, Iface
  <2> QED BY <2>1 DEF Current, Iface
<1>4. ASSUME NEW m \in Modules, Full(m) \notin raced \cup superseded
      PROVE  FreshlyProves(kernel, m, source[m], ViewOf(m))
  <2>1. Current(Full(m))
    BY <1>4 DEF BInv, Targets, Full
  <2> QED BY <2>1 DEF Current, Full
<1>5. \A m \in Modules :
        /\ <<"iface", m>> \in raced \cup superseded \/
             iface[m] = FreshInterface(kernel, m, source[m], Promise!Seen(iface, m))
        /\ <<"full", m>> \in raced \cup superseded \/
             FreshlyProves(kernel, m, source[m], Promise!Seen(iface, m))
  BY <1>2, <1>3, <1>4 DEF Iface, Full
<1> QED BY <1>1, <1>5 DEF Promise!Verifies

\* What the author sees of a state.
seen == <<kernel, source, make # "idle", claim = "green", raced \cup superseded>>

LEMMA UserPromises ==
  ASSUME BInv, User PROVE Promise!Next
<1>1. ASSUME NEW m \in Modules, NEW c \in Possible[m], Edit(m, c)
      PROVE  Promise!Edit
  <2> DEFINE both == {"iface", "full"} \X {m}
             lost == {t \in Busy : t[2] = m}
  <2>1. lost \in SUBSET both
    BY TargetFacts DEF Busy, Targets
  <2>2. both = {Iface(m), Full(m)}
    BY DEF Iface, Full
  <2>3. lost # {} => make # "idle"
    BY DEF BInv, SlotsOK
  <2>4. /\ source' = [source EXCEPT ![m] = c]
        /\ (raced \cup superseded)' = ((raced \cup superseded) \ both) \cup lost
        /\ (claim' = "green") = FALSE /\ kernel' = kernel /\ make' = make
    BY <1>1, <2>2 DEF Edit
  <2> HIDE DEF both, lost
  <2>5. \E l \in SUBSET both :
          /\ source' = [source EXCEPT ![m] = c]
          /\ (raced \cup superseded)' = ((raced \cup superseded) \ both) \cup l
          /\ l # {} => make # "idle"
          /\ (claim' = "green") = FALSE
          /\ kernel' = kernel /\ (make' # "idle") = (make # "idle")
    BY <2>1, <2>3, <2>4
  <2> QED BY <2>5 DEF Promise!Edit, both
<1>2. ASSUME NEW k \in Kernels, Relink(k)
      PROVE  Promise!Relink
  BY <1>2 DEF Relink, exempt, Promise!Relink
<1>3. CASE LibraryClean
  BY <1>3 DEF LibraryClean, exempt, Promise!Clean, Promise!Next
<1>4. CASE StartMake
  BY <1>4 DEF StartMake, files, exempt, Promise!Start, Promise!Next
<1>5. CASE Crash
  BY <1>5 DEF Crash, files, exempt, Promise!GiveUp, Promise!Next
<1> QED BY <1>1, <1>2, <1>3, <1>4, <1>5 DEF User, Promise!Next

LEMMA BuildPromises ==
  ASSUME BInv, ExistOK, Build PROVE Promise!Next \/ UNCHANGED seen
<1>1. ASSUME NEW t \in Targets, Running(t)
      PROVE  make # "idle"
  BY <1>1 DEF BInv, SlotsOK, Busy
<1>2. ASSUME NEW t \in Targets, StartJob(t)
      PROVE  Promise!Recheck \/ UNCHANGED seen
  <2>1. /\ make # "idle" /\ raced' = raced \ {t}
        /\ UNCHANGED <<kernel, source, make, claim, superseded>>
    BY <1>2 DEF StartJob, Considered, files, exempt, makeVars
  <2>2. CASE t \in raced \ superseded
    <3>1. (raced \cup superseded)' = (raced \cup superseded) \ {t}
      BY <2>1, <2>2
    <3> QED BY <2>1, <2>2, <3>1 DEF Promise!Recheck
  <2>3. CASE t \notin raced \ superseded
    <3>1. (raced \cup superseded)' = raced \cup superseded
      BY <2>1, <2>3 DEF BInv, TypeOK
    <3> QED BY <2>1, <3>1 DEF seen
  <2> QED BY <2>2, <2>3
<1>3. ASSUME NEW t \in Targets, Skip(t) \/ LoadInterface(t) \/ ReadFull(t) \/ WriteSidecar(t)
      PROVE  UNCHANGED seen
  BY <1>3 DEF Skip, LoadInterface, ReadFull, WriteSidecar, JobDone, files, exempt,
              makeVars, seen
<1>8. ASSUME NEW t \in Targets, WriteInterface(t) \/ WriteFull(t)
      PROVE  Promise!Overlook \/ Promise!Recheck \/ UNCHANGED seen
  <2>1. /\ SealedBy(t) /\ Running(t)
        /\ UNCHANGED <<kernel, source, make, claim, raced>>
    BY <1>8 DEF WriteInterface, WriteFull, JobDone, makeVars, Loaded, At
  <2>2. make # "idle" /\ t \in Busy /\ JobOK(t) /\ jobs[t] \in Jobs
    BY <1>1, <2>1, BusyFacts DEF BInv
  <2>3. CASE AgreesWith(jobs[t].seal, jobs[t].view)
    <3>1. (raced \cup superseded)' =
            IF t \in superseded \ raced THEN (raced \cup superseded) \ {t}
            ELSE raced \cup superseded
      BY <2>1, <2>3 DEF SealedBy
    <3>2. CASE t \in superseded \ raced
      BY <2>1, <2>2, <3>1, <3>2 DEF Promise!Recheck
    <3>3. CASE t \notin superseded \ raced
      BY <2>1, <3>1, <3>3 DEF seen
    <3> QED BY <3>2, <3>3
  <2>4. CASE ~AgreesWith(jobs[t].seal, jobs[t].view)
    <3>1. t[2] \in Sealed
      BY <2>2, <2>4, UnreadFacts DEF JobOK, Jobs
    <3>2. (raced \cup superseded)' = (raced \cup superseded) \cup {t}
      BY <2>1, <2>4 DEF SealedBy
    <3>3. t \in {"iface", "full"} \X Sealed
      BY <3>1, TargetFacts
    <3> QED BY <2>1, <2>2, <3>2, <3>3 DEF Promise!Overlook
  <2> QED BY <2>3, <2>4
<1>4. ASSUME NEW t \in Targets, JobFails(t), Running(t), UNCHANGED <<kernel, source, superseded>>
      PROVE  UNCHANGED seen
  BY <1>1, <1>4 DEF JobFails, seen
<1>5. ASSUME NEW t \in Targets, LoadStale(t) \/ RefuseStatements(t) \/ RefuseProofs(t) \/ WriteFails(t)
      PROVE  UNCHANGED seen
  <2>1. JobFails(t) /\ Running(t) /\ UNCHANGED <<kernel, source, superseded>>
    BY <1>5 DEF LoadStale, RefuseStatements, RefuseProofs, WriteFails, Loaded, At, files, exempt
  <2> QED BY <1>4, <2>1
<1>6. CASE MakeSucceeds
  <2>1. CASE claim = "pending"
    BY <1>6, <2>1, SuccessVerifies DEF MakeSucceeds, files, exempt, Promise!Succeed, Promise!Next
  <2>2. CASE claim # "pending"
    BY <1>6, <2>2 DEF MakeSucceeds, files, exempt, Promise!GiveUp, Promise!Next
  <2> QED BY <2>1, <2>2
<1>7. CASE MakeFails
  BY <1>7 DEF MakeFails, files, exempt, Promise!GiveUp, Promise!Next
<1> QED BY <1>2, <1>3, <1>5, <1>6, <1>7, <1>8 DEF Build, Job, Promise!Next

\* For every library, every elaborator and any history of edits, crashes and
\* failed writes: a make that succeeds is a verification of the present library
\* from nothing.
THEOREM BuildKeepsPromise == Spec => BuildsFromNothing
<1>1. Init => Promise!Init
  BY DEF Init, Promise!Init
<1>2. Init => ExistOK
  BY DEF Init, ExistOK, Busy, Running, Targets, Iface, Full
<1>3. BInv /\ ExistOK /\ [Next]_vars => ExistOK'
  <2>1. BInv /\ ExistOK /\ Next => ExistOK'
    BY ExistKept
  <2>2. ExistOK /\ UNCHANGED vars => ExistOK'
    BY DEF vars, files, exempt, makeVars, ExistOK, Busy, Running
  <2> QED BY <2>1, <2>2
<1>4. BInv /\ ExistOK /\ [Next]_vars => [Promise!Next]_(Promise!vars)
  <2>1. UNCHANGED seen => UNCHANGED Promise!vars
    BY DEF seen, Promise!vars
  <2>2. UNCHANGED vars => UNCHANGED seen
    BY DEF vars, files, exempt, makeVars, seen
  <2> QED BY <2>1, <2>2, UserPromises, BuildPromises DEF Next
<1> QED BY <1>1, <1>2, <1>3, <1>4, Invariance, PTL DEF Spec, Promise!Spec, BuildsFromNothing

-----------------------------------------------------------------------------
(* Every make ends: each of its steps uses up one of the steps it has left,  *)
(* and while it has not ended there is a step it can take.                   *)

Phases == {"take", "load", "seal", "write", "finish"}
Steps  == Targets \X Phases \X Modules

\* What is still to be done for a target: everything, if make may yet consider
\* it; what its recipe has not done, if that runs.
Pending(t, phase, d) ==
  \/ make = "running" /\ t \notin done /\ ~Running(t)
  \/ /\ At(t, "load") /\ phase # "take"
     /\ phase = "load" => jobs[t].view[d] = NotLoaded
     /\ phase = "seal" => jobs[t].seal[d] = NotLoaded
  \/ At(t, "sidecar") /\ phase = "finish"

StepsLeft == {s \in Steps : Pending(s[1], s[2], s[3])}
Fewer     == <<StepsLeft', StepsLeft>> \in StrictSubsetOrdering(Steps)

\* The guards of make's steps, and of a recipe's.
MakeMoves(t) ==
  /\ Considered(t)
  /\ t \notin outdated \/ Cardinality(Busy) < MaxJobs

JobMoves(t) ==
  \/ At(t, "load") /\ \E d \in ToLoad(t) : ~Stale(d)
  \/ At(t, "load") /\ \E d \in ToLoad(t) : Stale(d)
  \/ At(t, "load") /\ ToLoad(t) = {} /\ ToRead(t) # {}
  \/ Loaded("iface", t) /\ Elaborated(t) = Error
  \/ Loaded("iface", t) /\ Elaborated(t) # Error
  \/ At(t, "sidecar")
  \/ Loaded("full", t) /\ ~Checked(t)
  \/ Loaded("full", t) /\ Checked(t)

BuildMoves ==
  \/ \E t \in Targets : MakeMoves(t) \/ JobMoves(t)
  \/ make = "running" /\ done = Targets
  \/ make = "failing" /\ Busy = {}

\* A step that leaves nothing new to do, and takes something off.
LEMMA FewerIf ==
  ASSUME NEW t \in Targets, NEW phase \in Phases, NEW d \in Modules,
         Pending(t, phase, d), ~Pending(t, phase, d)',
         \A s \in Steps : Pending(s[1], s[2], s[3])' => Pending(s[1], s[2], s[3])
  PROVE  Fewer
<1> DEFINE s == <<t, phase, d>>
<1>1. s \in Steps /\ s \in StepsLeft /\ s \notin StepsLeft'
  BY DEF Steps, StepsLeft
<1>2. StepsLeft' \subseteq StepsLeft /\ StepsLeft \in SUBSET Steps /\ StepsLeft' \in SUBSET Steps
  BY DEF StepsLeft
<1> QED BY <1>1, <1>2 DEF Fewer, StrictSubsetOrdering

\* What is left of the other targets does not grow when the slot of one changes.
LEMMA OthersKeep ==
  ASSUME NEW w \in Targets, NEW t \in Targets \ {w}, NEW phase, NEW d,
         jobs'[t] = jobs[t], done \subseteq done', make' = "running" => make = "running",
         Pending(t, phase, d)'
  PROVE  Pending(t, phase, d)
BY DEF Pending, At, Running

\* A recipe that ends, well or badly, takes the last of its steps off.
LEMMA RecipeEnds ==
  ASSUME TypeOK, SlotsOK, NEW t \in Targets, Running(t),
         JobDone(t) \/ JobFails(t)
  PROVE  Fewer
<1>1. jobs[t] \in Jobs /\ t[2] \in Modules /\ "finish" \in Phases
  BY BusyFacts, TargetFacts DEF Phases
<1>2. Pending(t, "finish", t[2])
  BY <1>1 DEF Pending, At, Jobs, JobPCs
<1>3. jobs' = [jobs EXCEPT ![t] = NoJob] /\ done \subseteq done'
      /\ (make' = "running" => make = "running" /\ t \in done')
  BY DEF JobDone, JobFails, TypeOK
<1>4. ~Running(t)' /\ \A u \in Targets \ {t} : jobs'[u] = jobs[u]
  BY <1>3 DEF Running, TypeOK
<1>5. \A phase \in Phases, d \in Modules : ~Pending(t, phase, d)'
  BY <1>3, <1>4 DEF Pending, At
<1>6. ASSUME NEW s \in Steps, Pending(s[1], s[2], s[3])' PROVE Pending(s[1], s[2], s[3])
  <2>1. s[1] \in Targets /\ s[2] \in Phases /\ s[3] \in Modules
    BY DEF Steps
  <2>2. s[1] # t
    BY <1>5, <1>6, <2>1
  <2> QED BY <1>3, <1>4, <1>6, <2>1, <2>2, OthersKeep
<1> QED BY <1>1, <1>2, <1>5, <1>6, FewerIf

\* A step of the build ends the make or leaves it less to do.
LEMMA BuildSpends ==
  ASSUME BInv, Build
  PROVE  make' = "idle" \/ Fewer
<1>0. TypeOK /\ SlotsOK
  BY DEF BInv
<1>1. ASSUME NEW t \in Targets, Skip(t) PROVE Fewer
  <2>1. t[2] \in Modules /\ "take" \in Phases
    BY TargetFacts DEF Phases
  <2>2. make' = make /\ jobs' = jobs /\ done' = done \cup {t} /\ ~Running(t) /\ t \notin done
        /\ make = "running"
    BY <1>1 DEF Skip, Considered
  <2>3. \A phase \in Phases, d \in Modules : ~Pending(t, phase, d)'
    BY <2>2 DEF Pending, At, Running
  <2>4. Pending(t, "take", t[2])
    BY <2>2 DEF Pending
  <2>5. \A s \in Steps : Pending(s[1], s[2], s[3])' => Pending(s[1], s[2], s[3])
    BY <2>2 DEF Pending, At, Running
  <2> QED BY <2>1, <2>3, <2>4, <2>5, FewerIf
<1>2. ASSUME NEW t \in Targets, StartJob(t) PROVE Fewer
  <2>1. t[2] \in Modules /\ "take" \in Phases
    BY TargetFacts DEF Phases
  <2>2. make' = make /\ done' = done /\ ~Running(t) /\ t \notin done /\ make = "running"
    BY <1>2 DEF StartJob, Considered, makeVars
  <2>3. jobs'[t].pc = "load" /\ jobs'[t] \in Jobs /\ \A u \in Targets \ {t} : jobs'[u] = jobs[u]
    <3>1. [pc |-> "load", kernel |-> kernel, source |-> source[t[2]],
           view |-> Unread, seal |-> Unread] \in Jobs
      BY <1>0, <2>1, UnreadFacts DEF TypeOK, Jobs, JobPCs
    <3> QED BY <1>0, <1>2, <3>1 DEF StartJob, TypeOK
  <2>4. Running(t)'
    BY <2>3 DEF Running, NoJob, Jobs
  <2>5. \A phase \in Phases, d \in Modules : Pending(t, phase, d)
    BY <2>2 DEF Pending
  <2>6. ~Pending(t, "take", t[2])'
    BY <2>3, <2>4 DEF Pending, At
  <2>7. ASSUME NEW s \in Steps, Pending(s[1], s[2], s[3])' PROVE Pending(s[1], s[2], s[3])
    <3>1. s[1] \in Targets /\ s[2] \in Phases /\ s[3] \in Modules
      BY DEF Steps
    <3>2. CASE s[1] = t
      BY <2>5, <3>1, <3>2
    <3>3. CASE s[1] # t
      BY <2>2, <2>3, <2>7, <3>1, <3>3, OthersKeep
    <3> QED BY <3>2, <3>3
  <2> QED BY <2>1, <2>5, <2>6, <2>7, FewerIf
<1>3. CASE MakeSucceeds \/ MakeFails
  BY <1>3 DEF MakeSucceeds, MakeFails
<1>4. ASSUME NEW t \in Targets, LoadInterface(t) PROVE Fewer
  <2>1. PICK d \in ToLoad(t) : jobs' = [jobs EXCEPT ![t].view[d] = iface[d]]
    BY <1>4 DEF LoadInterface
  <2>2. /\ jobs[t] \in Jobs /\ Running(t) /\ jobs[t].pc = "load"
        /\ d \in Modules /\ jobs[t].view[d] = NotLoaded
        /\ make' = make /\ done' = done /\ t \notin done /\ "load" \in Phases
    BY <1>0, <1>4, BusyFacts, TargetFacts, RecordsFacts, BuildAssumption
       DEF LoadInterface, At, ToLoad, InView, makeVars, SlotsOK, Phases
  <2>3. iface[d] # NotLoaded
    BY <1>0, <2>2, BuildAssumption DEF TypeOK
  <2>4. /\ jobs'[t] \in Jobs /\ jobs'[t].pc = "load" /\ jobs'[t].view[d] = iface[d]
        /\ \A e \in Modules \ {d} : jobs'[t].view[e] = jobs[t].view[e]
        /\ jobs'[t].seal = jobs[t].seal
        /\ \A u \in Targets \ {t} : jobs'[u] = jobs[u]
    <3>1. jobs'[t] = [jobs[t] EXCEPT !.view[d] = iface[d]]
          /\ \A u \in Targets \ {t} : jobs'[u] = jobs[u]
      BY <1>0, <2>1 DEF TypeOK
    <3>2. [jobs[t].view EXCEPT ![d] = iface[d]] \in Views
      BY <1>0, <2>2 DEF Jobs, Views, TypeOK
    <3> QED BY <2>2, <3>1, <3>2 DEF Jobs, Views
  <2>5. Running(t)' /\ At(t, "load")
    BY <2>2, <2>4 DEF Running, NoJob, Jobs, At
  <2>6. Pending(t, "load", d) /\ ~Pending(t, "load", d)'
    BY <2>2, <2>3, <2>4, <2>5 DEF Pending, At
  <2>7. ASSUME NEW s \in Steps, Pending(s[1], s[2], s[3])' PROVE Pending(s[1], s[2], s[3])
    <3>1. s[1] \in Targets /\ s[2] \in Phases /\ s[3] \in Modules
      BY DEF Steps
    <3>2. CASE s[1] = t
      <4>1. /\ s[2] # "take" /\ (s[2] = "load" => jobs'[t].view[s[3]] = NotLoaded)
            /\ s[2] = "seal" => jobs[t].seal[s[3]] = NotLoaded
        BY <2>2, <2>4, <2>5, <2>7, <3>2 DEF Pending, At
      <4>2. s[2] = "load" => jobs[t].view[s[3]] = NotLoaded
        BY <2>2, <2>4, <3>1, <4>1
      <4> QED BY <2>5, <3>2, <4>1, <4>2 DEF Pending
    <3>3. CASE s[1] # t
      BY <2>2, <2>4, <2>7, <3>1, <3>3, OthersKeep
    <3> QED BY <3>2, <3>3
  <2> QED BY <2>2, <2>6, <2>7, FewerIf
<1>8. ASSUME NEW t \in Targets, ReadFull(t) PROVE Fewer
  <2>1. PICK d \in ToRead(t) : jobs' = [jobs EXCEPT ![t].seal[d] =
                                 IF full[d] = Missing THEN Missing ELSE full[d].statements]
    BY <1>8 DEF ReadFull
  <2> DEFINE states == IF full[d] = Missing THEN Missing ELSE full[d].statements
  <2>2. /\ jobs[t] \in Jobs /\ Running(t) /\ jobs[t].pc = "load"
        /\ d \in Modules /\ jobs[t].seal[d] = NotLoaded
        /\ make' = make /\ done' = done /\ t \notin done /\ "seal" \in Phases
    BY <1>0, <1>8, BusyFacts DEF ReadFull, At, ToRead, makeVars, SlotsOK, Phases
  <2>3. states \in Bytes \cup {Missing} /\ states # NotLoaded
    BY <1>0, <2>2, BuildAssumption DEF TypeOK, Verified
  <2> HIDE DEF states
  <2>4. /\ jobs'[t] \in Jobs /\ jobs'[t].pc = "load" /\ jobs'[t].seal[d] = states
        /\ \A e \in Modules \ {d} : jobs'[t].seal[e] = jobs[t].seal[e]
        /\ jobs'[t].view = jobs[t].view
        /\ \A u \in Targets \ {t} : jobs'[u] = jobs[u]
    <3>1. jobs'[t] = [jobs[t] EXCEPT !.seal[d] = states]
          /\ \A u \in Targets \ {t} : jobs'[u] = jobs[u]
      BY <1>0, <2>1 DEF TypeOK, states
    <3>2. [jobs[t].seal EXCEPT ![d] = states] \in Views
      BY <2>2, <2>3 DEF Jobs, Views
    <3> QED BY <2>2, <3>1, <3>2 DEF Jobs, Views
  <2>5. Running(t)' /\ At(t, "load")
    BY <2>2, <2>4 DEF Running, NoJob, Jobs, At
  <2>6. Pending(t, "seal", d) /\ ~Pending(t, "seal", d)'
    BY <2>2, <2>3, <2>4, <2>5 DEF Pending, At
  <2>7. ASSUME NEW s \in Steps, Pending(s[1], s[2], s[3])' PROVE Pending(s[1], s[2], s[3])
    <3>1. s[1] \in Targets /\ s[2] \in Phases /\ s[3] \in Modules
      BY DEF Steps
    <3>2. CASE s[1] = t
      <4>1. /\ s[2] # "take" /\ (s[2] = "seal" => jobs'[t].seal[s[3]] = NotLoaded)
            /\ s[2] = "load" => jobs[t].view[s[3]] = NotLoaded
        BY <2>2, <2>4, <2>5, <2>7, <3>2 DEF Pending, At
      <4>2. s[2] = "seal" => jobs[t].seal[s[3]] = NotLoaded
        BY <2>2, <2>4, <3>1, <4>1
      <4> QED BY <2>5, <3>2, <4>1, <4>2 DEF Pending
    <3>3. CASE s[1] # t
      BY <2>2, <2>4, <2>7, <3>1, <3>3, OthersKeep
    <3> QED BY <3>2, <3>3
  <2> QED BY <2>2, <2>6, <2>7, FewerIf
<1>5. ASSUME NEW t \in Targets, WriteInterface(t) PROVE Fewer
  <2>1. /\ jobs[t] \in Jobs /\ Running(t) /\ jobs[t].pc = "load" /\ At(t, "load")
        /\ make' = make /\ done' = done /\ t \notin done /\ t[2] \in Modules
        /\ "write" \in Phases
    BY <1>0, <1>5, BusyFacts, TargetFacts
       DEF WriteInterface, Loaded, At, makeVars, SlotsOK, Phases
  <2>2. /\ jobs'[t] \in Jobs /\ jobs'[t].pc = "sidecar"
        /\ \A u \in Targets \ {t} : jobs'[u] = jobs[u]
    BY <1>0, <1>5, <2>1 DEF WriteInterface, TypeOK, Jobs, JobPCs
  <2>3. Running(t)'
    BY <2>2 DEF Running, NoJob, Jobs
  <2>4. Pending(t, "write", t[2]) /\ ~Pending(t, "write", t[2])'
    BY <2>1, <2>2, <2>3 DEF Pending, At
  <2>5. ASSUME NEW s \in Steps, Pending(s[1], s[2], s[3])' PROVE Pending(s[1], s[2], s[3])
    <3>1. s[1] \in Targets /\ s[2] \in Phases /\ s[3] \in Modules
      BY DEF Steps
    <3>2. CASE s[1] = t
      BY <2>1, <2>2, <2>3, <2>5, <3>2 DEF Pending, At
    <3>3. CASE s[1] # t
      BY <2>1, <2>2, <2>5, <3>1, <3>3, OthersKeep
    <3> QED BY <3>2, <3>3
  <2> QED BY <2>1, <2>4, <2>5, FewerIf
<1>6. ASSUME NEW t \in Targets, WriteSidecar(t) \/ WriteFull(t) PROVE Fewer
  BY <1>0, <1>6, RecipeEnds DEF WriteSidecar, WriteFull, Loaded, At
<1>7. ASSUME NEW t \in Targets,
             LoadStale(t) \/ RefuseStatements(t) \/ RefuseProofs(t) \/ WriteFails(t)
      PROVE  Fewer
  BY <1>0, <1>7, RecipeEnds DEF LoadStale, RefuseStatements, RefuseProofs, WriteFails, Loaded, At
<1> QED BY <1>1, <1>2, <1>3, <1>4, <1>5, <1>6, <1>7, <1>8 DEF Build, Job

\* Whatever the user does, short of another make, gives the build no more to do.
LEMMA UserAddsNoSteps ==
  ASSUME User, ~StartMake
  PROVE  StepsLeft' \subseteq StepsLeft
<1>1. CASE \/ \E m \in Modules : \E c \in Possible[m] : Edit(m, c)
           \/ \E k \in Kernels : Relink(k)
           \/ LibraryClean
  BY <1>1 DEF Edit, Relink, LibraryClean, StepsLeft, Pending, At, Running
<1>2. CASE Crash
  BY <1>2 DEF Crash, StepsLeft, Steps, Pending, At, Running
<1> QED BY <1>1, <1>2 DEF User

\* A make that runs can take a step.
LEMMA SomethingMoves ==
  ASSUME BInv, make # "idle"
  PROVE  BuildMoves
<1>0. TypeOK /\ SlotsOK
  BY DEF BInv
<1>1. ASSUME NEW t \in Busy PROVE JobMoves(t)
  <2>1. t \in Targets /\ Running(t) /\ jobs[t] \in Jobs
    BY <1>0, BusyFacts DEF Busy
  <2>2. CASE jobs[t].pc = "sidecar"
    BY <2>1, <2>2 DEF JobMoves, At
  <2>3. CASE jobs[t].pc = "load"
    BY <2>1, <2>3, TargetFacts DEF JobMoves, At, Loaded
  <2> QED BY <2>1, <2>2, <2>3 DEF Jobs, JobPCs
<1>2. CASE Busy # {}
  <2>1. PICK t : t \in Busy
    BY <1>2
  <2> QED BY <1>1, <2>1 DEF BuildMoves, Busy
<1>3. CASE Busy = {} /\ make = "running" /\ done # Targets
  <2> DEFINE Unfinished == {m \in Modules : ~({Iface(m), Full(m)} \subseteq done)}
             B == {Closure[m] : m \in Unfinished}
  <2>1. PICK u \in Targets : u \notin done
    BY <1>0, <1>3 DEF TypeOK
  <2>2. u[2] \in Unfinished
    BY <2>1, TargetFacts
  <2>3. B \subseteq FiniteSubsetsOf(Modules) /\ B # {}
    <3>1. ASSUME NEW m \in Modules PROVE Closure[m] \in FiniteSubsetsOf(Modules)
      BY ClosureFacts, BuildAssumption, FS_Subset DEF FiniteSubsetsOf
    <3> QED BY <2>2, <3>1
  <2>4. \E x \in B : \A y \in B : ~(<<y, x>> \in StrictSubsetOrdering(Modules))
    <3>1. IsWellFoundedOn(StrictSubsetOrdering(Modules), FiniteSubsetsOf(Modules))
      BY FS_StrictSubsetOrderingWellFounded
    <3> HIDE DEF B
    <3> QED BY <2>3, <3>1, WFMin
  <2>5. PICK m \in Unfinished : \A n \in Unfinished :
          ~(<<Closure[n], Closure[m]>> \in StrictSubsetOrdering(Modules))
    BY <2>4
  <2>6. ASSUME NEW d \in Closure[m] PROVE Iface(d) \in done
    <3>1. d \in Modules /\ Closure[d] \subseteq Modules /\ Closure[m] \subseteq Modules
      BY ClosureFacts
    <3>2. Closure[d] \subseteq Closure[m] /\ d \notin Closure[d]
      BY <3>1, ClosureFacts
    <3>3. <<Closure[d], Closure[m]>> \in StrictSubsetOrdering(Modules)
      BY <3>1, <3>2 DEF StrictSubsetOrdering
    <3> QED BY <2>5, <3>1, <3>3
  <2>7. PICK t \in {Iface(m), Full(m)} : t \notin done /\ Prerequisites(t) \subseteq done
    <3>1. Prerequisites(Iface(m)) \subseteq done
      BY <2>6 DEF Prerequisites, Iface
    <3>2. Iface(m) \in done => Prerequisites(Full(m)) \subseteq done
      BY <2>6 DEF Prerequisites, Full
    <3> QED BY <3>1, <3>2
  <2>8. t \in Targets /\ ~Running(t)
    BY <1>3, <2>7 DEF Targets, Iface, Full, Busy
  <2>9. Cardinality(Busy) < MaxJobs
    BY <1>3, FS_EmptySet, BuildAssumption
  <2> QED BY <1>3, <2>7, <2>8, <2>9 DEF BuildMoves, MakeMoves, Considered
<1>4. CASE Busy = {} /\ (make = "failing" \/ done = Targets)
  BY <1>0, <1>4 DEF BuildMoves, TypeOK
<1> QED BY <1>0, <1>2, <1>3, <1>4 DEF TypeOK

\* For every library, any number of jobs and any history: a step of the build
\* ends the make or leaves it strictly fewer steps, of finitely many, and no
\* edit, relink or crash gives it one more.  A make that goes on for ever would
\* descend for ever.
THEOREM BuildSpendsSteps ==
  Spec => /\ []IsFiniteSet(StepsLeft)
          /\ [][/\ Build => make' = "idle" \/ Fewer
                /\ ~StartMake => StepsLeft' \subseteq StepsLeft]_vars
<1>1. IsFiniteSet(StepsLeft)
  <2>1. IsFiniteSet({"iface"}) /\ IsFiniteSet({"full"})
        /\ IsFiniteSet({"take"}) /\ IsFiniteSet({"load"})
        /\ IsFiniteSet({"write"}) /\ IsFiniteSet({"finish"}) /\ IsFiniteSet({"seal"})
    BY FS_Singleton
  <2>2. IsFiniteSet({"iface"} \cup {"full"})
        /\ IsFiniteSet((({"take"} \cup {"load"}) \cup {"seal"}) \cup ({"write"} \cup {"finish"}))
    BY <2>1, FS_Union
  <2>3. IsFiniteSet(Targets)
    <3>1. Targets = ({"iface"} \cup {"full"}) \X Modules
      BY DEF Targets
    <3> QED BY <2>2, <3>1, BuildAssumption, FS_Product
  <2>4. IsFiniteSet(Phases)
    <3>1. Phases = (({"take"} \cup {"load"}) \cup {"seal"}) \cup ({"write"} \cup {"finish"})
      BY DEF Phases
    <3> QED BY <2>2, <3>1
  <2> DEFINE pairs  == (Targets \X Phases) \X Modules
             triple == [p \in pairs |-> <<p[1][1], p[1][2], p[2]>>]
  <2>5. IsFiniteSet(pairs)
    BY <2>3, <2>4, BuildAssumption, FS_Product
  <2>6. triple \in Surjection(pairs, Steps)
    <3>1. \A t \in Targets, phase \in Phases, d \in Modules :
            /\ <<<<t, phase>>, d>> \in pairs
            /\ triple[<<<<t, phase>>, d>>] = <<t, phase, d>>
      OBVIOUS
    <3>2. triple \in [pairs -> Steps]
      BY DEF Steps
    <3>3. ASSUME NEW s \in Steps PROVE \E p \in pairs : triple[p] = s
      <4>1. PICK t \in Targets, phase \in Phases, d \in Modules : s = <<t, phase, d>>
        BY DEF Steps
      <4> HIDE DEF pairs, triple
      <4> QED BY <3>1, <4>1
    <3> HIDE DEF pairs, triple
    <3> QED BY <3>2, <3>3 DEF Surjection
  <2>7. IsFiniteSet(Steps)
    <3> HIDE DEF pairs, triple
    <3> QED BY <2>5, <2>6, FS_Surjection DEF ExistsSurjection
  <2>8. StepsLeft \subseteq Steps
    BY DEF StepsLeft
  <2> QED BY <2>7, <2>8, FS_Subset
<1>2. ASSUME BInv, [Next]_vars
      PROVE  [/\ Build => make' = "idle" \/ Fewer
              /\ ~StartMake => StepsLeft' \subseteq StepsLeft]_vars
  <2>1. CASE Build
    <3>1. ~StartMake => StepsLeft' \subseteq StepsLeft
      <4>1. CASE Fewer
        BY <4>1 DEF Fewer, StrictSubsetOrdering
      <4>2. CASE make' = "idle"
        <5>1. StepsLeft' = {}
          <6>1. BInv'
            BY <1>2, <2>1, NextKeeps DEF Next
          <6> QED BY <4>2, <6>1 DEF BInv, SlotsOK, StepsLeft, Steps, Pending, At, Busy
        <5> QED BY <5>1
      <4> QED BY <1>2, <2>1, <4>1, <4>2, BuildSpends
    <3> QED BY <1>2, <2>1, <3>1, BuildSpends
  <2>2. CASE User /\ ~Build
    BY <2>2, UserAddsNoSteps
  <2>3. CASE UNCHANGED vars
    BY <2>3
  <2> QED BY <1>2, <2>1, <2>2, <2>3 DEF Next
<1> QED BY <1>1, <1>2, Invariance, PTL DEF Spec

\* For every acyclic library and any number of jobs: while a make has not ended,
\* one of its own steps or of a recipe's can be taken.  No target waits for one
\* that waits for it, and the jobs never hold every slot without one moving.
THEOREM BuildNeverStalls == Spec => [](make # "idle" => BuildMoves)
<1>1. BInv => (make # "idle" => BuildMoves)
  BY SomethingMoves
<1> QED BY <1>1, Invariance, PTL
=============================================================================
