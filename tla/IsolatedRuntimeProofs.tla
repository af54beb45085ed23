------------------------- MODULE IsolatedRuntimeProofs -------------------------
(***************************************************************************)
(* Proofs about IsolatedRuntime, for every set of runners and every number *)
(* of probes.  The invariant follows one thing through the script: what    *)
(* docker holds, stray probes apart, is covered by the cleanup flags for as *)
(* long as the result can still be anything but a tool failure.  A bound on the steps ahead   *)
(* shows that the script stops.  Then what the operators of RuntimeResults *)
(* make of reports of any length: first what its loops compute, then the   *)
(* comparison of two runs, then the way from a report to an exit code.     *)
(***************************************************************************)
EXTENDS RuntimeResults, FiniteSetTheorems, SequenceTheorems, TLAPS

\* Elements of a queue of removals or launches.
Pending(q) == {q[i] : i \in DOMAIN q}

Gone == docker = {} /\ late = {} /\ private = {}
Cleaned == docker \cup late \subseteq StrayProbes /\ private = {}
Evidence ==
    /\ validated \in {{"scanner"}, {"injection"}, {"scanner", "injection"}}
    /\ todo = <<>>
    /\ probes > 0

\* What this runner can know it has to remove.
Managed == {"network", "target"} \cup Scanners(runner)

\* Before the first docker command that creates anything.
BeforeDocker ==
    step \in {"configure", "docker", "pull", "user", "network",
              "decline", "reject"} =>
        Gone /\ expected = {} /\ raised = Unset /\ ~failed /\ (step = "docker" => outcome = 2)

\* The probe of the last round may be astray as long as another one follows.
Astray ==
    IF step \in {"probe", "inspect", "wait"} /\ probes > 0 THEN {"probe"} ELSE StrayProbes

\* While no exception was raised, docker holds only what the flags know.
Known == late \subseteq Astray /\ docker \subseteq expected \cup Astray
TryKnown ==
    step \in TrySteps => Known /\ outcome = 2 /\ raised = Unset /\ ~failed

\* A result other than 2 reaches the finally block only from there.
CleanupKnown ==
    /\ expected \subseteq Managed
    /\ step = "discard" => ~failed
    /\ step \in {"discard", "cleanup"} /\ outcome # 2 => Known
    /\ step = "cleanup" => private = {}
    /\ step = "cleanup" /\ outcome # 2 /\ ~failed => docker \subseteq Pending(cleanup) \cup StrayProbes

\* The launches and the evidence they leave.
Launches ==
    /\ step \in {"workspace", "scan", "normalize"} => probes > 0
    /\ step \in {"configure", "docker", "pull", "user", "network", "target", "probe", "inspect",
                 "wait", "workspace", "scan", "normalize"} => todo # <<>>
    /\ step = "evaluate" => Evidence
    /\ step \in {"discard", "cleanup", "publish"} /\ outcome \in {0, 1} => Evidence
    /\ Pending(todo) \subseteq Scanners(runner)

\* What is about to be published.
AboutToPublish ==
    /\ step = "decline" => outcome = 0 /\ state \in {"not_applicable", "not_configured"}
    /\ step = "reject" => outcome = 3 /\ state = "tool_error"
    /\ step = "publish" =>
          /\ raised = Unset
          /\ outcome # 2 => Cleaned
          /\ state = IF outcome \in {0, 1} THEN "ran" ELSE "tool_error"

\* What was published.
Published ==
    /\ step \notin {"reject", "exited"} => coverage = NoState /\ policy = Unset
    /\ step = "reject" => coverage # "ran"
    /\ step # "exited" => exit = Unset
    /\ policy \in Codes \ {2} => Cleaned
    /\ coverage = "ran" => Evidence /\ raised = Unset
    /\ ExitIsPublished

IInv ==
    /\ TypeOK /\ BeforeDocker /\ TryKnown /\ CleanupKnown
    /\ Launches /\ AboutToPublish /\ Published

USE RunnersAssumption, MaxProbesAssumption DEF AllRunners

\* The queues of the script lose their head and stay queues.
LEMMA QueueStep ==
    ASSUME NEW q \in LaunchQueues \cup RemovalQueues, q # <<>>
    PROVE  /\ q \in LaunchQueues => Tail(q) \in LaunchQueues
           /\ q \in RemovalQueues => Tail(q) \in RemovalQueues
           /\ Head(q) \in Pending(q)
           /\ Pending(q) = {Head(q)} \cup Pending(Tail(q))
PROOF
<1>1. q \in Seq(Things)
  <2>1. /\ <<"scanner">> \in Seq(Things) /\ <<"injection">> \in Seq(Things)
        /\ <<"scanner", "injection">> \in Seq(Things)
    BY DEF Things, Containers
  <2>2. /\ <<"network">> \in Seq(Things) /\ <<"target", "network">> \in Seq(Things)
        /\ <<"injection", "target", "network">> \in Seq(Things)
        /\ <<"scanner", "target", "network">> \in Seq(Things)
        /\ <<"scanner", "injection", "target", "network">> \in Seq(Things)
    BY DEF Things, Containers
  <2> QED
    BY <2>1, <2>2 DEF LaunchQueues, RemovalQueues
<1>2. /\ q \in LaunchQueues => Tail(q) \in LaunchQueues
      /\ q \in RemovalQueues => Tail(q) \in RemovalQueues
  <2>1. /\ Tail(<<"scanner">>) = <<>> /\ Tail(<<"injection">>) = <<>> /\ Tail(<<"network">>) = <<>>
        /\ Tail(<<"scanner", "injection">>) = <<"injection">>
        /\ Tail(<<"target", "network">>) = <<"network">>
    OBVIOUS
  <2>2. /\ Tail(<<"injection", "target", "network">>) = <<"target", "network">>
        /\ Tail(<<"scanner", "target", "network">>) = <<"target", "network">>
    OBVIOUS
  <2>3. Tail(<<"scanner", "injection", "target", "network">>) = <<"injection", "target", "network">>
    OBVIOUS
  <2> QED
    BY <2>1, <2>2, <2>3 DEF LaunchQueues, RemovalQueues
<1>3. Head(q) \in Pending(q)
  BY <1>1 DEF Pending
<1>4. Pending(Tail(q)) \subseteq Pending(q)
  BY <1>1 DEF Pending
<1>5. Pending(q) \subseteq {Head(q)} \cup Pending(Tail(q))
  <2> SUFFICES ASSUME NEW i \in DOMAIN q, i # 1 PROVE q[i] \in Pending(Tail(q))
    BY <1>1 DEF Pending
  <2>1. i - 1 \in DOMAIN Tail(q) /\ Tail(q)[i - 1] = q[i]
    BY <1>1
  <2> QED
    BY <2>1 DEF Pending
<1> QED
  BY <1>2, <1>3, <1>4, <1>5

\* While a scanner is launched or its report read, the head of the launches is a
\* scanner of this runner.
LEMMA LaunchHead ==
    ASSUME TypeOK, Launches, step \in {"scan", "normalize"}
    PROVE  /\ todo # <<>> /\ Head(todo) \in Scanners(runner)
           /\ Tail(todo) \in LaunchQueues
           /\ Pending(Tail(todo)) \subseteq Scanners(runner)
PROOF
<1>1. todo \in LaunchQueues /\ todo # <<>> /\ Pending(todo) \subseteq Scanners(runner)
  BY DEF TypeOK, Launches
<1> QED
  BY <1>1, QueueStep

\* Every container and the network of a runner are among its removals.
LEMMA CleanupCoversManaged ==
    ASSUME TypeOK
    PROVE  CleanupOrder(runner) \in RemovalQueues /\ Pending(CleanupOrder(runner)) = Managed
PROOF
<1>1. CASE runner = "fuzzing"
  <2>1. Pending(<<"scanner", "injection", "target", "network">>) =
            {"scanner", "injection", "target", "network"}
    BY DEF Pending
  <2> QED
    BY <1>1, <2>1 DEF CleanupOrder, Managed, Scanners, RemovalQueues
<1>2. CASE runner # "fuzzing"
  <2>1. Pending(<<"scanner", "target", "network">>) = {"scanner", "target", "network"}
    BY DEF Pending
  <2> QED
    BY <1>2, <2>1 DEF CleanupOrder, Managed, Scanners, RemovalQueues
<1> QED
  BY <1>1, <1>2

\* An empty queue has nothing pending.
LEMMA NothingPending == Pending(<<>>) = {}
PROOF
  BY DEF Pending

\* What an unconfirmed client may have made of the daemon.
LEMMA UnconfirmedTyped ==
    ASSUME TypeOK, NEW thing \in Things, Unconfirmed(thing)
    PROVE  docker' \subseteq Things /\ late' \subseteq Things
PROOF
  BY DEF TypeOK, Unconfirmed

\* The scanner names.
LEMMA ScannersTyped == Scanners(runner) \subseteq {"scanner", "injection"} /\ {"scanner", "injection"} \subseteq Things
PROOF
  BY DEF Scanners, Things, Containers

\* Decline preserves the invariant.
LEMMA DeclineKeeps == IInv /\ Decline => IInv'
PROOF
<1> SUFFICES ASSUME IInv, Decline PROVE IInv'
  OBVIOUS
<1> USE DEF IInv, Decline, Prepare, world, progress, verdict, artifacts, Unset, Interrupted
<1>1. TypeOK'
  BY DEF TypeOK, Things, Containers, Codes, Steps, TrySteps, PublishSteps, States, NoState, Statuses
<1>2. BeforeDocker'
  BY DEF BeforeDocker, Gone, TrySteps, PublishSteps
<1>3. TryKnown'
  BY DEF TryKnown, BeforeDocker, Gone, Known, TrySteps, PublishSteps
<1>4. CleanupKnown'
  BY DEF CleanupKnown, Known, Managed, TrySteps, TryKnown, BeforeDocker, Gone, PublishSteps
<1>5. Launches'
  BY DEF Launches, Evidence, TrySteps, PublishSteps
<1>6. AboutToPublish'
  BY DEF AboutToPublish, CleanupKnown, Known, Gone, BeforeDocker, PublishSteps
<1>7. Published'
  BY DEF Published, AboutToPublish, ExitIsPublished, BeforeDocker, Gone, Evidence, PublishSteps, NoState, Codes
<1> QED
  BY <1>1, <1>2, <1>3, <1>4, <1>5, <1>6, <1>7

\* Reject preserves the invariant.
LEMMA RejectKeeps == IInv /\ Reject => IInv'
PROOF
<1> SUFFICES ASSUME IInv, Reject PROVE IInv'
  OBVIOUS
<1> USE DEF IInv, Reject, Prepare, world, progress, verdict, artifacts, Unset, Interrupted
<1>1. TypeOK'
  BY DEF TypeOK, Things, Containers, Codes, Steps, TrySteps, PublishSteps, States, NoState, Statuses
<1>2. BeforeDocker'
  BY DEF BeforeDocker, Gone, TrySteps, PublishSteps
<1>3. TryKnown'
  BY DEF TryKnown, BeforeDocker, Gone, Known, TrySteps, PublishSteps
<1>4. CleanupKnown'
  BY DEF CleanupKnown, Known, Managed, TrySteps, TryKnown, BeforeDocker, Gone, PublishSteps
<1>5. Launches'
  BY DEF Launches, Evidence, TrySteps, PublishSteps
<1>6. AboutToPublish'
  BY DEF AboutToPublish, CleanupKnown, Known, Gone, BeforeDocker, PublishSteps
<1>7. Published'
  BY DEF Published, AboutToPublish, ExitIsPublished, BeforeDocker, Gone, Evidence, PublishSteps, NoState, Codes
<1> QED
  BY <1>1, <1>2, <1>3, <1>4, <1>5, <1>6, <1>7

\* ConfigUnreadable preserves the invariant.
LEMMA ConfigUnreadableKeeps == IInv /\ ConfigUnreadable => IInv'
PROOF
<1> SUFFICES ASSUME IInv, ConfigUnreadable PROVE IInv'
  OBVIOUS
<1> USE DEF IInv, ConfigUnreadable, Exit, world, progress, verdict, artifacts, Unset, Interrupted
<1>1. TypeOK'
  BY DEF TypeOK, Things, Containers, Codes, Steps, TrySteps, PublishSteps, States, NoState, Statuses
<1>2. BeforeDocker'
  BY DEF BeforeDocker, Gone, TrySteps, PublishSteps
<1>3. TryKnown'
  BY DEF TryKnown, BeforeDocker, Gone, Known, TrySteps, PublishSteps
<1>4. CleanupKnown'
  BY DEF CleanupKnown, Known, Managed, TrySteps, TryKnown, BeforeDocker, Gone, PublishSteps
<1>5. Launches'
  BY DEF Launches, Evidence, TrySteps, PublishSteps
<1>6. AboutToPublish'
  BY DEF AboutToPublish, CleanupKnown, Known, Gone, BeforeDocker, PublishSteps
<1>7. Published'
  BY DEF Published, AboutToPublish, ExitIsPublished, BeforeDocker, Gone, Evidence, PublishSteps, NoState, Codes
<1> QED
  BY <1>1, <1>2, <1>3, <1>4, <1>5, <1>6, <1>7

\* Accept preserves the invariant.
LEMMA AcceptKeeps == IInv /\ Accept => IInv'
PROOF
<1> SUFFICES ASSUME IInv, Accept PROVE IInv'
  OBVIOUS
<1> USE DEF IInv, Accept, Prepare, world, progress, verdict, artifacts, Unset, Interrupted
<1>1. TypeOK'
  BY DEF TypeOK, Things, Containers, Codes, Steps, TrySteps, PublishSteps, States, NoState, Statuses
<1>2. BeforeDocker'
  BY DEF BeforeDocker, Gone, TrySteps, PublishSteps
<1>3. TryKnown'
  BY DEF TryKnown, BeforeDocker, Gone, Known, TrySteps, PublishSteps
<1>4. CleanupKnown'
  BY DEF CleanupKnown, Known, Managed, TrySteps, TryKnown, BeforeDocker, Gone, PublishSteps
<1>5. Launches'
  BY DEF Launches, Evidence, TrySteps, PublishSteps
<1>6. AboutToPublish'
  BY DEF AboutToPublish, CleanupKnown, Known, Gone, BeforeDocker, PublishSteps
<1>7. Published'
  BY DEF Published, AboutToPublish, ExitIsPublished, BeforeDocker, Gone, Evidence, PublishSteps, NoState, Codes
<1> QED
  BY <1>1, <1>2, <1>3, <1>4, <1>5, <1>6, <1>7

\* DockerMissing preserves the invariant.
LEMMA DockerMissingKeeps == IInv /\ DockerMissing => IInv'
PROOF
<1> SUFFICES ASSUME IInv, DockerMissing PROVE IInv'
  OBVIOUS
<1> USE DEF IInv, DockerMissing, Prepare, world, progress, verdict, artifacts, Unset, Interrupted
<1>1. TypeOK'
  BY DEF TypeOK, Things, Containers, Codes, Steps, TrySteps, PublishSteps, States, NoState, Statuses
<1>2. BeforeDocker'
  BY DEF BeforeDocker, Gone, TrySteps, PublishSteps
<1>3. TryKnown'
  BY DEF TryKnown, BeforeDocker, Gone, Known, TrySteps, PublishSteps
<1>4. CleanupKnown'
  BY DEF CleanupKnown, Known, Managed, TrySteps, TryKnown, BeforeDocker, Gone, PublishSteps
<1>5. Launches'
  BY DEF Launches, Evidence, TrySteps, PublishSteps
<1>6. AboutToPublish'
  BY DEF AboutToPublish, CleanupKnown, Known, Gone, BeforeDocker, PublishSteps
<1>7. Published'
  BY DEF Published, AboutToPublish, ExitIsPublished, BeforeDocker, Gone, Evidence, PublishSteps, NoState, Codes
<1> QED
  BY <1>1, <1>2, <1>3, <1>4, <1>5, <1>6, <1>7

\* DockerFound preserves the invariant.
LEMMA DockerFoundKeeps == IInv /\ DockerFound => IInv'
PROOF
<1> SUFFICES ASSUME IInv, DockerFound PROVE IInv'
  OBVIOUS
<1> USE DEF IInv, DockerFound, Prepare, world, progress, verdict, artifacts, Unset, Interrupted
<1>1. TypeOK'
  BY DEF TypeOK, Things, Containers, Codes, Steps, TrySteps, PublishSteps, States, NoState, Statuses
<1>2. BeforeDocker'
  BY DEF BeforeDocker, Gone, TrySteps, PublishSteps
<1>3. TryKnown'
  BY DEF TryKnown, BeforeDocker, Gone, Known, TrySteps, PublishSteps
<1>4. CleanupKnown'
  BY DEF CleanupKnown, Known, Managed, TrySteps, TryKnown, BeforeDocker, Gone, PublishSteps
<1>5. Launches'
  BY DEF Launches, Evidence, TrySteps, PublishSteps
<1>6. AboutToPublish'
  BY DEF AboutToPublish, CleanupKnown, Known, Gone, BeforeDocker, PublishSteps
<1>7. Published'
  BY DEF Published, AboutToPublish, ExitIsPublished, BeforeDocker, Gone, Evidence, PublishSteps, NoState, Codes
<1> QED
  BY <1>1, <1>2, <1>3, <1>4, <1>5, <1>6, <1>7

\* PullImages preserves the invariant.
LEMMA PullImagesKeeps == IInv /\ PullImages => IInv'
PROOF
<1> SUFFICES ASSUME IInv, PullImages PROVE IInv'
  OBVIOUS
<1> USE DEF IInv, PullImages, Goto, Fail, world, progress, verdict, artifacts, Unset, Interrupted
<1>1. TypeOK'
  BY DEF TypeOK, Things, Containers, Codes, Steps, TrySteps, PublishSteps, States, NoState, Statuses
<1>2. BeforeDocker'
  BY DEF BeforeDocker, Gone, TrySteps, PublishSteps
<1>3. TryKnown'
  BY DEF TryKnown, BeforeDocker, Gone, Known, TrySteps, PublishSteps
<1>4. CleanupKnown'
  BY DEF CleanupKnown, Known, Managed, TrySteps, TryKnown, BeforeDocker, Gone, PublishSteps
<1>5. Launches'
  BY DEF Launches, Evidence, TrySteps, PublishSteps
<1>6. AboutToPublish'
  BY DEF AboutToPublish, CleanupKnown, Known, Gone, BeforeDocker, PublishSteps
<1>7. Published'
  BY DEF Published, AboutToPublish, ExitIsPublished, BeforeDocker, Gone, Evidence, PublishSteps, NoState, Codes
<1> QED
  BY <1>1, <1>2, <1>3, <1>4, <1>5, <1>6, <1>7

\* InspectUser preserves the invariant.
LEMMA InspectUserKeeps == IInv /\ InspectUser => IInv'
PROOF
<1> SUFFICES ASSUME IInv, InspectUser PROVE IInv'
  OBVIOUS
<1> USE DEF IInv, InspectUser, Goto, Fail, world, progress, verdict, artifacts, Unset, Interrupted
<1>1. TypeOK'
  BY DEF TypeOK, Things, Containers, Codes, Steps, TrySteps, PublishSteps, States, NoState, Statuses
<1>2. BeforeDocker'
  BY DEF BeforeDocker, Gone, TrySteps, PublishSteps
<1>3. TryKnown'
  BY DEF TryKnown, BeforeDocker, Gone, Known, TrySteps, PublishSteps
<1>4. CleanupKnown'
  BY DEF CleanupKnown, Known, Managed, TrySteps, TryKnown, BeforeDocker, Gone, PublishSteps
<1>5. Launches'
  BY DEF Launches, Evidence, TrySteps, PublishSteps
<1>6. AboutToPublish'
  BY DEF AboutToPublish, CleanupKnown, Known, Gone, BeforeDocker, PublishSteps
<1>7. Published'
  BY DEF Published, AboutToPublish, ExitIsPublished, BeforeDocker, Gone, Evidence, PublishSteps, NoState, Codes
<1> QED
  BY <1>1, <1>2, <1>3, <1>4, <1>5, <1>6, <1>7

\* CreateNetwork preserves the invariant.
LEMMA CreateNetworkKeeps == IInv /\ CreateNetwork => IInv'
PROOF
<1> SUFFICES ASSUME IInv, CreateNetwork PROVE IInv'
  OBVIOUS
<1> USE DEF IInv, CreateNetwork, Goto, Fail, world, progress, verdict, artifacts, Unset, Interrupted
<1>1. TypeOK'
  <2>1. docker' \subseteq Things /\ late' \subseteq Things
    <3>1. "network" \in Things
      BY DEF Things, Containers
    <3> QED
      BY <3>1, UnconfirmedTyped DEF TypeOK
  <2>2. expected' \subseteq Things /\ private' \subseteq {"directory", "plan", "report"}
    BY DEF TypeOK, Things, Containers
  <2>3. todo' \in LaunchQueues /\ probes' \in Nat /\ validated' \subseteq {"scanner", "injection"}
    BY DEF TypeOK
  <2>4. step' \in Steps /\ outcome' \in Codes /\ raised' \in {1, Interrupted, Unset}
    BY DEF TypeOK, Steps, TrySteps, Codes
  <2>5. runner' = runner /\ cleanup' = cleanup /\ failed' = failed /\ exit' = exit
        /\ UNCHANGED <<state, coverage, policy>>
    OBVIOUS
  <2> QED
    BY <2>1, <2>2, <2>3, <2>4, <2>5 DEF TypeOK
<1>2. BeforeDocker'
  BY DEF BeforeDocker, Gone, TrySteps, PublishSteps
<1>3. TryKnown'
  BY DEF TryKnown, BeforeDocker, Gone, Known, TrySteps, PublishSteps
<1>4. CleanupKnown'
  BY DEF CleanupKnown, Known, Managed, TrySteps, TryKnown, BeforeDocker, Gone, PublishSteps
<1>5. Launches'
  BY DEF Launches, Evidence, TrySteps, PublishSteps
<1>6. AboutToPublish'
  BY DEF AboutToPublish, CleanupKnown, Known, Gone, BeforeDocker, PublishSteps
<1>7. Published'
  BY DEF Published, AboutToPublish, ExitIsPublished, BeforeDocker, Gone, Evidence, PublishSteps, NoState, Codes
<1> QED
  BY <1>1, <1>2, <1>3, <1>4, <1>5, <1>6, <1>7

\* StartTarget preserves the invariant.
LEMMA StartTargetKeeps == IInv /\ StartTarget => IInv'
PROOF
<1> SUFFICES ASSUME IInv, StartTarget PROVE IInv'
  OBVIOUS
<1> USE DEF IInv, StartTarget, Goto, Fail, world, progress, verdict, artifacts, Unset, Interrupted
<1>1. TypeOK'
  <2>1. docker' \subseteq Things /\ late' \subseteq Things
    <3>1. "target" \in Things
      BY DEF Things, Containers
    <3> QED
      BY <3>1, UnconfirmedTyped DEF TypeOK
  <2>2. expected' \subseteq Things /\ private' \subseteq {"directory", "plan", "report"}
    BY DEF TypeOK, Things, Containers
  <2>3. todo' \in LaunchQueues /\ probes' \in Nat /\ validated' \subseteq {"scanner", "injection"}
    BY DEF TypeOK
  <2>4. step' \in Steps /\ outcome' \in Codes /\ raised' \in {1, Interrupted, Unset}
    BY DEF TypeOK, Steps, TrySteps, Codes
  <2>5. runner' = runner /\ cleanup' = cleanup /\ failed' = failed /\ exit' = exit
        /\ UNCHANGED <<state, coverage, policy>>
    OBVIOUS
  <2> QED
    BY <2>1, <2>2, <2>3, <2>4, <2>5 DEF TypeOK
<1>2. BeforeDocker'
  BY DEF BeforeDocker, Gone, TrySteps, PublishSteps
<1>3. TryKnown'
  BY DEF TryKnown, BeforeDocker, Gone, Known, TrySteps, PublishSteps, Astray, StrayProbes, Cleaned, TypeOK
<1>4. CleanupKnown'
  BY DEF CleanupKnown, Known, Managed, TrySteps, TryKnown, BeforeDocker, Gone, PublishSteps
<1>5. Launches'
  BY DEF Launches, Evidence, TrySteps, PublishSteps
<1>6. AboutToPublish'
  BY DEF AboutToPublish, CleanupKnown, Known, Gone, BeforeDocker, PublishSteps
<1>7. Published'
  BY DEF Published, AboutToPublish, ExitIsPublished, BeforeDocker, Gone, Evidence, PublishSteps, NoState, Codes
<1> QED
  BY <1>1, <1>2, <1>3, <1>4, <1>5, <1>6, <1>7

\* Probe preserves the invariant.
LEMMA ProbeKeeps == IInv /\ Probe => IInv'
PROOF
<1> SUFFICES ASSUME IInv, Probe PROVE IInv'
  OBVIOUS
<1> USE DEF IInv, Probe, Goto, Fail, world, progress, verdict, artifacts, Unset, Interrupted
<1>1. TypeOK'
  <2>1. docker' \subseteq Things /\ late' \subseteq Things
    <3>1. "probe" \in Things
      BY DEF Things, Containers
    <3> QED
      BY <3>1, UnconfirmedTyped DEF TypeOK
  <2>2. expected' \subseteq Things /\ private' \subseteq {"directory", "plan", "report"}
    BY DEF TypeOK, Things, Containers
  <2>3. todo' \in LaunchQueues /\ probes' \in Nat /\ validated' \subseteq {"scanner", "injection"}
    BY DEF TypeOK
  <2>4. step' \in Steps /\ outcome' \in Codes /\ raised' \in {1, Interrupted, Unset}
    BY DEF TypeOK, Steps, TrySteps, Codes
  <2>5. runner' = runner /\ cleanup' = cleanup /\ failed' = failed /\ exit' = exit
        /\ UNCHANGED <<state, coverage, policy>>
    OBVIOUS
  <2> QED
    BY <2>1, <2>2, <2>3, <2>4, <2>5 DEF TypeOK
<1>2. BeforeDocker'
  BY DEF BeforeDocker, Gone, TrySteps, PublishSteps
<1>3. TryKnown'
  <2>1. /\ late \subseteq {"probe"} /\ docker \subseteq expected \cup {"probe"}
        /\ outcome = 2 /\ raised = Unset /\ ~failed
        /\ probes = 0 => late = {} /\ docker \subseteq expected
    BY DEF TryKnown, Known, Astray, StrayProbes, TrySteps, TypeOK
  <2>2. probes' = probes + 1 /\ probes' > 0 /\ (probes # 0 => probes' > 1)
    BY DEF TypeOK
  <2>3. CASE step' = "workspace"
    BY <2>1, <2>2, <2>3 DEF TryKnown, Known, Astray, StrayProbes
  <2>4. CASE step' = "inspect"
    BY <2>1, <2>2, <2>4 DEF TryKnown, Known, Astray, Unconfirmed
  <2>5. CASE step' = "discard"
    BY <2>5 DEF TryKnown, TrySteps
  <2> QED
    BY <2>3, <2>4, <2>5
<1>4. CleanupKnown'
  BY DEF CleanupKnown, Known, Managed, TrySteps, TryKnown, BeforeDocker, Gone, PublishSteps
<1>5. Launches'
  <2>1. probes' > 0
    BY DEF TypeOK
  <2>2. outcome = 2
    BY DEF TryKnown, TrySteps
  <2> QED
    BY <2>1, <2>2 DEF Launches, Evidence
<1>6. AboutToPublish'
  BY DEF AboutToPublish, CleanupKnown, Known, Gone, BeforeDocker, PublishSteps
<1>7. Published'
  BY DEF Published, AboutToPublish, ExitIsPublished, BeforeDocker, Gone, Evidence, PublishSteps, NoState, Codes
<1> QED
  BY <1>1, <1>2, <1>3, <1>4, <1>5, <1>6, <1>7

\* InspectTarget preserves the invariant.
LEMMA InspectTargetKeeps == IInv /\ InspectTarget => IInv'
PROOF
<1> SUFFICES ASSUME IInv, InspectTarget PROVE IInv'
  OBVIOUS
<1> USE DEF IInv, InspectTarget, Goto, Fail, world, progress, verdict, artifacts, Unset, Interrupted
<1>1. TypeOK'
  BY DEF TypeOK, Things, Containers, Codes, Steps, TrySteps, PublishSteps, States, NoState, Statuses
<1>2. BeforeDocker'
  BY DEF BeforeDocker, Gone, TrySteps, PublishSteps
<1>3. TryKnown'
  BY DEF TryKnown, BeforeDocker, Gone, Known, TrySteps, PublishSteps, Astray, StrayProbes, Cleaned, TypeOK
<1>4. CleanupKnown'
  BY DEF CleanupKnown, Known, Managed, TrySteps, TryKnown, BeforeDocker, Gone, PublishSteps
<1>5. Launches'
  BY DEF Launches, Evidence, TrySteps, PublishSteps
<1>6. AboutToPublish'
  BY DEF AboutToPublish, CleanupKnown, Known, Gone, BeforeDocker, PublishSteps
<1>7. Published'
  BY DEF Published, AboutToPublish, ExitIsPublished, BeforeDocker, Gone, Evidence, PublishSteps, NoState, Codes
<1> QED
  BY <1>1, <1>2, <1>3, <1>4, <1>5, <1>6, <1>7

\* Wait preserves the invariant.
LEMMA WaitKeeps == IInv /\ Wait => IInv'
PROOF
<1> SUFFICES ASSUME IInv, Wait PROVE IInv'
  OBVIOUS
<1> USE DEF IInv, Wait, Goto, Fail, world, progress, verdict, artifacts, Unset, Interrupted
<1>1. TypeOK'
  BY DEF TypeOK, Things, Containers, Codes, Steps, TrySteps, PublishSteps, States, NoState, Statuses
<1>2. BeforeDocker'
  BY DEF BeforeDocker, Gone, TrySteps, PublishSteps
<1>3. TryKnown'
  BY DEF TryKnown, BeforeDocker, Gone, Known, TrySteps, PublishSteps, Astray, StrayProbes, Cleaned, TypeOK
<1>4. CleanupKnown'
  BY DEF CleanupKnown, Known, Managed, TrySteps, TryKnown, BeforeDocker, Gone, PublishSteps
<1>5. Launches'
  BY DEF Launches, Evidence, TrySteps, PublishSteps
<1>6. AboutToPublish'
  BY DEF AboutToPublish, CleanupKnown, Known, Gone, BeforeDocker, PublishSteps
<1>7. Published'
  BY DEF Published, AboutToPublish, ExitIsPublished, BeforeDocker, Gone, Evidence, PublishSteps, NoState, Codes
<1> QED
  BY <1>1, <1>2, <1>3, <1>4, <1>5, <1>6, <1>7

\* PrepareWorkspace preserves the invariant.
LEMMA PrepareWorkspaceKeeps == IInv /\ PrepareWorkspace => IInv'
PROOF
<1> SUFFICES ASSUME IInv, PrepareWorkspace PROVE IInv'
  OBVIOUS
<1> USE DEF IInv, PrepareWorkspace, Goto, Fail, Workspace, world, progress, verdict, artifacts, Unset, Interrupted
<1>1. TypeOK'
  BY DEF TypeOK, Things, Containers, Codes, Steps, TrySteps, PublishSteps, States, NoState, Statuses
<1>2. BeforeDocker'
  BY DEF BeforeDocker, Gone, TrySteps, PublishSteps
<1>3. TryKnown'
  BY DEF TryKnown, BeforeDocker, Gone, Known, TrySteps, PublishSteps, Astray, StrayProbes, Cleaned, TypeOK
<1>4. CleanupKnown'
  BY DEF CleanupKnown, Known, Managed, TrySteps, TryKnown, BeforeDocker, Gone, PublishSteps, Astray, StrayProbes, Cleaned, TypeOK
<1>5. Launches'
  BY DEF Launches, Evidence, TrySteps, PublishSteps
<1>6. AboutToPublish'
  BY DEF AboutToPublish, CleanupKnown, Known, Gone, BeforeDocker, PublishSteps
<1>7. Published'
  BY DEF Published, AboutToPublish, ExitIsPublished, BeforeDocker, Gone, Evidence, PublishSteps, NoState, Codes
<1> QED
  BY <1>1, <1>2, <1>3, <1>4, <1>5, <1>6, <1>7

\* RunScanner preserves the invariant.
LEMMA RunScannerKeeps == IInv /\ RunScanner => IInv'
PROOF
<1> SUFFICES ASSUME IInv, RunScanner PROVE IInv'
  OBVIOUS
<1> USE DEF IInv, RunScanner, Goto, Fail, LaunchInputs, world, progress, verdict, artifacts, Unset, Interrupted
<1>1. TypeOK'
  <2>1. docker' \subseteq Things /\ late' \subseteq Things
    <3>1. Head(todo) \in Things
      BY LaunchHead, ScannersTyped
    <3> QED
      BY <3>1, UnconfirmedTyped DEF TypeOK, ScanReturned, ScanFailed, ScanGivenUp, ScanRefused
  <2>2. expected' \subseteq Things /\ private' \subseteq {"directory", "plan", "report"}
    <3>1. Head(todo) \in Things
      BY LaunchHead, ScannersTyped
    <3>2. expected' \subseteq Things
      BY <3>1 DEF TypeOK, ScanReturned, ScanFailed, ScanGivenUp, ScanRefused
    <3>3. private' \subseteq {"directory", "plan", "report"}
      BY DEF TypeOK
    <3> QED
      BY <3>2, <3>3
  <2>3. todo' \in LaunchQueues /\ probes' \in Nat /\ validated' \subseteq {"scanner", "injection"}
    BY DEF TypeOK
  <2>4. step' \in Steps /\ outcome' \in Codes /\ raised' \in {1, Interrupted, Unset}
    BY DEF TypeOK, Steps, TrySteps, Codes
  <2>5. runner' = runner /\ cleanup' = cleanup /\ failed' = failed /\ exit' = exit
        /\ UNCHANGED <<state, coverage, policy>>
    OBVIOUS
  <2> QED
    BY <2>1, <2>2, <2>3, <2>4, <2>5 DEF TypeOK
<1>2. BeforeDocker'
  BY DEF BeforeDocker, Gone, TrySteps, PublishSteps
<1>3. TryKnown'
  <2>1. Known /\ outcome = 2 /\ raised = Unset /\ ~failed
    BY DEF TryKnown, TrySteps
  <2>2. ~RemovesItself(Head(todo)) => runner = "dast"
    BY LaunchHead, ScannersTyped DEF RemovesItself
  <2>3. step' = "normalize" => ScanReturned(Head(todo)) /\ outcome' = outcome
    OBVIOUS
  <2>4. step' = "normalize" => Known'
    BY <2>1, <2>2, <2>3 DEF ScanReturned, Known, Astray, StrayProbes
  <2>5. step' \in {"normalize", "discard"}
    OBVIOUS
  <2> QED
    BY <2>1, <2>3, <2>4, <2>5 DEF TryKnown, TrySteps
<1>4. CleanupKnown'
  <2>1. Head(todo) \in Managed
    BY LaunchHead DEF Managed
  <2>2. expected' \subseteq Managed'
    BY <2>1 DEF CleanupKnown, Managed, ScanReturned, ScanFailed, ScanGivenUp, ScanRefused
  <2>3. Known /\ outcome = 2 /\ ~failed
    BY DEF TryKnown, TrySteps
  <2>4. CASE step' = "discard" /\ outcome' # 2
    BY <2>2, <2>3, <2>4 DEF CleanupKnown, Known, ScanRefused, Astray, StrayProbes
  <2>5. CASE ~(step' = "discard" /\ outcome' # 2)
    BY <2>2, <2>3, <2>5 DEF CleanupKnown
  <2> QED
    BY <2>4, <2>5
<1>5. Launches'
  BY DEF Launches, Evidence, TrySteps, PublishSteps
<1>6. AboutToPublish'
  BY DEF AboutToPublish, CleanupKnown, Known, Gone, BeforeDocker, PublishSteps
<1>7. Published'
  BY DEF Published, AboutToPublish, ExitIsPublished, BeforeDocker, Gone, Evidence, PublishSteps, NoState, Codes
<1> QED
  BY <1>1, <1>2, <1>3, <1>4, <1>5, <1>6, <1>7

\* Normalize preserves the invariant.
LEMMA NormalizeKeeps == IInv /\ Normalize => IInv'
PROOF
<1> SUFFICES ASSUME IInv, Normalize PROVE IInv'
  OBVIOUS
<1> USE DEF IInv, Normalize, Goto, Fail, world, progress, verdict, artifacts, Unset, Interrupted
<1>1. TypeOK'
  <2>1. docker' \subseteq Things /\ late' \subseteq Things
    BY DEF TypeOK
  <2>2. expected' \subseteq Things /\ private' \subseteq {"directory", "plan", "report"}
    BY DEF TypeOK
  <2>3. todo' \in LaunchQueues /\ probes' \in Nat /\ validated' \subseteq {"scanner", "injection"}
    BY LaunchHead, ScannersTyped DEF TypeOK
  <2>4. step' \in Steps /\ outcome' \in Codes /\ raised' \in {1, Interrupted, Unset}
    BY DEF TypeOK, Steps, TrySteps, Codes
  <2>5. runner' = runner /\ cleanup' = cleanup /\ failed' = failed /\ exit' = exit
        /\ UNCHANGED <<state, coverage, policy>>
    OBVIOUS
  <2> QED
    BY <2>1, <2>2, <2>3, <2>4, <2>5 DEF TypeOK
<1>2. BeforeDocker'
  BY DEF BeforeDocker, Gone, TrySteps, PublishSteps
<1>3. TryKnown'
  BY DEF TryKnown, BeforeDocker, Gone, Known, TrySteps, PublishSteps, Astray, StrayProbes, Cleaned, TypeOK
<1>4. CleanupKnown'
  BY DEF CleanupKnown, Known, Managed, TrySteps, TryKnown, BeforeDocker, Gone, PublishSteps, Astray, StrayProbes, Cleaned, TypeOK
<1>5. Launches'
  <2>1. probes > 0 /\ outcome = 2 /\ todo # <<>>
    BY DEF Launches, TryKnown, TrySteps
  <2>2. Pending(todo') \subseteq Scanners(runner')
    BY LaunchHead DEF Launches
  <2>3. CASE step' = "discard"
    BY <2>1, <2>2, <2>3 DEF Launches
  <2>4. CASE step' = "scan"
    BY <2>1, <2>2, <2>4 DEF Launches
  <2>5. CASE step' = "evaluate"
    <3>1. Head(todo) \in {"scanner", "injection"} /\ validated \subseteq {"scanner", "injection"}
      BY LaunchHead, ScannersTyped DEF TypeOK
    <3>2. validated' = validated \cup {Head(todo)} /\ todo' = <<>> /\ probes' = probes
      BY <2>5
    <3>3. validated' \in {{"scanner"}, {"injection"}, {"scanner", "injection"}}
      BY <3>1, <3>2
    <3> QED
      BY <2>1, <2>2, <2>5, <3>2, <3>3 DEF Launches, Evidence
  <2> QED
    BY <2>3, <2>4, <2>5
<1>6. AboutToPublish'
  BY DEF AboutToPublish, CleanupKnown, Known, Gone, BeforeDocker, PublishSteps
<1>7. Published'
  BY DEF Published, AboutToPublish, ExitIsPublished, BeforeDocker, Gone, Evidence, PublishSteps, NoState, Codes
<1> QED
  BY <1>1, <1>2, <1>3, <1>4, <1>5, <1>6, <1>7

\* Evaluate preserves the invariant.
LEMMA EvaluateKeeps == IInv /\ Evaluate => IInv'
PROOF
<1> SUFFICES ASSUME IInv, Evaluate PROVE IInv'
  OBVIOUS
<1> USE DEF IInv, Evaluate, world, progress, verdict, artifacts, Unset, Interrupted
<1>1. TypeOK'
  BY DEF TypeOK, Things, Containers, Codes, Steps, TrySteps, PublishSteps, States, NoState, Statuses
<1>2. BeforeDocker'
  BY DEF BeforeDocker, Gone, TrySteps, PublishSteps
<1>3. TryKnown'
  BY DEF TryKnown, BeforeDocker, Gone, Known, TrySteps, PublishSteps
<1>4. CleanupKnown'
  BY DEF CleanupKnown, Known, Managed, TrySteps, TryKnown, BeforeDocker, Gone, PublishSteps, Astray, StrayProbes, Cleaned, TypeOK
<1>5. Launches'
  BY DEF Launches, Evidence, TrySteps, PublishSteps
<1>6. AboutToPublish'
  BY DEF AboutToPublish, CleanupKnown, Known, Gone, BeforeDocker, PublishSteps
<1>7. Published'
  BY DEF Published, AboutToPublish, ExitIsPublished, BeforeDocker, Gone, Evidence, PublishSteps, NoState, Codes
<1> QED
  BY <1>1, <1>2, <1>3, <1>4, <1>5, <1>6, <1>7

\* InterruptTry preserves the invariant.
LEMMA InterruptTryKeeps == IInv /\ InterruptTry => IInv'
PROOF
<1> SUFFICES ASSUME IInv, InterruptTry PROVE IInv'
  OBVIOUS
<1> USE DEF IInv, InterruptTry, world, progress, verdict, artifacts, Unset, Interrupted
<1>1. TypeOK'
  <2>1. docker' \subseteq Things /\ late' \subseteq Things
    <3>1. step = "scan" => Head(todo) \in Things
      BY LaunchHead, ScannersTyped
    <3>2. {"network", "target", "probe"} \subseteq Things
      BY DEF Things, Containers
    <3> QED
      BY <3>1, <3>2, UnconfirmedTyped DEF TypeOK, ScanGivenUp
  <2>2. expected' \subseteq Things /\ private' \subseteq {"directory", "plan", "report"}
    <3>1. step = "scan" => Head(todo) \in Things
      BY LaunchHead, ScannersTyped
    <3> QED
      BY <3>1 DEF TypeOK, ScanGivenUp
  <2>3. todo' \in LaunchQueues /\ probes' \in Nat /\ validated' \subseteq {"scanner", "injection"}
    BY DEF TypeOK
  <2>4. step' \in Steps /\ outcome' \in Codes /\ raised' \in {1, Interrupted, Unset}
    BY DEF TypeOK, Steps
  <2>5. runner' = runner /\ cleanup' = cleanup /\ failed' = failed /\ exit' = exit
        /\ UNCHANGED <<state, coverage, policy>>
    OBVIOUS
  <2> QED
    BY <2>1, <2>2, <2>3, <2>4, <2>5 DEF TypeOK
<1>2. BeforeDocker'
  BY DEF BeforeDocker, Gone, TrySteps, PublishSteps
<1>3. TryKnown'
  BY DEF TryKnown, BeforeDocker, Gone, Known, TrySteps, PublishSteps
<1>4. CleanupKnown'
  <2>1. step = "scan" => Head(todo) \in Managed
    BY LaunchHead DEF Managed
  <2>2. expected' \subseteq Managed'
    BY <2>1 DEF CleanupKnown, Managed, ScanGivenUp
  <2>3. outcome = 2 /\ ~failed
    BY DEF TryKnown, TrySteps
  <2> QED
    BY <2>2, <2>3 DEF CleanupKnown
<1>5. Launches'
  <2>1. outcome = 2
    BY DEF TryKnown, TrySteps
  <2> QED
    BY <2>1 DEF Launches
<1>6. AboutToPublish'
  BY DEF AboutToPublish, CleanupKnown, Known, Gone, BeforeDocker, PublishSteps
<1>7. Published'
  <2>1. coverage = NoState /\ policy = Unset /\ exit = Unset
    BY DEF Published, TrySteps
  <2>2. UNCHANGED <<coverage, policy, exit>> /\ step' = "discard"
    OBVIOUS
  <2> QED
    BY <2>1, <2>2 DEF Published, ExitIsPublished, NoState, Codes
<1> QED
  BY <1>1, <1>2, <1>3, <1>4, <1>5, <1>6, <1>7

\* Discard preserves the invariant.
LEMMA DiscardKeeps == IInv /\ Discard => IInv'
PROOF
<1> SUFFICES ASSUME IInv, Discard PROVE IInv'
  OBVIOUS
<1> USE DEF IInv, Discard, Exit, world, progress, verdict, artifacts, Unset, Interrupted
<1>1. TypeOK'
  <2>1. cleanup' \in RemovalQueues
    BY CleanupCoversManaged DEF TypeOK
  <2>2. private' \subseteq {"directory", "plan", "report"}
    BY DEF TypeOK
  <2>3. step' \in Steps /\ exit' \in Statuses
    BY DEF TypeOK, Steps, Statuses, Codes
  <2>4. UNCHANGED <<runner, docker, late, expected, todo, probes, validated, outcome, raised, failed,
                    state, coverage, policy>>
    OBVIOUS
  <2> QED
    BY <2>1, <2>2, <2>3, <2>4 DEF TypeOK
<1>2. BeforeDocker'
  BY DEF BeforeDocker, Gone, TrySteps, PublishSteps
<1>3. TryKnown'
  BY DEF TryKnown, BeforeDocker, Gone, Known, TrySteps, PublishSteps
<1>4. CleanupKnown'
  <2>1. expected \subseteq Managed /\ Managed' = Managed /\ ~failed /\ (outcome # 2 => Known)
    BY DEF CleanupKnown, Managed
  <2>2. CASE step' = "cleanup"
    <3>1. Pending(cleanup') = Managed
      BY <2>2, CleanupCoversManaged
    <3> QED
      BY <2>1, <2>2, <3>1 DEF CleanupKnown, Known, Astray, StrayProbes, Cleaned, TypeOK
  <2>3. CASE step' = "exited"
    BY <2>1, <2>3 DEF CleanupKnown
  <2> QED
    BY <2>2, <2>3
<1>5. Launches'
  BY DEF Launches, Evidence, TrySteps, PublishSteps
<1>6. AboutToPublish'
  BY DEF AboutToPublish, CleanupKnown, Known, Gone, BeforeDocker, PublishSteps
<1>7. Published'
  BY DEF Published, AboutToPublish, ExitIsPublished, BeforeDocker, Gone, Evidence, PublishSteps, NoState, Codes
<1> QED
  BY <1>1, <1>2, <1>3, <1>4, <1>5, <1>6, <1>7

\* RemoveNext preserves the invariant.
LEMMA RemoveNextKeeps == IInv /\ RemoveNext => IInv'
PROOF
<1> SUFFICES ASSUME IInv, RemoveNext PROVE IInv'
  OBVIOUS
<1> USE DEF IInv, RemoveNext, world, progress, verdict, artifacts, Unset, Interrupted
<1>1. TypeOK'
  <2>1. Tail(cleanup) \in RemovalQueues
    BY QueueStep DEF TypeOK
  <2>2. failed' \in BOOLEAN
    BY DEF TypeOK
  <2> QED
    BY <2>1, <2>2 DEF TypeOK
<1>2. BeforeDocker'
  BY DEF BeforeDocker, Gone, TrySteps, PublishSteps
<1>3. TryKnown'
  BY DEF TryKnown, BeforeDocker, Gone, Known, TrySteps, PublishSteps
<1>4. CleanupKnown'
  <2>1. Pending(cleanup) = {Head(cleanup)} \cup Pending(Tail(cleanup))
    BY QueueStep DEF TypeOK
  <2>2. Managed' = Managed
    BY DEF Managed
  <2>3. CASE docker' = docker \ {Head(cleanup)} /\ UNCHANGED failed
    BY <2>1, <2>2, <2>3 DEF CleanupKnown, Known, Astray, StrayProbes, Cleaned, TypeOK
  <2>4. CASE failed' = (failed \/ Head(cleanup) \in expected) /\ UNCHANGED docker
    <3>1. step = "cleanup" /\ step' = "cleanup" /\ UNCHANGED <<late, expected, private, outcome, probes>>
      OBVIOUS
    <3>2. Astray = StrayProbes /\ Astray' = Astray
      BY <3>1 DEF Astray, StrayProbes
    <3>3. outcome # 2 => Known'
      BY <2>4, <3>1, <3>2 DEF CleanupKnown, Known
    <3>4. outcome # 2 /\ ~failed' => docker' \subseteq Pending(cleanup') \cup StrayProbes'
      <4>1. ASSUME outcome # 2, ~failed' PROVE docker \subseteq Pending(Tail(cleanup)) \cup StrayProbes
        <5>1. ~failed /\ Head(cleanup) \notin expected
          BY <2>4, <4>1
        <5>2. docker \subseteq expected \cup StrayProbes
          BY <3>1, <3>2, <4>1 DEF CleanupKnown, Known
        <5>3. docker \subseteq {Head(cleanup)} \cup Pending(Tail(cleanup)) \cup StrayProbes
          BY <2>1, <3>1, <4>1, <5>1 DEF CleanupKnown
        <5> QED
          BY <5>1, <5>2, <5>3
      <4> QED
        BY <2>4, <3>1, <4>1 DEF StrayProbes
    <3> QED
      BY <2>2, <3>1, <3>3, <3>4 DEF CleanupKnown
  <2> QED
    BY <2>3, <2>4
<1>5. Launches'
  BY DEF Launches, Evidence, TrySteps, PublishSteps
<1>6. AboutToPublish'
  BY DEF AboutToPublish, CleanupKnown, Known, Gone, BeforeDocker, PublishSteps
<1>7. Published'
  BY DEF Published, AboutToPublish, ExitIsPublished, BeforeDocker, Gone, Evidence, PublishSteps, NoState, Codes
<1> QED
  BY <1>1, <1>2, <1>3, <1>4, <1>5, <1>6, <1>7

\* RemoveTimesOut preserves the invariant.
LEMMA RemoveTimesOutKeeps == IInv /\ RemoveTimesOut => IInv'
PROOF
<1> SUFFICES ASSUME IInv, RemoveTimesOut PROVE IInv'
  OBVIOUS
<1> USE DEF IInv, RemoveTimesOut, Exit, world, progress, verdict, artifacts, Unset, Interrupted
<1>1. TypeOK'
  BY DEF TypeOK, Things, Containers, Codes, Steps, TrySteps, PublishSteps, States, NoState, Statuses
<1>2. BeforeDocker'
  BY DEF BeforeDocker, Gone, TrySteps, PublishSteps
<1>3. TryKnown'
  BY DEF TryKnown, BeforeDocker, Gone, Known, TrySteps, PublishSteps
<1>4. CleanupKnown'
  BY DEF CleanupKnown, Known, Managed, TrySteps, TryKnown, BeforeDocker, Gone, PublishSteps
<1>5. Launches'
  BY DEF Launches, Evidence, TrySteps, PublishSteps
<1>6. AboutToPublish'
  BY DEF AboutToPublish, CleanupKnown, Known, Gone, BeforeDocker, PublishSteps
<1>7. Published'
  BY DEF Published, AboutToPublish, ExitIsPublished, BeforeDocker, Gone, Evidence, PublishSteps, NoState, Codes
<1> QED
  BY <1>1, <1>2, <1>3, <1>4, <1>5, <1>6, <1>7

\* CleanedUp preserves the invariant.
LEMMA CleanedUpKeeps == IInv /\ CleanedUp => IInv'
PROOF
<1> SUFFICES ASSUME IInv, CleanedUp PROVE IInv'
  OBVIOUS
<1> USE DEF IInv, CleanedUp, Exit, world, progress, verdict, artifacts, Unset, Interrupted
<1>1. TypeOK'
  BY DEF TypeOK, Things, Containers, Codes, Steps, TrySteps, PublishSteps, States, NoState, Statuses
<1>2. BeforeDocker'
  BY DEF BeforeDocker, Gone, TrySteps, PublishSteps
<1>3. TryKnown'
  BY DEF TryKnown, BeforeDocker, Gone, Known, TrySteps, PublishSteps
<1>4. CleanupKnown'
  BY DEF CleanupKnown, Known, Managed, TrySteps, TryKnown, BeforeDocker, Gone, PublishSteps
<1>5. Launches'
  BY DEF Launches, Evidence, TrySteps, PublishSteps
<1>6. AboutToPublish'
  <2>1. outcome # 2 /\ ~failed => Cleaned
    BY NothingPending DEF CleanupKnown, Known, Cleaned, Astray
  <2>2. outcome' # 2 => Cleaned'
    BY <2>1 DEF Cleaned, StrayProbes
  <2> QED
    BY <2>2 DEF AboutToPublish
<1>7. Published'
  <2>1. coverage = NoState /\ policy = Unset
    BY DEF Published
  <2> QED
    BY <2>1 DEF Published, ExitIsPublished, NoState, Codes, TypeOK
<1> QED
  BY <1>1, <1>2, <1>3, <1>4, <1>5, <1>6, <1>7

\* Publish preserves the invariant.
LEMMA PublishKeeps == IInv /\ Publish => IInv'
PROOF
<1> SUFFICES ASSUME IInv, Publish PROVE IInv'
  OBVIOUS
<1> USE DEF IInv, Publish, Exit, world, progress, verdict, artifacts, Unset, Interrupted
<1>1. TypeOK'
  BY DEF TypeOK, Things, Containers, Codes, Steps, TrySteps, PublishSteps, States, NoState, Statuses
<1>2. BeforeDocker'
  BY DEF BeforeDocker, Gone, TrySteps, PublishSteps
<1>3. TryKnown'
  BY DEF TryKnown, BeforeDocker, Gone, Known, TrySteps, PublishSteps
<1>4. CleanupKnown'
  BY DEF CleanupKnown, Known, Managed, TrySteps, TryKnown, BeforeDocker, Gone, PublishSteps
<1>5. Launches'
  BY DEF Launches, Evidence, TrySteps, PublishSteps
<1>6. AboutToPublish'
  BY DEF AboutToPublish, CleanupKnown, Known, Gone, BeforeDocker, PublishSteps
<1>7. Published'
  <2>1. step \in {"decline", "reject"} => Gone
    BY DEF BeforeDocker
  <2>2. outcome # 2 => Cleaned'
    BY <2>1 DEF AboutToPublish, PublishSteps, Gone, Cleaned, StrayProbes
  <2>3. state = "ran" => step = "publish" /\ outcome \in {0, 1} /\ raised = Unset
    BY DEF AboutToPublish, PublishSteps, TypeOK, Codes
  <2>4. state = "ran" => Evidence' /\ raised' = Unset
    BY <2>3 DEF Launches, Evidence
  <2>5. ExitIsPublished'
    BY DEF ExitIsPublished, AboutToPublish, PublishSteps
  <2> QED
    BY <2>2, <2>4, <2>5 DEF Published
<1> QED
  BY <1>1, <1>2, <1>3, <1>4, <1>5, <1>6, <1>7

\* PublishFails preserves the invariant.
LEMMA PublishFailsKeeps == IInv /\ PublishFails => IInv'
PROOF
<1> SUFFICES ASSUME IInv, PublishFails PROVE IInv'
  OBVIOUS
<1> USE DEF IInv, PublishFails, Exit, world, progress, verdict, artifacts, Unset, Interrupted
<1>1. TypeOK'
  <2>1. CASE step = "decline"
    BY <2>1 DEF TypeOK, Steps, PublishSteps, Codes, States, Statuses
  <2>2. CASE step = "reject"
    BY <2>2 DEF TypeOK, Steps, Codes, Statuses
  <2>3. CASE step = "publish"
    BY <2>3 DEF TypeOK, Steps, Codes, Statuses
  <2> QED
    BY <2>1, <2>2, <2>3 DEF PublishSteps
<1>2. BeforeDocker'
  BY DEF BeforeDocker, Gone, TrySteps, PublishSteps
<1>3. TryKnown'
  BY DEF TryKnown, BeforeDocker, Gone, Known, TrySteps, PublishSteps
<1>4. CleanupKnown'
  BY DEF CleanupKnown, Known, Managed, TrySteps, TryKnown, BeforeDocker, Gone, PublishSteps
<1>5. Launches'
  BY DEF Launches, Evidence, TrySteps, PublishSteps
<1>6. AboutToPublish'
  BY DEF AboutToPublish, CleanupKnown, Known, Gone, BeforeDocker, PublishSteps
<1>7. Published'
  <2>1. step \in {"decline", "reject"} => Gone
    BY DEF BeforeDocker
  <2>2. outcome # 2 => Cleaned'
    BY <2>1 DEF AboutToPublish, PublishSteps, Gone, Cleaned, StrayProbes
  <2>3. policy' \in Codes \ {2} => Cleaned'
    BY <2>2 DEF Published, Cleaned, StrayProbes
  <2>4. state = "ran" => step = "publish" /\ outcome \in {0, 1} /\ raised = Unset
    BY DEF AboutToPublish, PublishSteps, TypeOK, Codes
  <2>5. coverage' = "ran" => step = "publish" /\ Evidence' /\ raised' = Unset
    BY <2>4 DEF Launches, Evidence, Published, PublishSteps, NoState
  <2>6. exit' \in {1, 3, Unset} /\ (step' = "reject" => exit' = Unset) /\ step' \in {"reject", "exited"}
    BY DEF Published, PublishSteps
  <2>7. ExitIsPublished'
    BY <2>6 DEF ExitIsPublished
  <2>8. step' = "reject" => step = "decline"
    BY DEF PublishSteps
  <2> QED
    BY <2>3, <2>5, <2>6, <2>7, <2>8 DEF Published
<1> QED
  BY <1>1, <1>2, <1>3, <1>4, <1>5, <1>6, <1>7

\* InterruptEnd preserves the invariant.
LEMMA InterruptEndKeeps == IInv /\ InterruptEnd => IInv'
PROOF
<1> SUFFICES ASSUME IInv, InterruptEnd PROVE IInv'
  OBVIOUS
<1> USE DEF IInv, InterruptEnd, Exit, world, progress, verdict, artifacts, Unset, Interrupted
<1>1. TypeOK'
  BY DEF TypeOK, Things, Containers, Codes, Steps, TrySteps, PublishSteps, States, NoState, Statuses
<1>2. BeforeDocker'
  BY DEF BeforeDocker, Gone, TrySteps, PublishSteps
<1>3. TryKnown'
  BY DEF TryKnown, BeforeDocker, Gone, Known, TrySteps, PublishSteps
<1>4. CleanupKnown'
  BY DEF CleanupKnown, Known, Managed, TrySteps, TryKnown, BeforeDocker, Gone, PublishSteps
<1>5. Launches'
  BY DEF Launches, Evidence, TrySteps, PublishSteps
<1>6. AboutToPublish'
  BY DEF AboutToPublish, CleanupKnown, Known, Gone, BeforeDocker, PublishSteps
<1>7. Published'
  BY DEF Published, AboutToPublish, ExitIsPublished, BeforeDocker, Gone, Evidence, PublishSteps, NoState, Codes, Astray, StrayProbes, Cleaned, TypeOK
<1> QED
  BY <1>1, <1>2, <1>3, <1>4, <1>5, <1>6, <1>7

\* CreatedLate preserves the invariant.
LEMMA CreatedLateKeeps == IInv /\ CreatedLate => IInv'
PROOF
<1> SUFFICES ASSUME IInv, CreatedLate PROVE IInv'
  OBVIOUS
<1> USE DEF IInv, CreatedLate, world, progress, verdict, artifacts, Unset, Interrupted
<1>1. TypeOK'
  BY DEF TypeOK, Things, Containers, Codes, Steps, TrySteps, PublishSteps, States, NoState, Statuses
<1>2. BeforeDocker'
  BY DEF BeforeDocker, Gone, TrySteps, PublishSteps
<1>3. TryKnown'
  BY DEF TryKnown, BeforeDocker, Gone, Known, TrySteps, PublishSteps, Astray, StrayProbes, Cleaned, TypeOK
<1>4. CleanupKnown'
  BY DEF CleanupKnown, Known, Managed, TrySteps, TryKnown, BeforeDocker, Gone, PublishSteps, Astray, StrayProbes, Cleaned, TypeOK
<1>5. Launches'
  BY DEF Launches, Evidence, TrySteps, PublishSteps
<1>6. AboutToPublish'
  BY DEF AboutToPublish, CleanupKnown, Known, Gone, BeforeDocker, PublishSteps, Astray, StrayProbes, Cleaned, TypeOK
<1>7. Published'
  BY DEF Published, AboutToPublish, ExitIsPublished, BeforeDocker, Gone, Evidence, PublishSteps, NoState, Codes, Astray, StrayProbes, Cleaned, TypeOK
<1> QED
  BY <1>1, <1>2, <1>3, <1>4, <1>5, <1>6, <1>7

\* ContainerRemovesItself preserves the invariant.
LEMMA ContainerRemovesItselfKeeps == IInv /\ ContainerRemovesItself => IInv'
PROOF
<1> SUFFICES ASSUME IInv, ContainerRemovesItself PROVE IInv'
  OBVIOUS
<1> USE DEF IInv, ContainerRemovesItself, world, progress, verdict, artifacts, Unset, Interrupted
<1>1. TypeOK'
  BY DEF TypeOK, Things, Containers, Codes, Steps, TrySteps, PublishSteps, States, NoState, Statuses
<1>2. BeforeDocker'
  BY DEF BeforeDocker, Gone, TrySteps, PublishSteps
<1>3. TryKnown'
  BY DEF TryKnown, BeforeDocker, Gone, Known, TrySteps, PublishSteps, Astray, StrayProbes, Cleaned, TypeOK
<1>4. CleanupKnown'
  BY DEF CleanupKnown, Known, Managed, TrySteps, TryKnown, BeforeDocker, Gone, PublishSteps, Astray, StrayProbes, Cleaned, TypeOK
<1>5. Launches'
  BY DEF Launches, Evidence, TrySteps, PublishSteps
<1>6. AboutToPublish'
  BY DEF AboutToPublish, CleanupKnown, Known, Gone, BeforeDocker, PublishSteps, Astray, StrayProbes, Cleaned, TypeOK
<1>7. Published'
  BY DEF Published, AboutToPublish, ExitIsPublished, BeforeDocker, Gone, Evidence, PublishSteps, NoState, Codes, Astray, StrayProbes, Cleaned, TypeOK
<1> QED
  BY <1>1, <1>2, <1>3, <1>4, <1>5, <1>6, <1>7

\* The invariant holds in every reachable state.
THEOREM RuntimeInvariant == Spec => []IInv
PROOF
<1>1. Init => IInv
  <2> SUFFICES ASSUME Init PROVE IInv
    OBVIOUS
  <2>1. todo \in LaunchQueues /\ todo # <<>>
    BY DEF Init, Modes, LaunchQueues
  <2>2. TypeOK
    <3>1. cleanup \in RemovalQueues
      BY DEF Init, RemovalQueues
    <3>2. step \in Steps /\ outcome \in Codes /\ exit \in Statuses
      BY DEF Init, Steps, Codes, Statuses, Unset
    <3>3. raised \in {1, Interrupted, Unset} /\ policy \in Codes \cup {Unset}
      BY DEF Init, Unset, Interrupted
    <3>4. runner \in Runners /\ failed \in BOOLEAN /\ probes \in Nat
      BY DEF Init
    <3>5. /\ docker \subseteq Things /\ late \subseteq Things /\ expected \subseteq Things
          /\ private \subseteq {"directory", "plan", "report"}
          /\ validated \subseteq {"scanner", "injection"}
      BY DEF Init
    <3>6. state \in States \cup {NoState} /\ coverage \in States \cup {NoState}
      BY DEF Init
    <3> QED
      BY <2>1, <3>1, <3>2, <3>3, <3>4, <3>5, <3>6 DEF TypeOK
  <2>3. Pending(todo) \subseteq Scanners(runner)
    <3>1. /\ Pending(<<"scanner">>) = {"scanner"} /\ Pending(<<"injection">>) = {"injection"}
          /\ Pending(<<"scanner", "injection">>) = {"scanner", "injection"}
      BY DEF Pending
    <3> QED
      BY <3>1 DEF Init, Modes, Scanners
  <2>4. Launches
    BY <2>1, <2>3 DEF Init, Launches
  <2>5. BeforeDocker /\ TryKnown /\ CleanupKnown /\ AboutToPublish
    BY DEF Init, BeforeDocker, Gone, TryKnown, TrySteps, CleanupKnown, Known, AboutToPublish, Unset
  <2>6. Published
    BY DEF Init, Published, ExitIsPublished, NoState, Codes, Unset
  <2> QED
    BY <2>2, <2>4, <2>5, <2>6 DEF IInv
<1>2. IInv /\ [Next]_vars => IInv'
  <2> SUFFICES ASSUME IInv, [Next]_vars PROVE IInv'
    OBVIOUS
  <2>1. CASE UNCHANGED vars
    BY <2>1 DEF vars, world, progress, verdict, artifacts, IInv, TypeOK, BeforeDocker, Gone, TryKnown,
          Known, CleanupKnown, Managed, Launches, Evidence, AboutToPublish, Published, ExitIsPublished,
          Pending, Astray, StrayProbes, Cleaned
  <2>2. CASE Script
    BY <2>2, DeclineKeeps, RejectKeeps, ConfigUnreadableKeeps, AcceptKeeps, DockerMissingKeeps, DockerFoundKeeps, PullImagesKeeps, InspectUserKeeps, CreateNetworkKeeps, StartTargetKeeps, ProbeKeeps, InspectTargetKeeps, WaitKeeps, PrepareWorkspaceKeeps, RunScannerKeeps, NormalizeKeeps, EvaluateKeeps, InterruptTryKeeps, DiscardKeeps, RemoveNextKeeps, RemoveTimesOutKeeps, CleanedUpKeeps, PublishKeeps, PublishFailsKeeps, InterruptEndKeeps DEF Script
  <2>3. CASE Daemon
    BY <2>3, CreatedLateKeeps, ContainerRemovesItselfKeeps DEF Daemon
  <2> QED
    BY <2>1, <2>2, <2>3 DEF Next
<1> QED
  BY <1>1, <1>2, PTL DEF Spec

\* Every variable of the script keeps to its range.
THEOREM RuntimeTyping == Spec => []TypeOK
PROOF
<1>1. IInv => TypeOK
  BY DEF IInv
<1> QED
  BY <1>1, RuntimeInvariant, PTL

\* A published result other than a tool failure means that docker holds, and
\* will hold, nothing of the invocation, and that no private file is left.
THEOREM OnlyToolFailuresLeaveThingsHolds == Spec => []OnlyToolFailuresLeaveThings
PROOF
<1>1. IInv => OnlyToolFailuresLeaveThings
  BY DEF IInv, Published, Cleaned, OnlyToolFailuresLeaveThings
<1> QED
  BY <1>1, RuntimeInvariant, PTL

\* Coverage "ran" means that every launch was made and its report validated.
THEOREM RanIsEvidencedHolds == Spec => []RanIsEvidenced
PROOF
<1>1. IInv => RanIsEvidenced
  BY DEF IInv, Published, Evidence, RanIsEvidenced
<1> QED
  BY <1>1, RuntimeInvariant, PTL

\* Exit statuses 0 and 2 come with artifacts that say the same.
THEOREM ExitIsPublishedHolds == Spec => []ExitIsPublished
PROOF
<1>1. IInv => ExitIsPublished
  BY DEF IInv, Published
<1> QED
  BY <1>1, RuntimeInvariant, PTL

-----------------------------------------------------------------------------
(* The script stops: a bound on the steps that it has left, which no step   *)
(* of the daemon changes.                                                   *)

Ahead ==
    [configure |-> 19, docker |-> 18, pull |-> 17, user |-> 16, network |-> 15, target |-> 14,
     probe |-> 13, inspect |-> 15, wait |-> 14, workspace |-> 13, scan |-> 8, normalize |-> 7,
     evaluate |-> 8, discard |-> 7, cleanup |-> 2, decline |-> 2, reject |-> 1, publish |-> 1,
     exited |-> 0]
BeforeReady == {"configure", "docker", "pull", "user", "network", "target", "probe", "inspect", "wait"}

StepsLeft ==
    Ahead[step] + (IF step \in BeforeReady THEN 3 * (MaxProbes + 1 - probes) ELSE 0)
                + (IF step \in {"scan", "normalize"} THEN 2 * Len(todo) ELSE 0)
                + (IF step = "cleanup" THEN Len(cleanup) ELSE 0)

\* The clock of the readiness loop.
ProbesBounded ==
    /\ step \in BeforeReady \ {"probe", "inspect", "wait"} => probes = 0
    /\ step = "probe" => probes <= MaxProbes
    /\ probes <= MaxProbes + 1

StepCounts == StepsLeft' <= StepsLeft /\ (Script => StepsLeft' < StepsLeft)
StepsBounded == StepsLeft \in 0..22 + 3 * MaxProbes

\* What that is at each step.
StepsLeftAre ==
    LET rounds == 3 * (MaxProbes + 1 - probes) IN
    /\ step = "configure" => StepsLeft = 19 + rounds
    /\ step = "docker" => StepsLeft = 18 + rounds
    /\ step = "pull" => StepsLeft = 17 + rounds
    /\ step = "user" => StepsLeft = 16 + rounds
    /\ step = "network" => StepsLeft = 15 + rounds
    /\ step = "target" => StepsLeft = 14 + rounds
    /\ step = "probe" => StepsLeft = 13 + rounds
    /\ step = "inspect" => StepsLeft = 15 + rounds
    /\ step = "wait" => StepsLeft = 14 + rounds
    /\ step = "workspace" => StepsLeft = 13
    /\ step = "scan" => StepsLeft = 8 + 2 * Len(todo)
    /\ step = "normalize" => StepsLeft = 7 + 2 * Len(todo)
    /\ step = "evaluate" => StepsLeft = 8
    /\ step = "discard" => StepsLeft = 7
    /\ step = "cleanup" => StepsLeft = 2 + Len(cleanup)
    /\ step = "decline" => StepsLeft = 2
    /\ step \in {"reject", "publish"} => StepsLeft = 1
    /\ step = "exited" => StepsLeft = 0

LEMMA QueuesAreLists ==
    /\ \A q \in LaunchQueues : q \in Seq({"scanner", "injection"}) /\ Len(q) \in 0..2
    /\ \A q \in RemovalQueues : q \in Seq(Things) /\ Len(q) \in 0..4
<1>1. ASSUME NEW q \in LaunchQueues PROVE q \in Seq({"scanner", "injection"}) /\ Len(q) \in 0..2
  <2>1. q = <<>> \/ q = <<"scanner">> \/ q = <<"injection">> \/ q = <<"scanner", "injection">>
    BY DEF LaunchQueues
  <2>2. CASE q = <<>>
    BY <2>2
  <2>3. CASE q = <<"scanner">>
    BY <2>3
  <2>4. CASE q = <<"injection">>
    BY <2>4
  <2>5. CASE q = <<"scanner", "injection">>
    BY <2>5
  <2>6. QED
    BY <2>1, <2>2, <2>3, <2>4, <2>5
<1>2. ASSUME NEW q \in RemovalQueues PROVE q \in Seq(Things) /\ Len(q) \in 0..4
  <2>1. "scanner" \in Things /\ "injection" \in Things /\ "target" \in Things /\ "network" \in Things
    BY DEF Things, Containers
  <2>2. \/ q = <<>> \/ q = <<"network">> \/ q = <<"target", "network">>
        \/ q = <<"injection", "target", "network">> \/ q = <<"scanner", "target", "network">>
        \/ q = <<"scanner", "injection", "target", "network">>
    BY DEF RemovalQueues
  <2>3. CASE q = <<>>
    BY <2>3
  <2>4. CASE q = <<"network">>
    BY <2>1, <2>4
  <2>5. CASE q = <<"target", "network">>
    BY <2>1, <2>5
  <2>6. CASE q = <<"injection", "target", "network">>
    BY <2>1, <2>6
  <2>7. CASE q = <<"scanner", "target", "network">>
    BY <2>1, <2>7
  <2>8. CASE q = <<"scanner", "injection", "target", "network">>
    BY <2>1, <2>8
  <2>9. QED
    BY <2>2, <2>3, <2>4, <2>5, <2>6, <2>7, <2>8
<1>3. QED
  BY <1>1, <1>2

LEMMA StepsAre == TypeOK => StepsLeftAre
<1> SUFFICES ASSUME TypeOK PROVE StepsLeftAre
  OBVIOUS
<1> DEFINE rounds == 3 * (MaxProbes + 1 - probes)
<1>1. rounds \in Int /\ Len(todo) \in Nat /\ Len(cleanup) \in Nat
  <2>1. probes \in Nat /\ todo \in LaunchQueues /\ cleanup \in RemovalQueues
    BY DEF TypeOK
  <2>2. rounds \in Int
    BY <2>1, MaxProbesAssumption
  <2>3. Len(todo) \in Nat /\ Len(cleanup) \in Nat
    BY <2>1, QueuesAreLists
  <2>4. QED
    BY <2>2, <2>3
<1>2. StepsLeft = Ahead[step] + (IF step \in BeforeReady THEN rounds ELSE 0)
                  + (IF step \in {"scan", "normalize"} THEN 2 * Len(todo) ELSE 0)
                  + (IF step = "cleanup" THEN Len(cleanup) ELSE 0)
  BY DEF StepsLeft
<1> HIDE DEF rounds
<1>3. /\ Ahead["configure"] = 19 /\ Ahead["docker"] = 18 /\ Ahead["pull"] = 17 /\ Ahead["user"] = 16
      /\ Ahead["network"] = 15 /\ Ahead["target"] = 14 /\ Ahead["probe"] = 13 /\ Ahead["inspect"] = 15
      /\ Ahead["wait"] = 14 /\ Ahead["workspace"] = 13 /\ Ahead["scan"] = 8 /\ Ahead["normalize"] = 7
      /\ Ahead["evaluate"] = 8 /\ Ahead["discard"] = 7 /\ Ahead["cleanup"] = 2 /\ Ahead["decline"] = 2
      /\ Ahead["reject"] = 1 /\ Ahead["publish"] = 1 /\ Ahead["exited"] = 0
  BY DEF Ahead
<1>4. step \in BeforeReady => StepsLeft = Ahead[step] + rounds
  BY <1>1, <1>2, <1>3 DEF BeforeReady
<1>5. step \in {"scan", "normalize"} => StepsLeft = Ahead[step] + 2 * Len(todo)
  BY <1>1, <1>2, <1>3 DEF BeforeReady
<1>6. step = "cleanup" => StepsLeft = Ahead[step] + Len(cleanup)
  BY <1>1, <1>2, <1>3 DEF BeforeReady
<1>7. step \in {"workspace", "evaluate", "discard", "decline", "reject", "publish", "exited"}
        => StepsLeft = Ahead[step]
  BY <1>1, <1>2, <1>3 DEF BeforeReady
<1>8. QED
  BY <1>3, <1>4, <1>5, <1>6, <1>7 DEF StepsLeftAre, BeforeReady, rounds

LEMMA QueueLengths ==
    ASSUME TypeOK
    PROVE  /\ Len(todo) \in 0..2 /\ Len(cleanup) \in 0..4
           /\ todo # <<>> => Len(Tail(todo)) = Len(todo) - 1 /\ Len(todo) > 0
           /\ todo # <<>> /\ Tail(todo) # <<>> => Len(todo) = 2
           /\ cleanup # <<>> => Len(Tail(cleanup)) = Len(cleanup) - 1 /\ Len(cleanup) > 0
<1>1. todo \in Seq({"scanner", "injection"}) /\ Len(todo) \in 0..2
  BY QueuesAreLists DEF TypeOK
<1>2. cleanup \in Seq(Things) /\ Len(cleanup) \in 0..4
  BY QueuesAreLists DEF TypeOK
<1>3. todo # <<>> => Len(Tail(todo)) = Len(todo) - 1 /\ Len(todo) > 0
  BY <1>1
<1>4. cleanup # <<>> => Len(Tail(cleanup)) = Len(cleanup) - 1 /\ Len(cleanup) > 0
  BY <1>2
<1>5. todo # <<>> /\ Tail(todo) # <<>> => Len(todo) = 2
  <2> SUFFICES ASSUME todo # <<>>, Tail(todo) # <<>> PROVE Len(todo) = 2
    OBVIOUS
  <2>1. Tail(todo) \in Seq({"scanner", "injection"})
    BY <1>1
  <2>2. Len(Tail(todo)) > 0
    BY <2>1
  <2>3. QED
    BY <1>1, <1>3, <2>2
<1>6. QED
  BY <1>1, <1>2, <1>3, <1>4, <1>5

LEMMA BoundedSteps == TypeOK /\ ProbesBounded => StepsBounded
<1> SUFFICES ASSUME TypeOK, ProbesBounded PROVE StepsBounded
  OBVIOUS
<1>1. StepsLeftAre
  BY StepsAre
<1>2. /\ probes \in Nat /\ MaxProbes \in Nat /\ probes <= MaxProbes + 1
      /\ Len(todo) \in 0..2 /\ Len(cleanup) \in 0..4
  BY QueueLengths, MaxProbesAssumption DEF TypeOK, ProbesBounded
<1>3. step \in BeforeReady => StepsLeft \in 0..22 + 3 * MaxProbes
  BY <1>1, <1>2 DEF StepsLeftAre, BeforeReady
<1>4. ASSUME step \in Steps \ BeforeReady PROVE StepsLeft \in 0..22 + 3 * MaxProbes
  <2>1. CASE step = "scan" \/ step = "normalize"
    <3>1. PICK n \in 0..2 : n = Len(todo)
      BY <1>2
    <3>2. StepsLeft = 8 + 2 * n \/ StepsLeft = 7 + 2 * n
      BY <1>1, <2>1, <3>1 DEF StepsLeftAre
    <3>3. QED
      BY <1>2, <3>2
  <2>2. CASE step = "cleanup"
    <3>1. PICK n \in 0..4 : n = Len(cleanup)
      BY <1>2
    <3>2. StepsLeft = 2 + n
      BY <1>1, <2>2, <3>1 DEF StepsLeftAre
    <3>3. QED
      BY <1>2, <3>2
  <2>3. CASE step \in {"workspace", "evaluate", "discard", "decline", "reject", "publish", "exited"}
    <3>1. StepsLeft \in 0..13
      BY <1>1, <2>3 DEF StepsLeftAre
    <3>2. QED
      BY <1>2, <3>1
  <2>4. QED
    BY <1>4, <2>1, <2>2, <2>3 DEF BeforeReady, Steps, TrySteps, PublishSteps
<1>5. QED
  BY <1>3, <1>4 DEF StepsBounded, TypeOK

\* The probes are counted up to the deadline.
LEMMA ProbesKept == ASSUME IInv, ProbesBounded, [Next]_vars PROVE ProbesBounded'
<1> USE MaxProbesAssumption DEF ProbesBounded, BeforeReady
<1>0. probes \in Nat
  BY DEF IInv, TypeOK
<1>1. CASE UNCHANGED <<step, probes>>
  BY <1>1
<1>2. CASE UNCHANGED probes /\ step' \notin BeforeReady
  BY <1>0, <1>2
<1>3. ASSUME Decline \/ Reject \/ Accept \/ DockerMissing \/ DockerFound PROVE ProbesBounded'
  BY <1>0, <1>3 DEF Decline, Reject, Accept, DockerMissing, DockerFound, Prepare, progress
<1>4. ASSUME PullImages \/ InspectUser PROVE ProbesBounded'
  BY <1>0, <1>4 DEF PullImages, InspectUser, Goto, Fail, progress
<1>5. ASSUME CreateNetwork \/ StartTarget PROVE ProbesBounded'
  BY <1>0, <1>5 DEF CreateNetwork, StartTarget, Goto, Fail, progress
<1>6. ASSUME Probe PROVE ProbesBounded'
  BY <1>0, <1>6 DEF Probe, Goto, Fail
<1>7. ASSUME InspectTarget \/ Wait PROVE ProbesBounded'
  BY <1>0, <1>7 DEF InspectTarget, Wait, Goto, Fail, progress
<1>8. ASSUME ConfigUnreadable \/ RemoveTimesOut \/ Publish \/ InterruptEnd \/ InterruptTry
      PROVE  ProbesBounded'
  BY <1>2, <1>8 DEF ConfigUnreadable, RemoveTimesOut, Publish, InterruptEnd, InterruptTry, Exit, progress
<1>9. ASSUME PrepareWorkspace \/ RunScanner \/ Evaluate PROVE ProbesBounded'
  BY <1>2, <1>9 DEF PrepareWorkspace, RunScanner, Evaluate, Goto, Fail, progress
<1>10. ASSUME Normalize PROVE ProbesBounded'
  BY <1>2, <1>10 DEF Normalize, Goto, Fail
<1>11. ASSUME Discard \/ CleanedUp PROVE ProbesBounded'
  BY <1>2, <1>11 DEF Discard, CleanedUp, Exit, progress
<1>12. ASSUME PublishFails PROVE ProbesBounded'
  <2>1. UNCHANGED probes /\ step' \in {"reject", "exited"}
    BY <1>12 DEF PublishFails, PublishSteps, Exit, progress
  <2>2. QED
    BY <1>2, <2>1
<1>13. ASSUME RemoveNext \/ Daemon \/ UNCHANGED vars PROVE ProbesBounded'
  BY <1>1, <1>13 DEF RemoveNext, Daemon, CreatedLate, ContainerRemovesItself, vars, progress
<1> QED
  BY <1>3, <1>4, <1>5, <1>6, <1>7, <1>8, <1>9, <1>10, <1>11, <1>12, <1>13 DEF Next, Script

LEMMA StepsCounted == ASSUME IInv, IInv', ProbesBounded, ProbesBounded', [Next]_vars PROVE StepCounts
<1>1. StepsLeftAre /\ TypeOK
  BY StepsAre DEF IInv
<1>2. StepsLeftAre'
  <2>1. (TypeOK => StepsLeftAre)'
    BY StepsAre, PTL
  <2>2. QED
    BY <2>1 DEF IInv
<1>3. /\ probes \in Nat /\ MaxProbes \in Nat /\ probes <= MaxProbes + 1
      /\ Len(todo) \in 0..2 /\ Len(cleanup) \in 0..4
  BY <1>1, QueueLengths, MaxProbesAssumption DEF TypeOK, ProbesBounded
<1> USE DEF StepsLeftAre
<1>4. ASSUME Decline \/ Reject \/ Accept \/ DockerMissing \/ DockerFound PROVE StepsLeft' < StepsLeft
  BY <1>1, <1>2, <1>3, <1>4 DEF Decline, Reject, Accept, DockerMissing, DockerFound, Prepare, progress
<1>5. ASSUME PullImages \/ InspectUser PROVE StepsLeft' < StepsLeft
  BY <1>1, <1>2, <1>3, <1>5 DEF PullImages, InspectUser, Goto, Fail, progress
<1>6. ASSUME CreateNetwork \/ StartTarget PROVE StepsLeft' < StepsLeft
  BY <1>1, <1>2, <1>3, <1>6 DEF CreateNetwork, StartTarget, Goto, Fail, progress
<1>7. ASSUME Probe PROVE StepsLeft' < StepsLeft
  <2>1. step = "probe" /\ probes <= MaxProbes /\ probes' = probes + 1 /\ step' \in {"workspace", "inspect", "discard"}
    BY <1>7 DEF Probe, Goto, Fail, ProbesBounded
  <2>2. QED
    BY <1>1, <1>2, <1>3, <2>1
<1>8. ASSUME InspectTarget \/ Wait PROVE StepsLeft' < StepsLeft
  BY <1>1, <1>2, <1>3, <1>8 DEF InspectTarget, Wait, Goto, Fail, progress
<1>9. ASSUME InterruptTry PROVE StepsLeft' < StepsLeft
  <2>1. step \in TrySteps /\ step' = "discard"
    BY <1>9 DEF InterruptTry
  <2>2. step \in {"scan", "normalize"} => Len(todo) > 0
    BY <1>1, QueueLengths DEF IInv, Launches
  <2>3. QED
    BY <1>1, <1>2, <1>3, <2>1, <2>2 DEF TrySteps
<1>10. ASSUME ConfigUnreadable \/ RemoveTimesOut \/ Publish \/ InterruptEnd PROVE StepsLeft' < StepsLeft
  BY <1>1, <1>2, <1>3, <1>10 DEF ConfigUnreadable, RemoveTimesOut, Publish, InterruptEnd, Exit, PublishSteps
<1>11. ASSUME PrepareWorkspace \/ RunScanner \/ Evaluate PROVE StepsLeft' < StepsLeft
  <2>1. \/ step = "workspace" /\ step' \in {"scan", "discard"}
        \/ step = "scan" /\ step' \in {"normalize", "discard"}
        \/ step = "evaluate" /\ step' = "discard"
    BY <1>11 DEF PrepareWorkspace, RunScanner, Evaluate, Goto, Fail
  <2>2. UNCHANGED todo
    BY <1>11 DEF PrepareWorkspace, RunScanner, Evaluate, progress
  <2>3. CASE step = "workspace"
    <3>1. StepsLeft = 13
      BY <1>1, <2>3
    <3>2. step' = "scan" \/ step' = "discard"
      BY <2>1, <2>3
    <3>3. CASE step' = "scan"
      <4>1. PICK n \in 0..2 : n = Len(todo')
        BY <1>3, <2>2
      <4>2. StepsLeft' = 8 + 2 * n
        BY <1>2, <3>3, <4>1
      <4>3. QED
        BY <3>1, <4>2
    <3>4. CASE step' = "discard"
      <4>1. StepsLeft' = 7
        BY <1>2, <3>4
      <4>2. QED
        BY <3>1, <4>1
    <3>5. QED
      BY <3>2, <3>3, <3>4
  <2>4. CASE step = "scan"
    <3>1. StepsLeft = 8 + 2 * Len(todo)
      BY <1>1, <2>4
    <3>2. StepsLeft' = 7 \/ StepsLeft' = 7 + 2 * Len(todo')
      BY <1>2, <2>1, <2>4
    <3>3. QED
      BY <1>3, <2>2, <3>1, <3>2
  <2>5. CASE step = "evaluate"
    <3>1. StepsLeft = 8 /\ StepsLeft' = 7
      BY <1>1, <1>2, <2>1, <2>5
    <3>2. QED
      BY <3>1
  <2>6. QED
    BY <2>1, <2>3, <2>4, <2>5
<1>12. ASSUME Normalize PROVE StepsLeft' < StepsLeft
  <2>1. todo # <<>> /\ step = "normalize"
    BY <1>12 DEF Normalize, IInv, Launches
  <2>2. CASE step' = "discard"
    BY <1>1, <1>2, <1>3, <2>1, <2>2, QueueLengths
  <2>3. CASE step' # "discard"
    <3>1. todo' = Tail(todo) /\ step' = IF Tail(todo) = <<>> THEN "evaluate" ELSE "scan"
      BY <1>12, <2>3 DEF Normalize, Goto, Fail
    <3>2. QED
      BY <1>1, <1>2, <1>3, <2>1, <3>1, QueueLengths
  <2>4. QED
    BY <2>2, <2>3
<1>13. ASSUME Discard PROVE StepsLeft' < StepsLeft
  <2>1. step = "discard" /\ step' \in {"exited", "cleanup"}
    BY <1>13 DEF Discard, Exit
  <2>2. Len(cleanup') \in 0..4
    BY QueuesAreLists DEF IInv, TypeOK
  <2>3. StepsLeft = 7
    BY <1>1, <2>1
  <2>4. PICK n \in 0..4 : n = Len(cleanup')
    BY <2>2
  <2>5. StepsLeft' = 0 \/ StepsLeft' = 2 + n
    BY <1>2, <2>1, <2>4
  <2>6. QED
    BY <2>3, <2>5
<1>14. ASSUME RemoveNext PROVE StepsLeft' < StepsLeft
  BY <1>1, <1>2, <1>3, <1>14, QueueLengths DEF RemoveNext
<1>15. ASSUME CleanedUp PROVE StepsLeft' < StepsLeft
  BY <1>1, <1>2, <1>3, <1>15 DEF CleanedUp, Exit
<1>16. ASSUME PublishFails PROVE StepsLeft' < StepsLeft
  <2>1. \/ step = "decline" /\ step' = "reject"
        \/ step \in {"reject", "publish"} /\ step' = "exited"
    BY <1>16 DEF PublishFails, PublishSteps, Exit
  <2>2. QED
    BY <1>1, <1>2, <2>1
<1>17. ASSUME Daemon \/ UNCHANGED vars PROVE StepsLeft' = StepsLeft
  BY <1>17 DEF Daemon, CreatedLate, ContainerRemovesItself, vars, progress, verdict, StepsLeft
<1>18. StepsLeft \in Int /\ StepsLeft' \in Int
  <2>1. (TypeOK /\ ProbesBounded => StepsBounded)'
    BY BoundedSteps, PTL
  <2>2. StepsBounded /\ StepsBounded'
    BY <1>1, <2>1, BoundedSteps DEF IInv
  <2>3. QED
    BY <1>3, <2>2 DEF StepsBounded
<1>19. QED
  BY <1>4, <1>5, <1>6, <1>7, <1>8, <1>9, <1>10, <1>11, <1>12, <1>13, <1>14, <1>15, <1>16, <1>17, <1>18
     DEF StepCounts, Next, Script

\* Whatever the clients and the daemon do, every step that the script takes brings
\* it nearer to its end, which is at most 22 + 3 * MaxProbes steps away.
THEOREM ScriptIsBounded == Spec => []StepsBounded /\ [][StepCounts]_vars
<1>1. Init => ProbesBounded
  BY MaxProbesAssumption DEF Init, ProbesBounded, BeforeReady
<1>2. IInv /\ ProbesBounded /\ [Next]_vars => ProbesBounded'
  BY ProbesKept
<1>3. IInv /\ ProbesBounded => StepsBounded
  BY BoundedSteps DEF IInv
<1>4. IInv /\ IInv' /\ ProbesBounded /\ ProbesBounded' /\ [Next]_vars => [StepCounts]_vars
  BY StepsCounted
<1>5. QED
  BY <1>1, <1>2, <1>3, <1>4, RuntimeInvariant, PTL DEF Spec

-----------------------------------------------------------------------------
(* The comparison of two invocations.                                       *)

\* A run that the comparison may be given: at its exit, an excused or a clean
\* process has published the same, completely.
Comparable(run) ==
    /\ run.state \in States \cup {NoState} /\ run.exit \in Statuses
    /\ run.complete \in BOOLEAN
    /\ run.exit = 0 => run.policy = 0 /\ run.complete

LEMMA InvocationIsComparable ==
    ASSUME TypeOK, ExitIsPublished, NEW complete \in Completeness
    PROVE  Comparable(Invocation(complete))
<1>1. ASSUME exit = 0 PROVE policy = 0 /\ Completeness = {TRUE}
  <2>1. policy = 0 /\ coverage # NoState
    BY <1>1 DEF ExitIsPublished, NoState
  <2>2. ~(coverage = NoState \/ policy = Unset) /\ exit = policy
    BY <1>1, <2>1 DEF Unset
  <2>3. QED
    BY <2>1, <2>2 DEF Completeness
<1>2. complete \in BOOLEAN
  BY DEF Completeness
<1>3. QED
  BY <1>1, <1>2 DEF Comparable, Invocation, TypeOK

LEMMA OthersAreComparable == ASSUME NEW run \in OtherRuns PROVE Comparable(run)
<1>1. CASE \E e \in Codes, s \in States :
             run = [exit |-> e, state |-> s, policy |-> e, complete |-> TRUE]
  BY <1>1 DEF Comparable, Statuses
<1>2. CASE run = [exit |-> 1, state |-> NoState, policy |-> Unset, complete |-> FALSE]
  BY <1>2 DEF Comparable, Statuses, Codes
<1>3. CASE run = [exit |-> Interrupted, state |-> NoState, policy |-> Unset, complete |-> FALSE]
  BY <1>3 DEF Comparable, Statuses, Interrupted
<1>4. QED
  BY <1>1, <1>2, <1>3 DEF OtherRuns

\* What a run that meets the contract can be.
LEMMA ContractFacts ==
    ASSUME NEW run, MeetsContract(run)
    PROVE  /\ run.policy = run.exit /\ run.complete
           /\ run.state \in States
           /\ run.state = "ran" => run.exit \in {0, 1}
           /\ run.state \in {"not_applicable", "not_configured"} => run.exit = 0
           /\ run.state = "tool_error" => run.exit \in {2, 3}
<1>1. run.state \in DOMAIN ExpectedExits /\ run.exit \in ExpectedExits[run.state]
  BY DEF MeetsContract
<1>2. DOMAIN ExpectedExits = States
  BY DEF ExpectedExits, States
<1>3. QED
  BY <1>1, <1>2 DEF MeetsContract, ExpectedExits

LEMMA CleanMeetsContract ==
    ASSUME NEW run, Comparable(run), Clean(run)
    PROVE  MeetsContract(run)
  BY DEF Comparable, Clean, MeetsContract, ExpectedExits

\* The combined result, by the states of two runs that meet the contract.
LEMMA CombinedFacts ==
    ASSUME NEW unauth, NEW auth, NEW result, result = Combined(unauth, auth)
    PROVE  \/ ~(MeetsContract(unauth) /\ MeetsContract(auth)) /\ result = Unpublished
           \/ /\ MeetsContract(unauth) /\ MeetsContract(auth)
              /\ \/ /\ unauth.state = "ran" /\ auth.state = "ran" /\ result.state = "ran"
                    /\ result.code = Worse(unauth.exit, auth.exit)
                 \/ result.state = "tool_error" /\ result.code \in {2, 3}
                 \/ /\ auth.state \in {"not_applicable", "not_configured"}
                    /\ unauth.state # "tool_error"
                    /\ result.state = auth.state /\ result.code = 0
<1>1. CASE ~(MeetsContract(unauth) /\ MeetsContract(auth))
  BY <1>1 DEF Combined
<1>2. CASE MeetsContract(unauth) /\ MeetsContract(auth)
  <2>1. result = Verdict(unauth, auth)
    BY <1>2 DEF Combined
  <2>2. unauth.state \in States /\ auth.state \in States
    BY <1>2, ContractFacts
  <2>3. CASE unauth.state = "ran" /\ auth.state = "ran"
    BY <1>2, <2>1, <2>3 DEF Verdict
  <2>4. CASE "tool_error" \in {auth.state, unauth.state}
    BY <1>2, <2>1, <2>4 DEF Verdict
  <2>5. CASE auth.state = "ran" /\ unauth.state \notin {"ran", "tool_error"}
    BY <1>2, <2>1, <2>5 DEF Verdict
  <2>6. CASE auth.state \in {"not_applicable", "not_configured"} /\ unauth.state # "tool_error"
    BY <1>2, <2>1, <2>6 DEF Verdict
  <2>7. QED
    BY <2>2, <2>3, <2>4, <2>5, <2>6 DEF States
<1>3. QED
  BY <1>1, <1>2

LEMMA WorseOfTwo ==
    ASSUME NEW m \in {0, 1}, NEW n \in {0, 1}
    PROVE  /\ Worse(m, n) \in {0, 1}
           /\ Worse(m, n) = 0 <=> m = 0 /\ n = 0
  BY DEF Worse

\* The result of any two such runs is honest.
LEMMA HonestPair ==
    ASSUME NEW unauth, NEW auth, Comparable(unauth), Comparable(auth)
    PROVE  HonestResult(unauth, auth)
<1> DEFINE result == Combined(unauth, auth)
           violated == {run \in {unauth, auth} : run.exit = 1 /\ run.policy = 1 /\ run.complete}
<1> SUFFICES
        /\ result.code = 0 /\ result.state = "ran" <=> Clean(unauth) /\ Clean(auth)
        /\ result.code = 1 => /\ violated # {}
                              /\ \A run \in {unauth, auth} : Clean(run) \/ run \in violated
        /\ result.code = 0 /\ violated # {} => Excused(auth) /\ result.state = auth.state
        /\ result.code = 0 => Included(unauth, auth) = Sides \/ Excused(auth)
  BY DEF HonestResult
<1>1. CASE ~(MeetsContract(unauth) /\ MeetsContract(auth)) /\ result = Unpublished
  BY <1>1, CleanMeetsContract DEF Unpublished
<1>2. CASE /\ MeetsContract(unauth) /\ MeetsContract(auth)
           /\ unauth.state = "ran" /\ auth.state = "ran" /\ result.state = "ran"
           /\ result.code = Worse(unauth.exit, auth.exit)
  <2>1. /\ unauth.exit \in {0, 1} /\ unauth.policy = unauth.exit /\ unauth.complete
        /\ auth.exit \in {0, 1} /\ auth.policy = auth.exit /\ auth.complete
    BY <1>2, ContractFacts
  <2>2. \A run \in {unauth, auth} : (Clean(run) <=> run.exit = 0) /\ (run \in violated <=> run.exit = 1)
    BY <1>2, <2>1 DEF Clean
  <2>3. result.code \in {0, 1} /\ (result.code = 0 <=> unauth.exit = 0 /\ auth.exit = 0)
    BY <1>2, <2>1, WorseOfTwo
  <2>4. Included(unauth, auth) = Sides
    BY <1>2 DEF Included
  <2>5. violated \subseteq {unauth, auth}
    OBVIOUS
  <2>6. result.code = 0 => violated = {}
    BY <2>2, <2>3, <2>5
  <2>7. result.code = 1 => violated # {}
    BY <2>1, <2>2, <2>3
  <2>8. \A run \in {unauth, auth} : Clean(run) \/ run \in violated
    BY <2>1, <2>2
  <2>9. result.code = 0 /\ result.state = "ran" <=> Clean(unauth) /\ Clean(auth)
    BY <1>2, <2>2, <2>3
  <2>10. QED
    BY <2>4, <2>6, <2>7, <2>8, <2>9
<1>3. CASE /\ MeetsContract(unauth) /\ MeetsContract(auth)
           /\ result.state = "tool_error" /\ result.code \in {2, 3}
  <2>1. ~(unauth.state = "ran" /\ auth.state = "ran")
    <3>1. ASSUME unauth.state = "ran", auth.state = "ran" PROVE result.state = "ran"
      BY <1>3, <3>1 DEF Combined, Verdict
    <3>2. QED
      BY <1>3, <3>1
  <2>2. QED
    BY <1>3, <2>1 DEF Clean
<1>4. CASE /\ MeetsContract(unauth) /\ MeetsContract(auth)
           /\ auth.state \in {"not_applicable", "not_configured"} /\ unauth.state # "tool_error"
           /\ result.state = auth.state /\ result.code = 0
  <2>1. Excused(auth) /\ ~Clean(auth)
    BY <1>4, ContractFacts DEF Excused, Clean
  <2>2. result.state # "ran"
    BY <1>4
  <2>3. QED
    BY <1>4, <2>1, <2>2
<1>5. QED
  BY <1>1, <1>2, <1>3, <1>4, CombinedFacts

\* A comparison is clean exactly if both of its runs are, reports a violation
\* only if one of them published one and none failed, and drops a violation
\* only with an authenticated run that was excused.
THEOREM ComparisonIsHonestHolds == Spec => []ComparisonIsHonest
<1>1. IInv => ComparisonIsHonest
  <2> SUFFICES ASSUME TypeOK, ExitIsPublished, NEW complete \in Completeness, NEW other \in OtherRuns
               PROVE  /\ HonestResult(Invocation(complete), other)
                      /\ HonestResult(other, Invocation(complete))
    BY DEF IInv, Published, ComparisonIsHonest
  <2>1. Comparable(Invocation(complete)) /\ Comparable(other)
    BY InvocationIsComparable, OthersAreComparable
  <2>2. QED
    BY <2>1, HonestPair
<1>2. QED
  BY <1>1, RuntimeInvariant, PTL

-----------------------------------------------------------------------------
(* Induction.  The induction theorems of the library take the property as an*)
(* operator; these take the set of what has it.                             *)

Less == {pair \in Nat \X Nat : pair[1] < pair[2]}

LEMMA LessIsWellFounded == IsWellFoundedOn(Less, Nat)
<1>1. OpToRel(<, Nat) = Less
  BY DEF OpToRel, Less
<1>2. QED
  BY <1>1, NatLessThanWellFounded

LEMMA LeastNatural ==
    ASSUME NEW T \in SUBSET Nat, T # {}
    PROVE  \E least \in T : \A n \in T : ~(n < least)
<1>1. PICK least \in T : \A n \in T : <<n, least>> \notin Less
  BY LessIsWellFounded, WFMin
<1>2. \A n \in T : n < least => <<n, least>> \in Less
  BY DEF Less
<1>3. QED
  BY <1>1, <1>2

LEMMA NaturalInduction ==
    ASSUME NEW S, 0 \in S, \A n \in Nat : n \in S => n + 1 \in S
    PROVE  \A n \in Nat : n \in S
<1> SUFFICES ASSUME Nat \ S # {} PROVE FALSE
  OBVIOUS
<1>1. PICK least \in Nat \ S : \A n \in Nat \ S : ~(n < least)
  BY LeastNatural
<1>2. least - 1 \in Nat /\ least - 1 \in S
  BY <1>1
<1>3. QED
  BY <1>1, <1>2

\* The same up to a bound.
LEMMA BoundedInduction ==
    ASSUME NEW S, NEW m \in Nat, NEW N \in Nat, m \in S,
           \A n \in m..N : n \in S /\ n + 1 \in m..N => n + 1 \in S
    PROVE  \A n \in m..N : n \in S
<1> DEFINE T == {n \in Nat : m + n <= N => m + n \in S}
<1>1. 0 \in T
  OBVIOUS
<1>2. ASSUME NEW n \in Nat, n \in T PROVE n + 1 \in T
  BY <1>2
<1>3. \A n \in Nat : n \in T
  <2> HIDE DEF T
  <2> QED
    BY <1>1, <1>2, NaturalInduction
<1>4. ASSUME NEW n \in m..N PROVE n \in S
  <2>1. n - m \in Nat /\ n - m \in T
    BY <1>3
  <2>2. QED
    BY <2>1
<1>5. QED
  BY <1>4

\* What a loop computes, one round after the other.
LEMMA PrimitiveRecursion ==
    ASSUME NEW D, NEW d \in D, NEW N \in Nat, NEW next \in [1..N -> [D -> D]]
    PROVE  \E g \in [0..N -> D] : g[0] = d /\ \A i \in 1..N : g[i] = next[i][g[i - 1]]
<1> DEFINE Rounds(g, m) == /\ g \in [0..m -> D] /\ g[0] = d
                           /\ \A i \in 1..m : g[i] = next[i][g[i - 1]]
           S == {m \in 0..N : \E g : Rounds(g, m)}
<1>1. 0 \in S
  <2>1. Rounds([i \in 0..0 |-> d], 0)
    OBVIOUS
  <2>2. QED
    <3> HIDE DEF Rounds
    <3>1. QED
      BY <2>1
<1>2. ASSUME NEW m \in 0..N, m \in S, m + 1 \in 0..N PROVE m + 1 \in S
  <2>1. PICK g : Rounds(g, m)
    BY <1>2
  <2> DEFINE h == [i \in 0..m + 1 |-> IF i = m + 1 THEN next[m + 1][g[m]] ELSE g[i]]
  <2>2. \A i \in 0..m : h[i] = g[i] /\ h[i] \in D
    BY <2>1
  <2>3. h[m + 1] = next[m + 1][h[m]] /\ h[m + 1] \in D
    BY <1>2, <2>1
  <2>4. h \in [0..m + 1 -> D]
    <3>1. \A i \in 0..m + 1 : i \in 0..m \/ i = m + 1
      BY <1>2
    <3>2. \A i \in 0..m + 1 : h[i] \in D
      BY <2>2, <2>3, <3>1
    <3> DEFINE e(i) == IF i = m + 1 THEN next[m + 1][g[m]] ELSE g[i]
    <3>3. \A i \in 0..m + 1 : e(i) \in D
      BY <3>2
    <3> HIDE DEF e
    <3>4. [i \in 0..m + 1 |-> e(i)] \in [0..m + 1 -> D]
      BY <3>3
    <3>5. QED
      BY <3>4 DEF e
  <2>5. ASSUME NEW i \in 1..m + 1 PROVE h[i] = next[i][h[i - 1]]
    <3>1. CASE i = m + 1
      BY <2>3, <3>1
    <3>2. CASE i # m + 1
      <4>1. i \in 1..m /\ i \in 0..m /\ i - 1 \in 0..m
        BY <3>2
      <4>2. QED
        BY <2>1, <2>2, <4>1
    <3>3. QED
      BY <3>1, <3>2
  <2>6. Rounds(h, m + 1)
    BY <2>1, <2>2, <2>4, <2>5
  <2>7. QED
    BY <1>2, <2>6
<1>3. \A m \in 0..N : m \in S
  <2> HIDE DEF S
  <2>1. QED
    BY <1>1, <1>2, BoundedInduction
<1>4. QED
  BY <1>3

-----------------------------------------------------------------------------
(* Finite sets and sequences.                                               *)

LEMMA ImageIsFinite ==
    ASSUME NEW S, NEW T, NEW f \in [S -> T], IsFiniteSet(S), \A t \in T : \E x \in S : f[x] = t
    PROVE  /\ IsFiniteSet(T)
           /\ Cardinality(T) \in Nat /\ Cardinality(S) \in Nat
           /\ Cardinality(T) <= Cardinality(S)
<1>1. f \in Surjection(S, T)
  BY DEF Surjection
<1>2. QED
  BY <1>1, FS_Surjection, FS_CardinalityType

LEMMA SetToSeqFacts ==
    ASSUME NEW S, IsFiniteSet(S)
    PROVE  /\ SetToSeq(S) \in [1..Cardinality(S) -> S]
           /\ SetToSeq(S) \in Seq(S)
           /\ Cardinality(S) \in Nat
           /\ Len(SetToSeq(S)) = Cardinality(S)
           /\ DOMAIN SetToSeq(S) = 1..Cardinality(S)
           /\ ToSet(SetToSeq(S)) = S
           /\ \A i, j \in 1..Cardinality(S) : SetToSeq(S)[i] = SetToSeq(S)[j] => i = j
<1> DEFINE N == Cardinality(S)
           s == SetToSeq(S)
<1>1. N \in Nat /\ ExistsBijection(1..N, S)
  BY FS_CardinalityType
<1>2. PICK f \in [1..N -> S] : f \in Injection(1..N, S)
  BY <1>1 DEF ExistsBijection, Bijection, Injection
<1>3. IsInjective(f)
  BY <1>2 DEF Injection, IsInjective
<1>4. s \in [1..N -> S] /\ IsInjective(s)
  BY <1>2, <1>3 DEF SetToSeq
<1> HIDE DEF s
<1>5. s \in Injection(1..N, S)
  BY <1>4 DEF Injection, IsInjective
<1>6. IsFiniteSet(1..N) /\ Cardinality(1..N) = N
  BY <1>1, FS_Interval
<1>7. s \in Surjection(1..N, S)
  BY <1>5, <1>6, FS_Injection
<1>8. ToSet(s) = S
  BY <1>7, <1>4 DEF ToSet, Surjection
<1>9. s \in Seq(S) /\ Len(s) = N
  BY <1>1, <1>4
<1>10. \A i, j \in 1..N : s[i] = s[j] => i = j
  BY <1>4 DEF IsInjective
<1>11. QED
  BY <1>1, <1>4, <1>8, <1>9, <1>10 DEF s

LEMMA ToSetOfConcat ==
    ASSUME NEW X, NEW s \in Seq(X), NEW t \in Seq(X)
    PROVE  ToSet(s \o t) = ToSet(s) \cup ToSet(t)
<1>1. /\ s \o t \in Seq(X) /\ Len(s \o t) = Len(s) + Len(t)
      /\ \A i \in 1..Len(s) + Len(t) : (s \o t)[i] = IF i <= Len(s) THEN s[i] ELSE t[i - Len(s)]
  BY ConcatProperties
<1>2. /\ DOMAIN (s \o t) = 1..Len(s) + Len(t) /\ DOMAIN s = 1..Len(s) /\ DOMAIN t = 1..Len(t)
      /\ Len(s) \in Nat /\ Len(t) \in Nat
  BY <1>1, LenProperties
<1>3. ASSUME NEW x \in ToSet(s \o t) PROVE x \in ToSet(s) \cup ToSet(t)
  <2>1. PICK i \in 1..Len(s) + Len(t) : x = (s \o t)[i]
    BY <1>2 DEF ToSet
  <2>2. CASE i <= Len(s)
    <3>1. x = s[i] /\ i \in 1..Len(s)
      BY <1>1, <1>2, <2>1, <2>2
    <3>2. QED
      BY <1>2, <3>1 DEF ToSet
  <2>3. CASE ~(i <= Len(s))
    <3>1. x = t[i - Len(s)] /\ i - Len(s) \in 1..Len(t)
      BY <1>1, <1>2, <2>1, <2>3
    <3>2. QED
      BY <1>2, <3>1 DEF ToSet
  <2>4. QED
    BY <2>2, <2>3
<1>4. ASSUME NEW x \in ToSet(s) PROVE x \in ToSet(s \o t)
  <2>1. PICK i \in 1..Len(s) : x = s[i]
    BY <1>2 DEF ToSet
  <2>2. (s \o t)[i] = s[i] /\ i \in 1..Len(s) + Len(t)
    BY <1>1, <1>2
  <2>3. QED
    BY <1>2, <2>1, <2>2 DEF ToSet
<1>5. ASSUME NEW x \in ToSet(t) PROVE x \in ToSet(s \o t)
  <2>1. PICK i \in 1..Len(t) : x = t[i]
    BY <1>2 DEF ToSet
  <2>2. (s \o t)[i + Len(s)] = t[i] /\ i + Len(s) \in 1..Len(s) + Len(t)
    BY <1>1, <1>2
  <2>3. QED
    BY <1>2, <2>1, <2>2 DEF ToSet
<1>6. QED
  BY <1>3, <1>4, <1>5

\* The concatenations of ever more parts are well defined.
Flattening(g, seqs) ==
    g = [i \in 1..Len(seqs) |-> IF i = 1 THEN seqs[i] ELSE g[i - 1] \o seqs[i]]

LEMMA Concatenations ==
    \A X, seqs : \A N \in Nat : seqs \in [1..N -> Seq(X)] => \E g : Flattening(g, seqs)
<1> SUFFICES ASSUME NEW X, NEW seqs, NEW N \in Nat
             PROVE  seqs \in [1..N -> Seq(X)] => \E g : Flattening(g, seqs)
  OBVIOUS
<1>1. ASSUME seqs \in [1..N -> Seq(X)]
      PROVE  \E g : Flattening(g, seqs)
  <2> DEFINE Parts == Seq(X)
             nothing == <<>>
             append == [i \in 1..N |-> [s \in Parts |-> s \o seqs[i]]]
  <2>1. nothing \in Parts /\ append \in [1..N -> [Parts -> Parts]]
    BY <1>1, ConcatProperties, EmptySeq
  <2>2. PICK g \in [0..N -> Parts] : g[0] = nothing /\ \A i \in 1..N : g[i] = append[i][g[i - 1]]
    <3> HIDE DEF append, Parts, nothing
    <3>1. QED
      BY <2>1, PrimitiveRecursion
  <2>3. ASSUME NEW i \in 1..N PROVE g[i] = g[i - 1] \o seqs[i]
    <3>1. i - 1 \in 0..N
      OBVIOUS
    <3>2. g[i - 1] \in Parts
      BY <2>2, <3>1
    <3>3. QED
      BY <2>2, <3>2
  <2> DEFINE h == [i \in 1..N |-> g[i]]
  <2>4. ASSUME NEW i \in 1..N PROVE g[i] = IF i = 1 THEN seqs[i] ELSE h[i - 1] \o seqs[i]
    <3>1. CASE i = 1
      <4>1. g[i - 1] = nothing
        BY <2>2, <3>1
      <4>2. seqs[i] \in Seq(X)
        BY <1>1
      <4>3. QED
        BY <2>3, <3>1, <4>1, <4>2, ConcatEmptySeq
    <3>2. CASE i # 1
      <4>1. i - 1 \in 1..N
        BY <3>2
      <4>2. h[i - 1] = g[i - 1]
        BY <4>1
      <4>3. QED
        BY <2>3, <3>2, <4>2
    <3>3. QED
      BY <3>1, <3>2
  <2>5. h = [i \in 1..N |-> IF i = 1 THEN seqs[i] ELSE h[i - 1] \o seqs[i]]
    <3> DEFINE e(i) == IF i = 1 THEN seqs[i] ELSE h[i - 1] \o seqs[i]
    <3>1. \A i \in 1..N : g[i] = e(i)
      BY <2>4
    <3> HIDE DEF e
    <3>2. [i \in 1..N |-> g[i]] = [i \in 1..N |-> e(i)]
      BY <3>1
    <3>3. QED
      BY <3>2 DEF e
  <2>6. Len(seqs) = N
    BY <1>1
  <2>7. Flattening(h, seqs)
    <3> HIDE DEF h
    <3>1. QED
      BY <2>5, <2>6 DEF Flattening
  <2>8. QED
    BY <2>7
<1>2. QED
  BY <1>1

\* The elements of a flattened sequence are those of its parts.
LEMMA FlattenSeqFacts ==
    ASSUME NEW X, NEW N \in Nat, NEW seqs \in [1..N -> Seq(X)]
    PROVE  /\ FlattenSeq(seqs) \in Seq(X)
           /\ ToSet(FlattenSeq(seqs)) = UNION {ToSet(seqs[i]) : i \in DOMAIN seqs}
<1>1. Len(seqs) = N /\ DOMAIN seqs = 1..N
  OBVIOUS
<1>2. CASE N = 0
  <2>1. FlattenSeq(seqs) = seqs /\ seqs = <<>>
    <3>1. FlattenSeq(seqs) = seqs
      BY <1>1, <1>2 DEF FlattenSeq
    <3>2. seqs \in Seq({}) /\ seqs = <<>>
      BY <1>1, <1>2
    <3>3. QED
      BY <3>1, <3>2
  <2>2. QED
    BY <1>1, <1>2, <2>1, EmptySeq DEF ToSet
<1>3. CASE N # 0
  <2> DEFINE flatten == CHOOSE g : Flattening(g, seqs)
  <2>1. \E g : Flattening(g, seqs)
    BY Concatenations
  <2>2. Flattening(flatten, seqs)
    BY <2>1
  <2>3. FlattenSeq(seqs) = flatten[N]
    BY <1>1, <1>3 DEF FlattenSeq, Flattening
  <2> HIDE DEF flatten
  <2>5. ASSUME NEW i \in 1..N
        PROVE  flatten[i] = IF i = 1 THEN seqs[i] ELSE flatten[i - 1] \o seqs[i]
    BY <1>1, <2>2 DEF Flattening
  <2>7. \A m \in 1..N : /\ flatten[m] \in Seq(X)
                       /\ ToSet(flatten[m]) = UNION {ToSet(seqs[i]) : i \in 1..m}
    <3> DEFINE S == {m \in 1..N : /\ flatten[m] \in Seq(X)
                                  /\ ToSet(flatten[m]) = UNION {ToSet(seqs[i]) : i \in 1..m}}
    <3>1. 1 \in S
      <4>1. flatten[1] = seqs[1]
        BY <1>1, <1>3, <2>5
      <4>2. {ToSet(seqs[i]) : i \in 1..1} = {ToSet(seqs[1])}
        OBVIOUS
      <4>3. QED
        BY <1>1, <1>3, <4>1, <4>2
    <3>2. ASSUME NEW m \in 1..N, m \in S, m + 1 \in 1..N PROVE m + 1 \in S
      <4>0. m + 1 # 1 /\ (m + 1) - 1 = m
        BY <1>1
      <4>1. flatten[m + 1] = flatten[m] \o seqs[m + 1]
        BY <2>5, <3>2, <4>0
      <4>2. /\ flatten[m] \in Seq(X) /\ seqs[m + 1] \in Seq(X)
            /\ ToSet(flatten[m]) = UNION {ToSet(seqs[i]) : i \in 1..m}
        BY <1>1, <3>2
      <4>3. ToSet(flatten[m + 1]) = ToSet(flatten[m]) \cup ToSet(seqs[m + 1])
        BY <4>1, <4>2, ToSetOfConcat
      <4>4. 1..m + 1 = (1..m) \cup {m + 1}
        BY <1>1
      <4>5. UNION {ToSet(seqs[i]) : i \in 1..m + 1}
              = (UNION {ToSet(seqs[i]) : i \in 1..m}) \cup ToSet(seqs[m + 1])
        BY <4>4
      <4>6. flatten[m + 1] \in Seq(X)
        BY <4>1, <4>2, ConcatProperties
      <4>7. QED
        BY <3>2, <4>2, <4>3, <4>5, <4>6
    <3>3. QED
      <4> HIDE DEF S
      <4>1. \A m \in 1..N : m \in S
        BY <1>1, <1>3, <3>1, <3>2, BoundedInduction
      <4>2. QED
        BY <4>1 DEF S
  <2>8. N \in 1..N
    BY <1>1, <1>3
  <2>9. QED
    BY <1>1, <2>3, <2>7, <2>8
<1>4. QED
  BY <1>2, <1>3

-----------------------------------------------------------------------------
(* What the correlation of two runs says of a key.                          *)

KeysUpTo(found, n) == {found[i].key : i \in 1..n}
Twice(found, n, key) == \E i, j \in 1..n : i # j /\ found[i].key = key /\ found[j].key = key

\* The loop over one run is well defined.
Observing(g, before, side, found) ==
    g = [n \in 0..Len(found) |-> IF n = 0 THEN before ELSE Observe(g[n - 1], side, found[n])]

Observations(keys) == UNION {[K -> SUBSET Sides] : K \in SUBSET keys}

LEMMA ObserveKeeps ==
    ASSUME NEW keys, NEW o \in Observations(keys), NEW side \in Sides, NEW finding, finding.key \in keys
    PROVE  Observe(o, side, finding) \in Observations(keys)
<1>1. PICK K \in SUBSET keys : o \in [K -> SUBSET Sides]
  BY DEF Observations
<1>2. Observe(o, side, finding) \in [K \cup {finding.key} -> SUBSET Sides]
  <2>1. ASSUME NEW key \in K \cup {finding.key}
        PROVE  (IF key # finding.key THEN o[key] ELSE IF key \in DOMAIN o THEN Sides ELSE {side})
                    \in SUBSET Sides
    BY <1>1
  <2>2. DOMAIN o = K
    BY <1>1
  <2>3. QED
    BY <2>1, <2>2 DEF Observe
<1>3. K \cup {finding.key} \in SUBSET keys
  OBVIOUS
<1>4. QED
  BY <1>2, <1>3 DEF Observations

LEMMA ObservingExists ==
    \A keys, before, side, found : \A N \in Nat :
        /\ before \in Observations(keys) /\ side \in Sides
        /\ Len(found) = N /\ \A i \in 1..N : found[i].key \in keys
        => \E g : Observing(g, before, side, found)
<1>0. SUFFICES ASSUME NEW keys, NEW before, NEW side, NEW found, NEW N \in Nat,
                    before \in Observations(keys), side \in Sides,
                    Len(found) = N, \A i \in 1..N : found[i].key \in keys
             PROVE  \E g : Observing(g, before, side, found)
  OBVIOUS
<1> DEFINE D == Observations(keys)
           next == [i \in 1..N |-> [o \in D |-> Observe(o, side, found[i])]]
<1>1. before \in D /\ next \in [1..N -> [D -> D]]
  <2>1. ASSUME NEW i \in 1..N, NEW o \in D PROVE Observe(o, side, found[i]) \in D
    BY <1>0, ObserveKeeps
  <2>2. QED
    <3> HIDE DEF D
    <3>1. QED
      BY <1>0, <2>1 DEF D
<1>2. PICK g \in [0..N -> D] : g[0] = before /\ \A i \in 1..N : g[i] = next[i][g[i - 1]]
  <2> HIDE DEF next, D
  <2>1. QED
    BY <1>1, PrimitiveRecursion
<1>3. ASSUME NEW n \in 0..N
      PROVE  g[n] = IF n = 0 THEN before ELSE Observe(g[n - 1], side, found[n])
  <2>1. CASE n = 0
    BY <1>2, <2>1
  <2>2. CASE n # 0
    <3>1. n \in 1..N /\ n - 1 \in 0..N
      BY <2>2
    <3>2. g[n - 1] \in D
      BY <1>2, <3>1
    <3>3. QED
      BY <1>2, <2>2, <3>1, <3>2
  <2>3. QED
    BY <2>1, <2>2
<1>4. g = [n \in 0..N |-> IF n = 0 THEN before ELSE Observe(g[n - 1], side, found[n])]
  <2> DEFINE e(n) == IF n = 0 THEN before ELSE Observe(g[n - 1], side, found[n])
  <2>1. \A n \in 0..N : g[n] = e(n)
    BY <1>3
  <2>2. g = [n \in 0..N |-> g[n]]
    BY <1>2
  <2> HIDE DEF e
  <2>3. [n \in 0..N |-> g[n]] = [n \in 0..N |-> e(n)]
    BY <2>1
  <2>4. QED
    BY <2>2, <2>3 DEF e
<1>5. QED
  BY <1>0, <1>4 DEF Observing

\* After n findings of a run.
ObservedAfter(o, before, side, found, n) ==
    /\ DOMAIN o = DOMAIN before \cup KeysUpTo(found, n)
    /\ \A key \in DOMAIN o :
          o[key] = IF key \notin KeysUpTo(found, n) THEN before[key]
                   ELSE IF key \in DOMAIN before \/ Twice(found, n, key) THEN Sides ELSE {side}

LEMMA ObserveStep ==
    ASSUME NEW o, NEW before, NEW side, NEW found, NEW n \in Nat,
           ObservedAfter(o, before, side, found, n)
    PROVE  ObservedAfter(Observe(o, side, found[n + 1]), before, side, found, n + 1)
<1> DEFINE new == found[n + 1].key
           after == Observe(o, side, found[n + 1])
<1>1. KeysUpTo(found, n + 1) = KeysUpTo(found, n) \cup {new}
  <2>1. 1..n + 1 = (1..n) \cup {n + 1}
    OBVIOUS
  <2>2. QED
    BY <2>1 DEF KeysUpTo
<1>2. DOMAIN after = DOMAIN o \cup {new}
  BY DEF Observe
<1>3. \A key \in DOMAIN after :
        after[key] = IF key # new THEN o[key] ELSE IF key \in DOMAIN o THEN Sides ELSE {side}
  BY <1>2 DEF Observe
<1>4. DOMAIN after = DOMAIN before \cup KeysUpTo(found, n + 1)
  BY <1>1, <1>2 DEF ObservedAfter
<1>5. ASSUME NEW key, key # new PROVE Twice(found, n + 1, key) <=> Twice(found, n, key)
  <2>1. \A i \in 1..n + 1 : found[i].key = key => i \in 1..n
    BY <1>5
  <2>2. \A i \in 1..n : i \in 1..n + 1
    OBVIOUS
  <2>3. QED
    BY <2>1, <2>2 DEF Twice
<1>6. Twice(found, n + 1, new) <=> new \in KeysUpTo(found, n)
  <2>1. ASSUME new \in KeysUpTo(found, n) PROVE Twice(found, n + 1, new)
    <3>1. PICK i \in 1..n : found[i].key = new
      BY <2>1 DEF KeysUpTo
    <3>2. i \in 1..n + 1 /\ n + 1 \in 1..n + 1 /\ i # n + 1
      OBVIOUS
    <3>3. QED
      BY <3>1, <3>2 DEF Twice
  <2>2. ASSUME Twice(found, n + 1, new) PROVE new \in KeysUpTo(found, n)
    <3>1. PICK i, j \in 1..n + 1 : i # j /\ found[i].key = new /\ found[j].key = new
      BY <2>2 DEF Twice
    <3>2. i \in 1..n \/ j \in 1..n
      BY <3>1
    <3>3. QED
      BY <3>1, <3>2 DEF KeysUpTo
  <2>3. QED
    BY <2>1, <2>2
<1>7. ASSUME NEW key \in DOMAIN after
      PROVE  after[key] = IF key \notin KeysUpTo(found, n + 1) THEN before[key]
                          ELSE IF key \in DOMAIN before \/ Twice(found, n + 1, key) THEN Sides
                          ELSE {side}
  <2>1. CASE key # new
    <3>1. after[key] = o[key] /\ key \in DOMAIN o
      BY <1>2, <1>3, <2>1
    <3>2. QED
      BY <1>1, <1>5, <2>1, <3>1 DEF ObservedAfter
  <2>2. CASE key = new
    <3>1. key \in KeysUpTo(found, n + 1)
      BY <1>1, <2>2
    <3>2. key \in DOMAIN o <=> key \in DOMAIN before \/ Twice(found, n + 1, key)
      BY <1>6, <2>2 DEF ObservedAfter
    <3>3. QED
      BY <1>3, <2>2, <3>1, <3>2
  <2>3. QED
    BY <2>1, <2>2
<1>8. QED
  BY <1>4, <1>7 DEF ObservedAfter

LEMMA ObservedFacts ==
    ASSUME NEW keys, NEW before \in Observations(keys), NEW side \in Sides,
           NEW found, NEW N \in Nat, Len(found) = N, DOMAIN found = 1..N,
           \A i \in 1..N : found[i].key \in keys
    PROVE  /\ ObservedAfter(Observed(before, side, found), before, side, found, N)
           /\ Observed(before, side, found) \in Observations(keys)
<1> DEFINE observed == CHOOSE g : Observing(g, before, side, found)
<1>1. Observing(observed, before, side, found)
  <2>1. \E g : Observing(g, before, side, found)
    BY ObservingExists
  <2>2. QED
    BY <2>1
<1>2. Observed(before, side, found) = observed[N]
  BY DEF Observed, Observing
<1> HIDE DEF observed
<1>3. observed[0] = before
  BY <1>1 DEF Observing
<1>4. ASSUME NEW n \in 0..N, n + 1 \in 0..N
      PROVE  observed[n + 1] = Observe(observed[n], side, found[n + 1])
  <2>1. n + 1 # 0 /\ (n + 1) - 1 = n
    OBVIOUS
  <2>2. \A m \in 0..N : m # 0 => observed[m] = Observe(observed[m - 1], side, found[m])
    BY <1>1 DEF Observing
  <2>3. QED
    BY <1>4, <2>1, <2>2
<1> DEFINE S == {n \in 0..N : /\ ObservedAfter(observed[n], before, side, found, n)
                               /\ observed[n] \in Observations(keys)}
<1>5. 0 \in S
  <2>1. KeysUpTo(found, 0) = {}
    BY DEF KeysUpTo
  <2>2. QED
    BY <1>3, <2>1 DEF ObservedAfter
<1>6. ASSUME NEW n \in 0..N, n \in S, n + 1 \in 0..N PROVE n + 1 \in S
  <2>1. n + 1 \in 1..N
    BY <1>6
  <2>2. observed[n + 1] \in Observations(keys)
    BY <1>4, <1>6, <2>1, ObserveKeeps
  <2>3. ObservedAfter(observed[n + 1], before, side, found, n + 1)
    BY <1>4, <1>6, ObserveStep
  <2>4. QED
    BY <1>6, <2>2, <2>3
<1>7. \A n \in 0..N : n \in S
  <2> HIDE DEF S
  <2>1. QED
    BY <1>5, <1>6, BoundedInduction
<1>8. QED
  BY <1>2, <1>7

\* A list of findings.
IsList(found) == Len(found) \in Nat /\ DOMAIN found = 1..Len(found)

LEMMA CorrelatedFacts ==
    ASSUME NEW unauth, NEW auth, IsList(unauth), IsList(auth)
    PROVE  Correlated(unauth, auth) =
               [key \in AllKeys(unauth, auth) |-> Claimed(key, unauth, auth)]
<1> DEFINE keys == Keys(unauth) \cup Keys(auth)
           first == Observed(Nowhere, "unauthenticated", unauth)
           result == Correlated(unauth, auth)
<1>1. KeysUpTo(unauth, Len(unauth)) = Keys(unauth) /\ KeysUpTo(auth, Len(auth)) = Keys(auth)
  BY DEF KeysUpTo, Keys, IsList
<1>2. /\ Nowhere \in Observations(keys) /\ DOMAIN Nowhere = {}
      /\ "unauthenticated" \in Sides /\ "authenticated" \in Sides
  <2>1. Nowhere \in [{} -> SUBSET Sides]
    BY DEF Nowhere
  <2>2. QED
    BY <2>1 DEF Observations, Sides
<1>3. /\ \A i \in 1..Len(unauth) : unauth[i].key \in keys
      /\ \A i \in 1..Len(auth) : auth[i].key \in keys
  BY DEF Keys, IsList
<1>4. /\ ObservedAfter(first, Nowhere, "unauthenticated", unauth, Len(unauth))
      /\ first \in Observations(keys)
  <2> HIDE DEF keys
  <2>1. QED
    BY <1>2, <1>3, ObservedFacts DEF IsList
<1>5. /\ ObservedAfter(result, first, "authenticated", auth, Len(auth))
      /\ result \in Observations(keys)
  <2> HIDE DEF keys, first
  <2>1. result = Observed(first, "authenticated", auth)
    BY DEF Correlated, first
  <2> HIDE DEF result
  <2>2. QED
    BY <1>2, <1>3, <1>4, <2>1, ObservedFacts DEF IsList
<1> HIDE DEF first, result
<1>6. DOMAIN first = Keys(unauth) /\ DOMAIN result = Keys(unauth) \cup Keys(auth)
  BY <1>1, <1>2, <1>4, <1>5 DEF ObservedAfter
<1>7. ASSUME NEW key \in DOMAIN result
      PROVE  result[key] = Claimed(key, unauth, auth)
  <2>0. /\ Repeated(unauth, key) <=> Twice(unauth, Len(unauth), key)
        /\ Repeated(auth, key) <=> Twice(auth, Len(auth), key)
    BY DEF Repeated, Twice, IsList
  <2>1. /\ EarnedBy(key, unauth, auth) \subseteq Sides
        /\ "authenticated" \in EarnedBy(key, unauth, auth) <=> key \in Keys(auth)
        /\ "unauthenticated" \in EarnedBy(key, unauth, auth) <=> key \in Keys(unauth)
    BY DEF EarnedBy, Sides
  <2>2. CASE key \notin Keys(auth)
    <3>1. result[key] = first[key] /\ key \in Keys(unauth)
      BY <1>1, <1>5, <1>6, <2>2 DEF ObservedAfter
    <3>2. first[key] = IF Twice(unauth, Len(unauth), key) THEN Sides ELSE {"unauthenticated"}
      BY <1>1, <1>2, <1>4, <1>6, <3>1 DEF ObservedAfter
    <3>3. EarnedBy(key, unauth, auth) = {"unauthenticated"}
      BY <2>1, <2>2, <3>1 DEF Sides
    <3>4. ~Repeated(auth, key)
      BY <2>2 DEF Repeated, Keys
    <3>5. QED
      BY <2>0, <3>1, <3>2, <3>3, <3>4 DEF Claimed
  <2>3. CASE key \in Keys(auth) /\ key \in Keys(unauth)
    <3>1. result[key] = Sides
      BY <1>1, <1>5, <1>6, <2>3 DEF ObservedAfter
    <3>2. EarnedBy(key, unauth, auth) = Sides
      BY <2>1, <2>3 DEF Sides
    <3>3. QED
      BY <3>1, <3>2 DEF Claimed
  <2>4. CASE key \in Keys(auth) /\ key \notin Keys(unauth)
    <3>1. result[key] = IF Twice(auth, Len(auth), key) THEN Sides ELSE {"authenticated"}
      BY <1>1, <1>5, <1>6, <2>4 DEF ObservedAfter
    <3>2. EarnedBy(key, unauth, auth) = {"authenticated"}
      BY <2>1, <2>4 DEF Sides
    <3>3. ~Repeated(unauth, key)
      BY <2>4 DEF Repeated, Keys
    <3>4. QED
      BY <2>0, <3>1, <3>2, <3>3 DEF Claimed
  <2>5. QED
    BY <2>2, <2>3, <2>4
<1>8. result = [key \in DOMAIN result |-> result[key]]
  <2>1. PICK K \in SUBSET keys : result \in [K -> SUBSET Sides]
    <3> HIDE DEF keys
    <3>1. QED
      BY <1>5 DEF Observations
  <2>2. QED
    BY <2>1
<1>9. QED
  BY <1>6, <1>7, <1>8 DEF result, AllKeys

-----------------------------------------------------------------------------
(* The findings of a ZAP report.                                            *)

\* A list of alerts, each with a list of instances.
IsReport(report) ==
    /\ IsList(report)
    /\ \A i \in DOMAIN report : IsList(report[i].instances)

Reviewed(report) == {i \in DOMAIN report : report[i].rule = ReviewedRule}
InstancesOf(alert) == {ZapFinding(alert, alert.instances[j]) : j \in DOMAIN alert.instances}
ZapFindings(report) == UNION {InstancesOf(report[i]) : i \in Reviewed(report)}

LEMMA ReportsAreReports == ASSUME NEW report \in ZapReports PROVE IsReport(report)
<1>1. report \in Seq(ToSet(report))
  BY EvidenceAssumption
<1>2. IsList(report)
  BY <1>1, LenProperties DEF IsList
<1>3. ASSUME NEW i \in DOMAIN report PROVE IsList(report[i].instances)
  <2>1. report[i].instances \in Seq(ToSet(report[i].instances))
    BY EvidenceAssumption
  <2>2. QED
    BY <2>1, LenProperties DEF IsList
<1>4. QED
  BY <1>2, <1>3 DEF IsReport

LEMMA ZapFacts ==
    ASSUME NEW report, IsReport(report), ~\E i \in DOMAIN report : AlertRefused(report[i])
    PROVE  \E found : /\ IsList(found)
                      /\ ToSet(found) = ZapFindings(report)
                      /\ ZapNormalized(report) = Yield(found)
<1> DEFINE part(alert) == IF alert.rule # ReviewedRule THEN <<>>
                          ELSE [j \in DOMAIN alert.instances |-> ZapFinding(alert, alert.instances[j])]
           parts == [i \in DOMAIN report |-> part(report[i])]
           X == ZapFindings(report)
           N == Len(report)
<1>1. ASSUME NEW i \in DOMAIN report
      PROVE  /\ part(report[i]) \in Seq(X)
             /\ i \in Reviewed(report) => ToSet(part(report[i])) = InstancesOf(report[i])
             /\ i \notin Reviewed(report) => ToSet(part(report[i])) = {}
  <2>1. CASE i \notin Reviewed(report)
    <3>1. part(report[i]) = <<>>
      BY <2>1 DEF Reviewed
    <3> HIDE DEF X, part
    <3>2. <<>> \in Seq(X) /\ DOMAIN <<>> = {}
      BY EmptySeq
    <3>3. QED
      BY <2>1, <3>1, <3>2 DEF ToSet
  <2>2. CASE i \in Reviewed(report)
    <3> DEFINE alert == report[i]
               m == Len(alert.instances)
    <3>1. /\ m \in Nat /\ DOMAIN alert.instances = 1..m
          /\ part(alert) = [j \in 1..m |-> ZapFinding(alert, alert.instances[j])]
      BY <2>2 DEF Reviewed, IsReport, IsList
    <3>2. \A j \in 1..m : ZapFinding(alert, alert.instances[j]) \in InstancesOf(alert)
      BY <3>1 DEF InstancesOf
    <3>3. InstancesOf(alert) \subseteq X
      BY <2>2 DEF ZapFindings
    <3>4. ToSet(part(alert)) = InstancesOf(alert)
      <4> DEFINE z(j) == ZapFinding(alert, alert.instances[j])
      <4>1. InstancesOf(alert) = {z(j) : j \in 1..m}
        BY <3>1 DEF InstancesOf
      <4>2. part(alert) = [j \in 1..m |-> z(j)]
        BY <3>1
      <4> HIDE DEF z, alert, m, part
      <4>3. QED
        BY <4>1, <4>2 DEF ToSet
    <3>5. part(alert) \in Seq(X)
      <4> DEFINE z(j) == ZapFinding(alert, alert.instances[j])
      <4>1. \A j \in 1..m : z(j) \in X
        BY <3>2, <3>3
      <4>2. part(alert) = [j \in 1..m |-> z(j)] /\ m \in Nat
        BY <3>1
      <4> HIDE DEF z, X, alert, m, part
      <4>3. QED
        BY <4>1, <4>2
    <3>6. QED
      BY <2>2, <3>4, <3>5
  <2>3. QED
    BY <2>1, <2>2
<1>2. N \in Nat /\ DOMAIN report = 1..N
  BY DEF IsReport, IsList
<1>3. parts \in [1..N -> Seq(X)]
  <2> HIDE DEF part, X, N
  <2>1. QED
    BY <1>1, <1>2
<1>4. /\ FlattenSeq(parts) \in Seq(X)
      /\ ToSet(FlattenSeq(parts)) = UNION {ToSet(parts[i]) : i \in DOMAIN parts}
  <2> HIDE DEF parts, X, N
  <2>1. QED
    BY <1>2, <1>3, FlattenSeqFacts
<1>5. ASSUME NEW x PROVE x \in UNION {ToSet(parts[i]) : i \in DOMAIN parts} <=> x \in X
  <2>1. x \in UNION {ToSet(parts[i]) : i \in DOMAIN parts}
            <=> \E i \in DOMAIN report : x \in ToSet(part(report[i]))
    <3> HIDE DEF part
    <3>1. QED
      OBVIOUS
  <2>2. x \in X <=> \E i \in Reviewed(report) : x \in InstancesOf(report[i])
    BY DEF ZapFindings
  <2>3. Reviewed(report) \subseteq DOMAIN report
    BY DEF Reviewed
  <2> HIDE DEF part, parts, X
  <2>4. QED
    BY <1>1, <2>1, <2>2, <2>3
<1>6. IsList(FlattenSeq(parts))
  <2> HIDE DEF parts, X
  <2>1. QED
    BY <1>4, LenProperties DEF IsList
<1>7. ZapNormalized(report) = Yield(FlattenSeq(parts))
  BY DEF ZapNormalized
<1>8. QED
  <2> HIDE DEF parts, X
  <2>1. ToSet(FlattenSeq(parts)) = X
    BY <1>4, <1>5
  <2>2. QED
    BY <1>6, <1>7, <2>1 DEF X

-----------------------------------------------------------------------------
(* The findings of a Schemathesis report.                                   *)

SameCheck(e, f) == e.check = f.check /\ e.operation = f.operation
LastFailures(events) ==
    {i \in DOMAIN events :
        /\ Failed(events[i])
        /\ \A j \in i + 1 .. Len(events) : Failed(events[j]) => ~SameCheck(events[i], events[j])}
EngineFinding(event, index) ==
    [print |-> <<"schemathesis", event.check, index[event.operation]>>,
     severity |-> CheckSeverity[event.check],
     key |-> <<"schemathesis", event.check, event.operation, event.class>>]
EngineFindings(events, index) == {EngineFinding(events[i], index) : i \in LastFailures(events)}
EngineAccepts(events, index) ==
    Finished(events) /\ \A i \in DOMAIN events : ~EventRefused(events[i], index)

LEMMA EventsAreLists == ASSUME NEW events \in EngineReports PROVE IsList(events)
<1>1. events \in Seq(ToSet(events))
  BY EvidenceAssumption
<1>2. QED
  BY <1>1, LenProperties DEF IsList

LEMMA EngineFacts ==
    ASSUME NEW events, NEW index, IsList(events)
    PROVE  /\ IsFiniteSet(EngineFindings(events, index))
           /\ EngineAccepts(events, index) =>
                  SchemathesisNormalized(events, index) = Yield(SetToSeq(EngineFindings(events, index)))
           /\ ~EngineAccepts(events, index) => SchemathesisNormalized(events, index) = Refusal
<1>1. IsFiniteSet(LastFailures(events))
  <2>1. Len(events) \in Int /\ LastFailures(events) \subseteq 1..Len(events)
    BY DEF IsList, LastFailures
  <2>2. IsFiniteSet(1..Len(events))
    BY <2>1, FS_Interval
  <2>3. QED
    BY <2>1, <2>2, FS_Subset
<1>2. IsFiniteSet(EngineFindings(events, index))
  <2> DEFINE f == [i \in LastFailures(events) |-> EngineFinding(events[i], index)]
             T == EngineFindings(events, index)
  <2>1. f \in [LastFailures(events) -> T]
    BY DEF EngineFindings
  <2>2. \A t \in T : \E i \in LastFailures(events) : f[i] = t
    BY DEF EngineFindings
  <2> HIDE DEF f, T
  <2>3. IsFiniteSet(T)
    BY <1>1, <2>1, <2>2, ImageIsFinite
  <2>4. QED
    BY <2>3 DEF T
<1>3. ASSUME EngineAccepts(events, index)
      PROVE  SchemathesisNormalized(events, index) = Yield(SetToSeq(EngineFindings(events, index)))
  BY <1>3 DEF EngineAccepts, SchemathesisNormalized, EngineFindings, EngineFinding, LastFailures, SameCheck
<1>4. ASSUME ~EngineAccepts(events, index)
      PROVE  SchemathesisNormalized(events, index) = Refusal
  BY <1>4 DEF EngineAccepts, SchemathesisNormalized
<1>5. QED
  BY <1>2, <1>3, <1>4

\* Only the last failure of a check on an operation is kept.
LEMMA LastIsUnique ==
    ASSUME NEW events, IsList(events), NEW i \in LastFailures(events), NEW j \in LastFailures(events),
           SameCheck(events[i], events[j])
    PROVE  i = j
<1>1. i \in 1..Len(events) /\ j \in 1..Len(events) /\ Len(events) \in Nat
  BY DEF IsList, LastFailures
<1>2. ~(i < j)
  <2> SUFFICES ASSUME i < j PROVE FALSE
    OBVIOUS
  <2>1. j \in i + 1 .. Len(events)
    BY <1>1
  <2>2. QED
    BY <2>1 DEF LastFailures
<1>3. ~(j < i)
  <2> SUFFICES ASSUME j < i PROVE FALSE
    OBVIOUS
  <2>1. i \in j + 1 .. Len(events) /\ SameCheck(events[j], events[i])
    BY <1>1 DEF SameCheck
  <2>2. QED
    BY <2>1 DEF LastFailures
<1>4. QED
  BY <1>1, <1>2, <1>3

LEMMA OneFindingPerKey ==
    ASSUME NEW events, NEW index, IsList(events),
           NEW x \in EngineFindings(events, index), NEW y \in EngineFindings(events, index),
           x.key = y.key
    PROVE  x = y
<1>1. PICK i \in LastFailures(events) : x = EngineFinding(events[i], index)
  BY DEF EngineFindings
<1>2. PICK j \in LastFailures(events) : y = EngineFinding(events[j], index)
  BY DEF EngineFindings
<1>3. SameCheck(events[i], events[j])
  BY <1>1, <1>2 DEF EngineFinding, SameCheck
<1>4. QED
  BY <1>1, <1>2, <1>3, LastIsUnique

LEMMA NothingIsAList == IsList(<<>>) /\ \A key : ~Twice(<<>>, Len(<<>>), key)
<1>1. <<>> \in Seq({}) /\ Len(<<>>) = 0
  BY EmptySeq
<1>2. QED
  BY <1>1, LenProperties DEF IsList, Twice

LEMMA YieldIsAList ==
    ASSUME NEW found, IsList(found) PROVE IsList(Yield(found).findings)
BY NothingIsAList DEF Yield, Refusal

\* What is not refused is a list, and a refused report lists nothing.
LEMMA ZapFoundIsAList == ASSUME NEW report \in ZapReports PROVE IsList(ZapFound(report))
<1>1. CASE \E i \in DOMAIN report : AlertRefused(report[i])
  <2>1. ZapFound(report) = <<>>
    BY <1>1 DEF ZapFound, ZapNormalized, Refusal
  <2>2. QED
    BY <2>1, NothingIsAList
<1>2. CASE ~\E i \in DOMAIN report : AlertRefused(report[i])
  <2>1. PICK found : IsList(found) /\ ZapNormalized(report) = Yield(found)
    BY <1>2, ReportsAreReports, ZapFacts
  <2>2. QED
    BY <2>1, YieldIsAList DEF ZapFound
<1>3. QED
  BY <1>1, <1>2

LEMMA EngineFoundFacts ==
    ASSUME NEW events \in EngineReports
    PROVE  IsList(EngineFound(events)) /\ \A key : ~Twice(EngineFound(events), Len(EngineFound(events)), key)
<1> DEFINE T == EngineFindings(events, Index)
           found == SetToSeq(T)
<1>0. IsList(events)
  BY EventsAreLists
<1>1. /\ IsFiniteSet(T)
      /\ EngineAccepts(events, Index) => SchemathesisNormalized(events, Index) = Yield(found)
      /\ ~EngineAccepts(events, Index) => SchemathesisNormalized(events, Index) = Refusal
  BY <1>0, EngineFacts
<1>2. \A x, y \in T : x.key = y.key => x = y
  BY <1>0, OneFindingPerKey
<1> HIDE DEF T
<1>3. IsList(found) /\ \A key : ~Twice(found, Len(found), key)
  <2>1. /\ found \in [1..Cardinality(T) -> T] /\ Cardinality(T) \in Nat /\ Len(found) = Cardinality(T)
        /\ DOMAIN found = 1..Cardinality(T)
        /\ \A i, j \in 1..Cardinality(T) : found[i] = found[j] => i = j
    BY <1>1, SetToSeqFacts
  <2> HIDE DEF found
  <2>2. \A i, j \in 1..Len(found) : found[i].key = found[j].key => i = j
    BY <1>2, <2>1
  <2>3. QED
    BY <2>1, <2>2 DEF IsList, Twice
<1> HIDE DEF found
<1>4. EngineFound(events) = found \/ EngineFound(events) = <<>>
  BY <1>1 DEF EngineFound, Yield, Refusal
<1>5. QED
  BY <1>3, <1>4, NothingIsAList

\* For any two reports a comparison keeps every finding.  The failures of a check
\* give no key twice, so that Schemathesis findings are said to be observed by
\* exactly the runs that reported them; a ZAP finding whose key came up twice, in
\* one report or in two, is said to be observed by both.
THEOREM FlagsAreEarnedHolds == Spec => []FlagsAreEarned
<1>1. ASSUME NEW u \in ZapReports, NEW a \in ZapReports
      PROVE  LET unauth == ZapFound(u) auth == ZapFound(a) IN
             Correlated(unauth, auth) =
                 [key \in AllKeys(unauth, auth) |-> Claimed(key, unauth, auth)]
  BY ZapFoundIsAList, CorrelatedFacts
<1>2. ASSUME NEW u \in EngineReports, NEW a \in EngineReports
      PROVE  LET unauth == EngineFound(u) auth == EngineFound(a) IN
             Correlated(unauth, auth) =
                 [key \in AllKeys(unauth, auth) |-> EarnedBy(key, unauth, auth)]
  <2> DEFINE unauth == EngineFound(u)
             auth == EngineFound(a)
  <2>1. /\ IsList(unauth) /\ \A key : ~Twice(unauth, Len(unauth), key)
        /\ IsList(auth) /\ \A key : ~Twice(auth, Len(auth), key)
    BY EngineFoundFacts
  <2> HIDE DEF unauth, auth
  <2>2. \A key : ~Repeated(unauth, key) /\ ~Repeated(auth, key)
    BY <2>1 DEF Repeated, Twice, IsList
  <2>3. \A key : Claimed(key, unauth, auth) = EarnedBy(key, unauth, auth)
    BY <2>2 DEF Claimed
  <2>4. Correlated(unauth, auth) = [key \in AllKeys(unauth, auth) |-> EarnedBy(key, unauth, auth)]
    BY <2>1, <2>3, CorrelatedFacts
  <2>5. QED
    BY <2>4 DEF unauth, auth
<1>3. FlagsAreEarned
  <2>1. CASE runner = "dast"
    BY <1>1, <2>1 DEF FlagsAreEarned
  <2>2. CASE runner = "api"
    BY <1>2, <2>2 DEF FlagsAreEarned
  <2>3. CASE runner \notin {"dast", "api"}
    BY <2>3 DEF FlagsAreEarned
  <2>4. QED
    BY <2>1, <2>2, <2>3
<1>4. QED
  BY <1>3, PTL

-----------------------------------------------------------------------------
(* From findings to an exit code.                                           *)

LEMMA BijectionCounts ==
    ASSUME NEW S, NEW T, NEW f \in [S -> T], IsFiniteSet(S), \A t \in T : \E x \in S : f[x] = t,
           \A x, y \in S : f[x] = f[y] => x = y
    PROVE  IsFiniteSet(T) /\ Cardinality(T) = Cardinality(S)
<1>1. f \in Surjection(S, T) /\ f \in Injection(S, T)
  BY DEF Surjection, Injection, IsInjective
<1>2. QED
  BY <1>1, FS_Surjection

AnyEnforced(found, p) == \E f \in found : Enforced(f.print, f.severity, p)

LEMMA JudgedFacts ==
    ASSUME NEW normalized, NEW p
    PROVE  /\ ~normalized.accepted => Judged(normalized, p) = 3
           /\ normalized.accepted =>
                /\ Judged(normalized, p) \in {0, 1}
                /\ Judged(normalized, p) = 1 <=> AnyEnforced(ToSet(normalized.findings), p)
<1>1. Violations(ToSet(normalized.findings), p) # {} <=> AnyEnforced(ToSet(normalized.findings), p)
  <2> DEFINE found == ToSet(normalized.findings)
  <2> HIDE DEF found
  <2>1. \A f : f \in Violations(found, p) <=> f \in found /\ Enforced(f.print, f.severity, p)
    BY DEF Violations, Enforced
  <2>2. Violations(found, p) # {} <=> AnyEnforced(found, p)
    BY <2>1 DEF AnyEnforced
  <2>3. QED
    BY <2>2 DEF found
<1>2. QED
  BY <1>1 DEF Judged

\* What is judged of a list of findings that may be too long.
LEMMA YieldJudged ==
    ASSUME NEW found, NEW p, IsList(found)
    PROVE  /\ Judged(Yield(found), p) \in {0, 1, 3}
           /\ Judged(Yield(found), p) = 3 <=> Len(found) > MaxFindings
           /\ Judged(Yield(found), p) # 3 => (Judged(Yield(found), p) = 1 <=> AnyEnforced(ToSet(found), p))
<1>1. CASE Len(found) > MaxFindings
  <2>1. Yield(found).accepted = FALSE
    BY <1>1 DEF Yield, Refusal
  <2>2. QED
    BY <1>1, <2>1, JudgedFacts
<1>2. CASE ~(Len(found) > MaxFindings)
  <2>1. Yield(found).accepted = TRUE /\ Yield(found).findings = found
    BY <1>2 DEF Yield
  <2>2. QED
    BY <1>2, <2>1, JudgedFacts
<1>3. QED
  BY <1>1, <1>2

LEMMA RefusalJudged == \A p : Judged(Refusal, p) = 3
BY DEF Judged, Refusal

-----------------------------------------------------------------------------
(* A ZAP report.                                                            *)

LEMMA PairsJoined == \A a, b, c, d : <<a, b>> \o <<c, d>> = <<a, b, c, d>>
<1> SUFFICES ASSUME NEW a, NEW b, NEW c, NEW d PROVE <<a, b>> \o <<c, d>> = <<a, b, c, d>>
  OBVIOUS
<1> DEFINE X == {a, b, c, d}
           s == <<a, b>>
           t == <<c, d>>
<1>1. s \in Seq(X) /\ t \in Seq(X) /\ Len(s) = 2 /\ Len(t) = 2
  OBVIOUS
<1>2. /\ s \o t \in Seq(X) /\ Len(s \o t) = 4
      /\ \A i \in 1..4 : (s \o t)[i] = IF i <= 2 THEN s[i] ELSE t[i - 2]
  <2> HIDE DEF s, t, X
  <2>1. /\ s \o t \in Seq(X) /\ Len(s \o t) = Len(s) + Len(t)
        /\ \A i \in 1..Len(s) + Len(t) : (s \o t)[i] = IF i <= Len(s) THEN s[i] ELSE t[i - Len(s)]
    BY <1>1, ConcatProperties
  <2>2. Len(s) + Len(t) = 4
    BY <1>1
  <2>3. QED
    BY <1>1, <2>1, <2>2
<1>3. (s \o t)[1] = a /\ (s \o t)[2] = b /\ (s \o t)[3] = c /\ (s \o t)[4] = d
  BY <1>2
<1>4. \A u \in Seq(X) : Len(u) = 4 => u = <<u[1], u[2], u[3], u[4]>>
  OBVIOUS
<1>5. QED
  BY <1>2, <1>3, <1>4

LEMMA ZapAccounted ==
    ASSUME NEW report \in ZapReports, NEW p
    PROVE  ZapIsAccounted(report, p)
<1> DEFINE code == Judged(ZapNormalized(report), p)
           wrong == \E i \in Reviewed(report) :
                        report[i].risk \notin DOMAIN Rank \/ Escapes(report[i])
           enforced == \E i \in Reviewed(report) : \E j \in DOMAIN report[i].instances :
               LET seen == report[i].instances[j] IN
               Enforced(<<"zap-baseline", ReviewedRule, seen.path, seen.method>>, report[i].risk, p)
<1>1. CASE \E i \in DOMAIN report : AlertRefused(report[i])
  <2>1. ZapNormalized(report) = Refusal
    BY <1>1 DEF ZapNormalized
  <2>2. code = 3
    BY <2>1, RefusalJudged
  <2>3. QED
    BY <2>2 DEF ZapIsAccounted
<1>2. CASE ~\E i \in DOMAIN report : AlertRefused(report[i])
  <2>1. PICK found : /\ IsList(found) /\ ToSet(found) = ZapFindings(report)
                     /\ ZapNormalized(report) = Yield(found)
    BY <1>2, ReportsAreReports, ZapFacts
  <2>2. ~wrong
    BY <1>2 DEF Reviewed, AlertRefused, Escapes
  <2>3. code # 3 => (code = 1 <=> AnyEnforced(ZapFindings(report), p))
    BY <2>1, YieldJudged
  <2>4. ASSUME NEW i \in Reviewed(report), NEW j \in DOMAIN report[i].instances
        PROVE  LET f == ZapFinding(report[i], report[i].instances[j])
                   seen == report[i].instances[j]
               IN /\ f \in ZapFindings(report)
                  /\ f.print = <<"zap-baseline", ReviewedRule, seen.path, seen.method>>
                  /\ f.severity = report[i].risk
    <3>1. ZapFinding(report[i], report[i].instances[j]) \in ZapFindings(report)
      BY DEF ZapFindings, InstancesOf
    <3>2. report[i].rule = ReviewedRule
      BY DEF Reviewed
    <3>3. QED
      BY <3>1, <3>2, PairsJoined DEF ZapFinding
  <2>5. \A f \in ZapFindings(report) : \E i \in Reviewed(report) :
            \E j \in DOMAIN report[i].instances : f = ZapFinding(report[i], report[i].instances[j])
    BY DEF ZapFindings, InstancesOf
  <2>6. AnyEnforced(ZapFindings(report), p) <=> enforced
    <3>1. ASSUME AnyEnforced(ZapFindings(report), p) PROVE enforced
      <4>1. PICK f \in ZapFindings(report) : Enforced(f.print, f.severity, p)
        BY <3>1 DEF AnyEnforced
      <4>2. PICK i \in Reviewed(report) :
                \E j \in DOMAIN report[i].instances : f = ZapFinding(report[i], report[i].instances[j])
        BY <2>5
      <4>3. PICK j \in DOMAIN report[i].instances : f = ZapFinding(report[i], report[i].instances[j])
        BY <4>2
      <4>4. QED
        BY <2>4, <4>1, <4>3
    <3>2. ASSUME enforced PROVE AnyEnforced(ZapFindings(report), p)
      <4>1. PICK i \in Reviewed(report) : \E j \in DOMAIN report[i].instances :
                LET seen == report[i].instances[j] IN
                Enforced(<<"zap-baseline", ReviewedRule, seen.path, seen.method>>, report[i].risk, p)
        BY <3>2
      <4>2. PICK j \in DOMAIN report[i].instances :
                LET seen == report[i].instances[j] IN
                Enforced(<<"zap-baseline", ReviewedRule, seen.path, seen.method>>, report[i].risk, p)
        BY <4>1
      <4>3. QED
        BY <2>4, <4>2 DEF AnyEnforced
    <3>3. QED
      BY <3>1, <3>2
  <2>7. QED
    BY <2>2, <2>3, <2>6 DEF ZapIsAccounted, Reviewed
<1>3. QED
  BY <1>1, <1>2

-----------------------------------------------------------------------------
(* A Schemathesis report.                                                   *)

\* Some failure of every check that failed on an operation is the last.
LEMMA LastExists ==
    ASSUME NEW events, IsList(events), NEW i \in DOMAIN events, Failed(events[i])
    PROVE  \E j \in LastFailures(events) : SameCheck(events[i], events[j])
<1> DEFINE N == Len(events)
           same == {j \in 1..N : Failed(events[j]) /\ SameCheck(events[i], events[j])}
           T == {N - j : j \in same}
<1>1. N \in Nat /\ DOMAIN events = 1..N
  BY DEF IsList
<1>2. i \in same
  BY <1>1 DEF SameCheck
<1>3. T \subseteq Nat /\ T # {}
  BY <1>1, <1>2
<1>4. PICK least \in T : \A n \in T : ~(n < least)
  <2> HIDE DEF T
  <2>1. QED
    BY <1>3, LeastNatural
<1>5. PICK j \in same : least = N - j
  BY <1>4
<1>6. ASSUME NEW k \in j + 1 .. N, Failed(events[k]) PROVE ~SameCheck(events[j], events[k])
  <2> SUFFICES ASSUME SameCheck(events[j], events[k]) PROVE FALSE
    OBVIOUS
  <2>1. k \in same
    BY <1>1, <1>5, <1>6 DEF SameCheck
  <2>2. N - k \in T /\ N - k < least
    BY <1>1, <1>5, <1>6, <2>1
  <2>3. QED
    BY <1>4, <2>2
<1>7. j \in LastFailures(events)
  BY <1>1, <1>5, <1>6 DEF LastFailures
<1>8. QED
  BY <1>5, <1>7

\* What a report amounts to, whatever the order of its events.
FailedChecks(events) == {<<e.check, e.operation>> : e \in {e \in ToSet(events) : Failed(e)}}
EngineEnforced(events, index, p) == \E e \in ToSet(events) :
    /\ Failed(e)
    /\ Enforced(<<"schemathesis", e.check, index[e.operation]>>, CheckSeverity[e.check], p)

LEMMA EngineFindingsCounted ==
    ASSUME NEW events, NEW index, IsList(events)
    PROVE  Cardinality(EngineFindings(events, index)) = Cardinality(FailedChecks(events))
<1> DEFINE T == EngineFindings(events, index)
           P == FailedChecks(events)
           f == [x \in T |-> <<x.key[2], x.key[3]>>]
<1>1. ASSUME NEW x \in T
      PROVE \E j \in LastFailures(events) :
                /\ x = EngineFinding(events[j], index)
                /\ f[x] = <<events[j].check, events[j].operation>>
  BY DEF EngineFindings, EngineFinding
<1>2. \A j \in LastFailures(events) : /\ <<events[j].check, events[j].operation>> \in P
                                      /\ EngineFinding(events[j], index) \in T
  BY DEF EngineFindings, FailedChecks, LastFailures, ToSet
<1>3. f \in [T -> P]
  <2>1. \A x \in T : f[x] \in P
    BY <1>1, <1>2
  <2> HIDE DEF T, P
  <2>2. QED
    BY <2>1
<1>4. ASSUME NEW t \in P PROVE \E x \in T : f[x] = t
  <2>1. PICK i \in DOMAIN events : Failed(events[i]) /\ t = <<events[i].check, events[i].operation>>
    BY DEF FailedChecks, ToSet
  <2>2. PICK j \in LastFailures(events) : SameCheck(events[i], events[j])
    BY <2>1, LastExists
  <2>3. EngineFinding(events[j], index) \in T
    BY <1>2
  <2>4. f[EngineFinding(events[j], index)] = t
    BY <2>1, <2>2, <2>3 DEF EngineFinding, SameCheck
  <2>5. QED
    BY <2>3, <2>4
<1>5. ASSUME NEW x \in T, NEW y \in T, f[x] = f[y] PROVE x = y
  <2>1. PICK i \in LastFailures(events) : /\ x = EngineFinding(events[i], index)
                                          /\ f[x] = <<events[i].check, events[i].operation>>
    BY <1>1
  <2>2. PICK j \in LastFailures(events) : /\ y = EngineFinding(events[j], index)
                                          /\ f[y] = <<events[j].check, events[j].operation>>
    BY <1>1
  <2> HIDE DEF f
  <2>3. SameCheck(events[i], events[j])
    BY <1>5, <2>1, <2>2 DEF SameCheck
  <2>4. QED
    BY <2>1, <2>2, <2>3, LastIsUnique
<1>6. IsFiniteSet(T)
  BY EngineFacts
<1>7. QED
  <2> HIDE DEF T, P, f
  <2>1. Cardinality(P) = Cardinality(T)
    BY <1>3, <1>4, <1>5, <1>6, BijectionCounts
  <2>2. QED
    BY <2>1 DEF T, P

LEMMA EngineFindingsEnforced ==
    ASSUME NEW events, NEW index, NEW p, IsList(events)
    PROVE  AnyEnforced(EngineFindings(events, index), p) <=> EngineEnforced(events, index, p)
<1>1. ASSUME AnyEnforced(EngineFindings(events, index), p) PROVE EngineEnforced(events, index, p)
  <2>1. PICK j \in LastFailures(events) :
            LET f == EngineFinding(events[j], index) IN Enforced(f.print, f.severity, p)
    BY <1>1 DEF AnyEnforced, EngineFindings
  <2>2. events[j] \in ToSet(events) /\ Failed(events[j])
    BY DEF LastFailures, ToSet
  <2>3. QED
    BY <2>1, <2>2 DEF EngineEnforced, EngineFinding
<1>2. ASSUME EngineEnforced(events, index, p) PROVE AnyEnforced(EngineFindings(events, index), p)
  <2>1. PICK i \in DOMAIN events :
            /\ Failed(events[i])
            /\ Enforced(<<"schemathesis", events[i].check, index[events[i].operation]>>,
                        CheckSeverity[events[i].check], p)
    BY <1>2 DEF EngineEnforced, ToSet
  <2>2. PICK j \in LastFailures(events) : SameCheck(events[i], events[j])
    BY <2>1, LastExists
  <2>3. LET f == EngineFinding(events[j], index) IN
        f \in EngineFindings(events, index) /\ Enforced(f.print, f.severity, p)
    BY <2>1, <2>2 DEF EngineFindings, EngineFinding, SameCheck
  <2>4. QED
    BY <2>3 DEF AnyEnforced
<1>3. QED
  BY <1>1, <1>2

LEMMA EngineJudged ==
    ASSUME NEW events, NEW index, NEW p, IsList(events)
    PROVE  LET code == Judged(SchemathesisNormalized(events, index), p) IN
           /\ code \in {0, 1, 3}
           /\ code = 3 <=> \/ ~EngineAccepts(events, index)
                           \/ Cardinality(FailedChecks(events)) > MaxFindings
           /\ code # 3 => (code = 1 <=> EngineEnforced(events, index, p))
<1> DEFINE T == EngineFindings(events, index)
<1>1. CASE ~EngineAccepts(events, index)
  BY <1>1, EngineFacts, RefusalJudged
<1>2. CASE EngineAccepts(events, index)
  <2>1. SchemathesisNormalized(events, index) = Yield(SetToSeq(T)) /\ IsFiniteSet(T)
    BY <1>2, EngineFacts
  <2>2. Cardinality(T) = Cardinality(FailedChecks(events))
    BY EngineFindingsCounted
  <2>3. AnyEnforced(T, p) <=> EngineEnforced(events, index, p)
    BY EngineFindingsEnforced
  <2> HIDE DEF T
  <2>4. /\ IsList(SetToSeq(T)) /\ ToSet(SetToSeq(T)) = T /\ Len(SetToSeq(T)) = Cardinality(T)
    BY <2>1, SetToSeqFacts DEF IsList
  <2>5. QED
    BY <1>2, <2>1, <2>2, <2>3, <2>4, YieldJudged
<1>3. QED
  BY <1>1, <1>2

LEMMA ReverseFacts ==
    ASSUME NEW s, IsList(s)
    PROVE  IsList(Reverse(s)) /\ ToSet(Reverse(s)) = ToSet(s)
<1> DEFINE N == Len(s)
           e(i) == s[N - i + 1]
<1>1. N \in Nat /\ DOMAIN s = 1..N
  BY DEF IsList
<1>2. Reverse(s) = [i \in 1..N |-> e(i)]
  BY DEF Reverse
<1>3. \A i \in 1..N : N - i + 1 \in 1..N /\ N - (N - i + 1) + 1 = i
  BY <1>1
<1>4. \A i \in 1..N : e(i) \in ToSet(s)
  BY <1>1, <1>3 DEF ToSet
<1>5. \A i \in 1..N : s[i] = e(N - i + 1)
  BY <1>3
<1> HIDE DEF e, N
<1>6. Reverse(s) \in [1..N -> ToSet(s)]
  BY <1>2, <1>4
<1>7. IsList(Reverse(s))
  BY <1>1, <1>6 DEF IsList
<1>8. DOMAIN Reverse(s) = 1..N /\ \A i \in 1..N : Reverse(s)[i] = e(i)
  BY <1>2
<1>9. ToSet(s) \subseteq ToSet(Reverse(s))
  BY <1>1, <1>3, <1>5, <1>8 DEF ToSet
<1>10. ToSet(Reverse(s)) \subseteq ToSet(s)
  BY <1>4, <1>8 DEF ToSet
<1>11. QED
  BY <1>7, <1>9, <1>10

LEMMA EngineAccounted ==
    ASSUME NEW events \in EngineReports, NEW p
    PROVE  EngineIsAccounted(events, p)
<1> DEFINE code == Judged(SchemathesisNormalized(events, Index), p)
           reversed == Judged(SchemathesisNormalized(Reverse(events), Index), p)
<1>1. /\ IsList(events) /\ IsList(Reverse(events))
      /\ ToSet(Reverse(events)) = ToSet(events)
  BY EventsAreLists, ReverseFacts
<1>2. \A s : EngineAccepts(s, Index) <=> /\ \E e \in ToSet(s) : e.type = "finished"
                                         /\ \A e \in ToSet(s) : ~EventRefused(e, Index)
  BY DEF EngineAccepts, Finished, ToSet
<1>3. /\ EngineAccepts(Reverse(events), Index) <=> EngineAccepts(events, Index)
      /\ FailedChecks(Reverse(events)) = FailedChecks(events)
      /\ EngineEnforced(Reverse(events), Index, p) <=> EngineEnforced(events, Index, p)
  BY <1>1, <1>2 DEF FailedChecks, EngineEnforced
<1>4. /\ code \in {0, 1, 3}
      /\ code = 3 <=> ~EngineAccepts(events, Index) \/ Cardinality(FailedChecks(events)) > MaxFindings
      /\ code # 3 => (code = 1 <=> EngineEnforced(events, Index, p))
  BY <1>1, EngineJudged
<1>5. /\ reversed \in {0, 1, 3}
      /\ reversed = 3 <=> ~EngineAccepts(events, Index) \/ Cardinality(FailedChecks(events)) > MaxFindings
      /\ reversed # 3 => (reversed = 1 <=> EngineEnforced(events, Index, p))
  BY <1>1, <1>3, EngineJudged
<1>6. code = reversed
  <2> HIDE DEF code, reversed
  <2>1. QED
    BY <1>4, <1>5
<1>7. EngineEnforced(events, Index, p) <=> \E i \in DOMAIN events :
            /\ Failed(events[i])
            /\ Enforced(<<"schemathesis", events[i].check, Index[events[i].operation]>>,
                        CheckSeverity[events[i].check], p)
  BY DEF EngineEnforced, ToSet
<1>8. QED
  BY <1>4, <1>6, <1>7 DEF EngineIsAccounted, EngineAccepts, Finished

-----------------------------------------------------------------------------
(* What is finite: the operations of a document, and the requests.          *)

LEMMA ListIsFinite ==
    ASSUME NEW s, IsList(s) PROVE IsFiniteSet(DOMAIN s) /\ IsFiniteSet(ToSet(s))
<1>1. IsFiniteSet(DOMAIN s)
  <2>1. Len(s) \in Int /\ DOMAIN s = 1..Len(s)
    BY DEF IsList
  <2>2. QED
    BY <2>1, FS_Interval
<1> DEFINE f == [i \in DOMAIN s |-> s[i]]
<1>2. f \in [DOMAIN s -> ToSet(s)] /\ \A x \in ToSet(s) : \E i \in DOMAIN s : f[i] = x
  BY DEF ToSet
<1>3. QED
  <2> HIDE DEF f
  <2>1. QED
    BY <1>1, <1>2, ImageIsFinite

LEMMA SeqIsList == ASSUME NEW X, NEW s \in Seq(X) PROVE IsList(s)
BY LenProperties DEF IsList

LEMMA SpelledIsFinite ==
    ASSUME NEW path, path.entries \in Seq(ToSet(path.entries))
    PROVE  IsFiniteSet({[path |-> path, entry |-> path.entries[i]] :
               i \in {i \in DOMAIN path.entries : path.entries[i].method \in DOMAIN Verb}})
<1> DEFINE I == {i \in DOMAIN path.entries : path.entries[i].method \in DOMAIN Verb}
           T == {[path |-> path, entry |-> path.entries[i]] : i \in I}
           f == [i \in I |-> [path |-> path, entry |-> path.entries[i]]]
<1>1. IsFiniteSet(I)
  <2>1. IsFiniteSet(DOMAIN path.entries)
    BY SeqIsList, ListIsFinite
  <2>2. I \subseteq DOMAIN path.entries
    OBVIOUS
  <2> HIDE DEF I
  <2>3. QED
    BY <2>1, <2>2, FS_Subset
<1>2. f \in [I -> T] /\ \A t \in T : \E i \in I : f[i] = t
  OBVIOUS
<1>3. IsFiniteSet(T)
  <2> HIDE DEF I, T, f
  <2>1. QED
    BY <1>1, <1>2, ImageIsFinite
<1>4. QED
  BY <1>3

LEMMA DeclaredIsFinite ==
    ASSUME NEW schema, WellFormed(schema) PROVE IsFiniteSet(Declared(schema))
<1> DEFINE E(path) == {[path |-> path, entry |-> path.entries[i]] :
               i \in {i \in DOMAIN path.entries : path.entries[i].method \in DOMAIN Verb}}
           S == ToSet(schema.paths)
           T == {E(path) : path \in S}
           f == [path \in S |-> E(path)]
<1>1. IsFiniteSet(S)
  BY SeqIsList, ListIsFinite DEF WellFormed
<1>2. \A path \in S : IsFiniteSet(E(path))
  BY SpelledIsFinite DEF WellFormed
<1>3. Declared(schema) = UNION T
  BY DEF Declared
<1> HIDE DEF E, S
<1>4. f \in [S -> T] /\ \A t \in T : \E path \in S : f[path] = t
  OBVIOUS
<1>5. \A t \in T : IsFiniteSet(t)
  BY <1>2
<1>6. IsFiniteSet(T)
  <2> HIDE DEF T, f
  <2>1. QED
    BY <1>1, <1>4, ImageIsFinite
<1>7. QED
  <2> HIDE DEF T
  <2>1. QED
    BY <1>3, <1>5, <1>6, FS_UNION

LEMMA PlacesAreFinite ==
    ASSUME NEW schema, WellFormed(schema), NEW d \in Declared(schema)
    PROVE  IsFiniteSet(Planned(d.path, d.entry).places)
<1> DEFINE all == d.path.common \o d.entry.places
           tested == {i \in DOMAIN all : Testable(all[i])}
           before(i) == {j \in tested :
               /\ all[j].in = all[i].in
               /\ \/ NameOrder[all[j].name] < NameOrder[all[i].name]
                  \/ all[j].name = all[i].name /\ j < i}
           T == {[place |-> all[i], turn |-> Cardinality(before(i))] : i \in tested}
           f == [i \in tested |-> [place |-> all[i], turn |-> Cardinality(before(i))]]
<1>1. IsList(all)
  <2> DEFINE A == ToSet(d.path.common)
             B == ToSet(d.entry.places)
  <2>1. PICK path \in ToSet(schema.paths) : d.path = path /\ \E i \in DOMAIN path.entries : d.entry = path.entries[i]
    BY DEF Declared
  <2>2. d.entry \in ToSet(path.entries)
    BY <2>1 DEF ToSet
  <2>3. d.path.common \in Seq(A) /\ d.entry.places \in Seq(B)
    BY <2>1, <2>2 DEF WellFormed
  <2> HIDE DEF A, B
  <2>4. d.path.common \in Seq(A \cup B) /\ d.entry.places \in Seq(A \cup B)
    BY <2>3
  <2>5. all \in Seq(A \cup B)
    BY <2>4, ConcatProperties
  <2> HIDE DEF all
  <2>6. QED
    BY <2>5, SeqIsList
<1>2. Planned(d.path, d.entry).places = T
  BY DEF Planned
<1> HIDE DEF all, before
<1>3. IsFiniteSet(tested)
  <2>1. IsFiniteSet(DOMAIN all) /\ tested \subseteq DOMAIN all
    BY <1>1, ListIsFinite
  <2> HIDE DEF tested
  <2>2. QED
    BY <2>1, FS_Subset
<1> HIDE DEF tested
<1>4. f \in [tested -> T] /\ \A t \in T : \E i \in tested : f[i] = t
  OBVIOUS
<1>5. QED
  <2> HIDE DEF T, f
  <2>1. QED
    BY <1>2, <1>3, <1>4, ImageIsFinite

LEMMA PlanIsFinite ==
    ASSUME NEW schema, WellFormed(schema)
    PROVE  /\ IsFiniteSet(InjectionPlan(schema))
           /\ \A o \in InjectionPlan(schema) : IsFiniteSet(o.places)
<1> DEFINE S == ToPlan(schema)
           T == InjectionPlan(schema)
           f == [d \in S |-> Planned(d.path, d.entry)]
<1>1. IsFiniteSet(S)
  <2>1. S \subseteq Declared(schema)
    BY DEF ToPlan
  <2> HIDE DEF S
  <2>2. QED
    BY <2>1, DeclaredIsFinite, FS_Subset
<1>2. f \in [S -> T] /\ \A t \in T : \E d \in S : f[d] = t
  BY DEF InjectionPlan
<1>3. \A d \in S : IsFiniteSet(Planned(d.path, d.entry).places)
  BY PlacesAreFinite DEF ToPlan
<1>4. \A o \in T : IsFiniteSet(o.places)
  BY <1>3 DEF InjectionPlan
<1>5. IsFiniteSet(T)
  <2> HIDE DEF S, T, f
  <2>1. QED
    BY <1>1, <1>2, ImageIsFinite
<1>6. QED
  BY <1>4, <1>5

\* The requests for one operation and family.
PlacesTried(o, f) == UNION {Candidates(o, l) : l \in Families[f].locations}
RequestsOf(o, f) == {[operation |-> o.id, family |-> f, place |-> c] : c \in PlacesTried(o, f)}
Chosen(operations, safeOnly) == {o \in operations : safeOnly => o.verb \in SafeVerbs}

LEMMA RequestsAre ==
    \A operations, safeOnly :
        Requests(operations, safeOnly) =
            UNION {UNION {RequestsOf(o, f) : f \in DOMAIN Families} : o \in Chosen(operations, safeOnly)}
BY DEF Requests, RequestsOf, PlacesTried, Chosen

LEMMA CandidatesAreFinite ==
    ASSUME NEW o, NEW l, IsFiniteSet(o.places) PROVE IsFiniteSet(Candidates(o, l))
<1> DEFINE S == {q \in o.places : q.place.in = l /\ q.turn < MaxCandidates}
           T == Candidates(o, l)
           f == [q \in S |-> q.place]
<1>1. IsFiniteSet(S)
  <2>1. S \subseteq o.places
    OBVIOUS
  <2> HIDE DEF S
  <2>2. QED
    BY <2>1, FS_Subset
<1>2. f \in [S -> T] /\ \A t \in T : \E q \in S : f[q] = t
  BY DEF Candidates
<1>3. QED
  <2> HIDE DEF S, T, f
  <2>1. IsFiniteSet(T)
    BY <1>1, <1>2, ImageIsFinite
  <2>2. QED
    BY <2>1 DEF T

LEMMA RequestsOfAreFinite ==
    ASSUME NEW o, NEW f \in DOMAIN Families, IsFiniteSet(o.places)
    PROVE  IsFiniteSet(RequestsOf(o, f))
<1> DEFINE L == Families[f].locations
           C == {Candidates(o, l) : l \in L}
           g == [l \in L |-> Candidates(o, l)]
           P == PlacesTried(o, f)
           T == RequestsOf(o, f)
           h == [c \in P |-> [operation |-> o.id, family |-> f, place |-> c]]
<1>1. IsFiniteSet(L)
  BY LimitsAssumption
<1>2. \A l \in L : IsFiniteSet(Candidates(o, l))
  BY CandidatesAreFinite
<1>3. P = UNION C
  BY DEF PlacesTried
<1>4. h \in [P -> T] /\ \A t \in T : \E c \in P : h[c] = t
  BY DEF RequestsOf
<1> HIDE DEF L, P, T, h
<1>5. g \in [L -> C] /\ \A t \in C : \E l \in L : g[l] = t
  OBVIOUS
<1>6. \A t \in C : IsFiniteSet(t)
  BY <1>2
<1> HIDE DEF C, g
<1>7. IsFiniteSet(P)
  BY <1>1, <1>3, <1>5, <1>6, ImageIsFinite, FS_UNION
<1>8. IsFiniteSet(T)
  BY <1>4, <1>7, ImageIsFinite
<1>9. QED
  BY <1>8 DEF T

LEMMA RequestsAreFinite ==
    ASSUME NEW operations, NEW safeOnly, IsFiniteSet(operations),
           \A o \in operations : IsFiniteSet(o.places)
    PROVE  IsFiniteSet(Requests(operations, safeOnly))
<1> DEFINE O == Chosen(operations, safeOnly)
           F == DOMAIN Families
           R(o) == {RequestsOf(o, f) : f \in F}
           U == {UNION R(o) : o \in O}
           u == [o \in O |-> UNION R(o)]
<1>1. ASSUME NEW o \in O PROVE IsFiniteSet(UNION R(o))
  <2> DEFINE C == R(o)
             g == [f \in F |-> RequestsOf(o, f)]
  <2>1. o \in operations
    BY DEF Chosen
  <2>2. \A f \in F : IsFiniteSet(RequestsOf(o, f))
    BY <2>1, RequestsOfAreFinite
  <2>3. IsFiniteSet(F)
    BY LimitsAssumption
  <2> HIDE DEF F
  <2>4. g \in [F -> C] /\ (\A t \in C : \E f \in F : g[f] = t) /\ \A t \in C : IsFiniteSet(t)
    BY <2>2
  <2> HIDE DEF C, g
  <2>5. IsFiniteSet(UNION C)
    BY <2>3, <2>4, ImageIsFinite, FS_UNION
  <2>6. QED
    BY <2>5 DEF C
<1>2. IsFiniteSet(O)
  <2>1. O \subseteq operations
    BY DEF Chosen
  <2>2. QED
    BY <2>1, FS_Subset
<1>3. Requests(operations, safeOnly) = UNION U
  BY RequestsAre
<1> HIDE DEF O, R
<1>4. u \in [O -> U] /\ (\A t \in U : \E o \in O : u[o] = t) /\ \A t \in U : IsFiniteSet(t)
  BY <1>1
<1> HIDE DEF U, u
<1>5. QED
  BY <1>2, <1>3, <1>4, ImageIsFinite, FS_UNION

-----------------------------------------------------------------------------
(* One document, three readers.                                             *)

LastSpelled(path) ==
    {i \in DOMAIN path.entries :
        /\ path.entries[i].method \in DOMAIN Verb
        /\ Verb[path.entries[i].method] # "TRACE"
        /\ \A j \in i + 1 .. Len(path.entries) :
              path.entries[j].method \in DOMAIN Verb
                => Verb[path.entries[j].method] # Verb[path.entries[i].method]}
Kept(schema) ==
    UNION {{[place |-> Place(path, path.entries[i]), id |-> path.entries[i].id] :
               i \in LastSpelled(path)} : path \in ToSet(schema.paths)}

LEMMA IndexIs ==
    \A schema : OperationIndex(schema) =
        [place \in {k.place : k \in Kept(schema)} |-> (CHOOSE k \in Kept(schema) : k.place = place).id]
BY DEF OperationIndex, Kept, LastSpelled

\* What is kept for the index is declared.
LEMMA KeptIsDeclared ==
    ASSUME NEW schema, NEW k \in Kept(schema)
    PROVE  \E d \in Declared(schema) : /\ k.place = Place(d.path, d.entry)
                                       /\ k.id = d.entry.id
                                       /\ Verb[d.entry.method] # "TRACE"
<1>1. PICK path \in ToSet(schema.paths) : \E i \in LastSpelled(path) :
          k = [place |-> Place(path, path.entries[i]), id |-> path.entries[i].id]
  BY DEF Kept
<1>2. PICK i \in LastSpelled(path) :
          k = [place |-> Place(path, path.entries[i]), id |-> path.entries[i].id]
  BY <1>1
<1> DEFINE d == [path |-> path, entry |-> path.entries[i]]
<1>3. d \in Declared(schema) /\ Verb[d.entry.method] # "TRACE"
  BY DEF Declared, LastSpelled
<1>4. k.place = Place(d.path, d.entry) /\ k.id = d.entry.id
  BY <1>2
<1>5. QED
  BY <1>3, <1>4

\* Of every method that is spelled in a path item, some spelling is the last.
LEMMA DeclaredIsKept ==
    ASSUME NEW schema, WellFormed(schema), NEW d \in Declared(schema), Verb[d.entry.method] # "TRACE"
    PROVE  \E k \in Kept(schema) : k.place = Place(d.path, d.entry)
<1>0. PICK path \in ToSet(schema.paths) : \E i \in DOMAIN path.entries :
          path.entries[i].method \in DOMAIN Verb /\ d = [path |-> path, entry |-> path.entries[i]]
  BY DEF Declared
<1>1. PICK i \in DOMAIN path.entries :
          path.entries[i].method \in DOMAIN Verb /\ d = [path |-> path, entry |-> path.entries[i]]
  BY <1>0
<1> DEFINE N == Len(path.entries)
           verb(j) == Verb[path.entries[j].method]
           same == {j \in 1..N : path.entries[j].method \in DOMAIN Verb /\ verb(j) = verb(i)}
           T == {N - j : j \in same}
<1>2. N \in Nat /\ DOMAIN path.entries = 1..N
  BY <1>1, SeqIsList DEF WellFormed, IsList
<1>3. i \in same
  BY <1>1, <1>2
<1>4. T \subseteq Nat /\ T # {}
  <2>1. same \subseteq 1..N
    OBVIOUS
  <2> HIDE DEF same, N
  <2>2. \A j \in same : N - j \in Nat
    BY <1>2, <2>1
  <2>3. QED
    BY <1>3, <2>2
<1>5. PICK least \in T : \A n \in T : ~(n < least)
  <2> HIDE DEF T
  <2>1. QED
    BY <1>4, LeastNatural
<1>6. PICK j \in same : least = N - j
  BY <1>5
<1>7. ASSUME NEW m \in j + 1 .. N, path.entries[m].method \in DOMAIN Verb PROVE verb(m) # verb(j)
  <2> SUFFICES ASSUME verb(m) = verb(j) PROVE FALSE
    OBVIOUS
  <2>1. m \in 1..N /\ m > j
    BY <1>2, <1>6, <1>7
  <2>2. m \in same
    BY <1>6, <1>7, <2>1
  <2>3. N - m \in T /\ N - m < least
    BY <1>2, <1>6, <2>1, <2>2
  <2>4. QED
    BY <1>5, <2>3
<1>8. verb(i) # "TRACE" /\ verb(j) = verb(i)
  BY <1>1, <1>6
<1>9. j \in LastSpelled(path)
  BY <1>2, <1>6, <1>7, <1>8 DEF LastSpelled
<1> DEFINE k == [place |-> Place(path, path.entries[j]), id |-> path.entries[j].id]
<1>10. k \in Kept(schema)
  BY <1>1, <1>9 DEF Kept
<1>11. k.place = Place(d.path, d.entry)
  BY <1>1, <1>8 DEF Place
<1>12. QED
  BY <1>10, <1>11

\* The index of an accepted document: its operations, each by its own identifier
\* or that of another spelling.
LEMMA IndexFacts ==
    ASSUME NEW schema, WellFormed(schema), \A d \in Declared(schema) : Verb[d.entry.method] # "TRACE"
    PROVE  LET index == OperationIndex(schema) IN
           /\ DOMAIN index = {Place(d.path, d.entry) : d \in Declared(schema)}
           /\ \A place \in DOMAIN index : \E d \in Declared(schema) :
                 Place(d.path, d.entry) = place /\ index[place] = d.entry.id
<1> DEFINE index == OperationIndex(schema)
           K == Kept(schema)
<1>1. /\ DOMAIN index = {k.place : k \in K}
      /\ \A place \in DOMAIN index : index[place] = (CHOOSE k \in K : k.place = place).id
  BY IndexIs
<1> HIDE DEF index
<1>2. DOMAIN index = {Place(d.path, d.entry) : d \in Declared(schema)}
  BY <1>1, KeptIsDeclared, DeclaredIsKept
<1>3. ASSUME NEW place \in DOMAIN index
      PROVE  \E d \in Declared(schema) : Place(d.path, d.entry) = place /\ index[place] = d.entry.id
  <2> DEFINE k == CHOOSE k \in K : k.place = place
  <2>1. k \in K /\ k.place = place
    BY <1>1
  <2>2. index[place] = k.id
    BY <1>1
  <2> HIDE DEF k
  <2>3. QED
    BY <2>1, <2>2, KeptIsDeclared
<1>4. QED
  BY <1>2, <1>3 DEF index

\* A request is made for an operation of the plan.
LEMMA RequestFacts ==
    ASSUME NEW operations, NEW safeOnly, NEW r \in Requests(operations, safeOnly)
    PROVE  /\ \E o \in operations : r.operation = o.id /\ (safeOnly => o.verb \in SafeVerbs)
           /\ r.family \in DOMAIN Families
           /\ r.place.in \in Families[r.family].locations
<1>1. PICK o \in Chosen(operations, safeOnly) : r \in UNION {RequestsOf(o, f) : f \in DOMAIN Families}
  BY RequestsAre
<1>2. PICK f \in DOMAIN Families : r \in RequestsOf(o, f)
  BY <1>1
<1>3. PICK c \in PlacesTried(o, f) : r = [operation |-> o.id, family |-> f, place |-> c]
  BY <1>2 DEF RequestsOf
<1>4. PICK l \in Families[f].locations : c \in Candidates(o, l)
  BY <1>3 DEF PlacesTried
<1>5. c.in = l
  BY <1>4 DEF Candidates
<1>6. QED
  BY <1>1, <1>3, <1>4, <1>5 DEF Chosen

LEMMA SchemaShared ==
    ASSUME NEW schema \in OtherSchemas \cup {Schema} PROVE SchemaIsShared(schema)
<1> SUFFICES ASSUME ~SchemaRefused(schema) PROVE SchemaIsShared(schema)
  BY DEF SchemaIsShared
<1> DEFINE index == OperationIndex(schema)
           declared == Declared(schema)
           plan == InjectionPlan(schema)
<1>0. WellFormed(schema)
  BY EvidenceAssumption
<1>1. schema.refs \subseteq {"local"} /\ schema.servers \subseteq {"target"}
  BY DEF SchemaRefused
<1>2. /\ \A d \in declared : Verb[d.entry.method] # "TRACE"
      /\ Identified(declared) /\ Cardinality(declared) \in 1..MaxOperations
  BY DEF SchemaRefused
<1>3. /\ DOMAIN index = {Place(d.path, d.entry) : d \in declared}
      /\ \A place \in DOMAIN index : \E d \in declared :
            Place(d.path, d.entry) = place /\ index[place] = d.entry.id
  BY <1>0, <1>2, IndexFacts
<1>4. ~PlanRefused(schema)
  <2>1. ToPlan(schema) \subseteq declared /\ IsFiniteSet(declared)
    BY <1>0, DeclaredIsFinite DEF ToPlan
  <2> HIDE DEF declared
  <2>2. Cardinality(ToPlan(schema)) <= Cardinality(declared) /\ IsFiniteSet(ToPlan(schema))
    BY <2>1, FS_Subset
  <2>3. Cardinality(ToPlan(schema)) \in Nat
    BY <2>2, FS_CardinalityType
  <2>4. QED
    BY <1>2, <2>2, <2>3, MaxOperationsAssumption DEF PlanRefused
<1>5. \A place \in DOMAIN index : place[1] # "TRACE"
  BY <1>2, <1>3 DEF Place
<1> HIDE DEF index
<1>6. ASSUME NEW d \in declared
      PROVE  index[Place(d.path, d.entry)] = d.entry.id \/ Contested(schema, d)
  <2>1. PICK other \in declared : /\ Place(other.path, other.entry) = Place(d.path, d.entry)
                                  /\ index[Place(d.path, d.entry)] = other.entry.id
    BY <1>3
  <2>2. QED
    BY <2>1 DEF Contested
<1>7. ASSUME NEW p \in DOMAIN index, NEW q \in DOMAIN index, index[p] = index[q] PROVE p = q
  <2>1. PICK d \in declared : Place(d.path, d.entry) = p /\ index[p] = d.entry.id
    BY <1>3
  <2>2. PICK e \in declared : Place(e.path, e.entry) = q /\ index[q] = e.entry.id
    BY <1>3
  <2>3. d = e
    BY <1>2, <1>7, <2>1, <2>2 DEF Identified
  <2>4. QED
    BY <2>1, <2>2, <2>3
<1>8. ASSUME NEW d \in declared, d.entry.method \in PlannedMethods PROVE Planned(d.path, d.entry) \in plan
  BY <1>8 DEF InjectionPlan, ToPlan
<1>9. ASSUME NEW r \in Requests(plan, TRUE)
      PROVE  \E place \in DOMAIN index : place[1] \in SafeVerbs
                 /\ \E d \in declared : d.entry.id = r.operation /\ Place(d.path, d.entry) = place
  <2>1. PICK o \in plan : r.operation = o.id /\ o.verb \in SafeVerbs
    BY RequestFacts
  <2>2. PICK d \in declared : o = Planned(d.path, d.entry)
    BY DEF InjectionPlan, ToPlan
  <2>3. Place(d.path, d.entry)[1] = o.verb /\ d.entry.id = o.id
    BY <2>2 DEF Planned, Place
  <2>4. Place(d.path, d.entry) \in DOMAIN index
    BY <1>3
  <2>5. QED
    BY <2>1, <2>3, <2>4
<1>10. QED
  BY <1>1, <1>3, <1>4, <1>5, <1>6, <1>7, <1>8, <1>9 DEF SchemaIsShared, index

-----------------------------------------------------------------------------
(* The settings.                                                            *)

LEMMA LaunchesAre ==
    /\ LaunchesOf("contract") = <<"scanner">> /\ LaunchesOf("fuzz") = <<"scanner">>
    /\ LaunchesOf("injection") = <<"injection">> /\ LaunchesOf("combined") = <<"scanner", "injection">>
<1> DEFINE s == <<"scanner">>
           t == <<"injection">>
           X == {"scanner", "injection"}
<1>1. s \in Seq(X) /\ t \in Seq(X) /\ Len(s) = 1 /\ Len(t) = 1 /\ s[1] = "scanner" /\ t[1] = "injection"
  OBVIOUS
<1>2. s \o <<>> = s /\ <<>> \o t = t /\ s \o t = <<"scanner", "injection">>
  <2> HIDE DEF s, t, X
  <2>1. s \o <<>> = s /\ <<>> \o t = t
    BY <1>1, ConcatEmptySeq
  <2>2. /\ s \o t \in Seq(X) /\ Len(s \o t) = Len(s) + Len(t)
        /\ \A i \in 1..Len(s) + Len(t) : (s \o t)[i] = IF i <= Len(s) THEN s[i] ELSE t[i - Len(s)]
    BY <1>1, ConcatProperties
  <2>3. Len(s) + Len(t) = 2
    BY <1>1
  <2>4. Len(s \o t) = 2 /\ (s \o t)[1] = "scanner" /\ (s \o t)[2] = "injection"
    BY <1>1, <2>2, <2>3
  <2>5. \A u \in Seq(X) : Len(u) = 2 => u = <<u[1], u[2]>>
    OBVIOUS
  <2>6. QED
    BY <2>1, <2>2, <2>4, <2>5
<1>3. QED
  BY <1>2 DEF LaunchesOf

LEMMA DefaultIsAccepted == ~SettingsRefused(DefaultSettings)
BY DEF SettingsRefused, DefaultSettings

LEMMA SettingsKept == ASSUME NEW settings \in Settings PROVE SettingsAreKept(settings)
<1> SUFFICES ASSUME ~SettingsRefused(settings) PROVE SettingsAreKept(settings)
  BY DEF SettingsAreKept
<1> DEFINE launches == LaunchesOf(settings.mode)
<1>1. settings.mode \in FuzzingModes /\ settings.safeOnly \in BOOLEAN /\ settings.mutating \in BOOLEAN
  BY DEF Settings
<1>2. launches \in Modes("fuzzing")
  BY <1>1, LaunchesAre DEF FuzzingModes, Modes
<1>3. "injection" \in ToSet(launches) => settings.mode \in {"injection", "combined"}
  BY <1>1, LaunchesAre DEF FuzzingModes, ToSet
<1>4. "injection" \in ToSet(launches) => settings.injection
  BY <1>3 DEF SettingsRefused
<1>5. ~settings.safeOnly => settings.mutating
  BY <1>1 DEF SettingsRefused
<1>6. ASSUME NEW r \in Requests(Operations, settings.safeOnly), NEW o \in Operations,
             o.id = r.operation, o.verb \notin SafeVerbs
      PROVE  settings.mutating
  <2> SUFFICES ASSUME settings.safeOnly PROVE FALSE
    BY <1>5
  <2>1. PICK other \in Operations : other.id = o.id /\ other.verb \in SafeVerbs
    BY <1>6, RequestFacts
  <2>2. PICK d \in Declared(Schema) : o = Planned(d.path, d.entry)
    BY DEF Operations, InjectionPlan, ToPlan
  <2>3. PICK e \in Declared(Schema) : other = Planned(e.path, e.entry)
    BY DEF Operations, InjectionPlan, ToPlan
  <2>4. d.entry.id = e.entry.id
    BY <2>1, <2>2, <2>3 DEF Planned
  <2>5. Identified(Declared(Schema))
    BY EvidenceAssumption DEF SchemaRefused
  <2>6. d = e
    BY <2>4, <2>5 DEF Identified
  <2>7. QED
    BY <1>6, <2>1, <2>2, <2>3, <2>6
<1>7. QED
  <2> HIDE DEF launches
  <2>1. CASE "injection" \in ToSet(launches)
    BY <1>2, <1>4, <1>6, <2>1 DEF SettingsAreKept, launches
  <2>2. CASE "injection" \notin ToSet(launches)
    BY <1>2, <2>2 DEF SettingsAreKept, launches
  <2>3. QED
    BY <2>1, <2>2

-----------------------------------------------------------------------------
(* The evidence of a combined run.                                          *)

\* The findings of the suspicious reactions.
Seen(r, reaction) == InjectionFinding([request |-> r, reason |-> reaction[r]])
SuspiciousOf(requests, reaction) == {r \in requests : reaction[r] \in Suspicious}
InjectionFound(requests, reaction) == {Seen(r, reaction) : r \in SuspiciousOf(requests, reaction)}
InjectionPrints(requests, reaction) ==
    {Seen(r, reaction).print : r \in SuspiciousOf(requests, reaction)}

\* The launcher writes nothing that the script refuses.
LEMMA LaunchedFacts ==
    ASSUME NEW operations, NEW safeOnly, NEW reaction
    PROVE  LET requests == Requests(operations, safeOnly)
               report == Launched(requests, reaction)
           IN /\ InjectionNormalized(report) = Yield(SetToSeq(InjectionFound(requests, reaction)))
              /\ TimedOut(report) <=> \E r \in requests : reaction[r] \in Unreachable
<1> DEFINE requests == Requests(operations, safeOnly)
           report == Launched(requests, reaction)
           noted == {r \in requests : reaction[r] \in Suspicious \cup Unreachable}
           event(r) == [request |-> r, reason |-> reaction[r]]
           lasting == {e \in report.events : e.reason \notin RuntimeFailures}
<1>1. report.events = {event(r) : r \in noted} /\ report.summaries = 1
  BY DEF Launched
<1>2. \A r \in requests : r.family \in DOMAIN Families /\ r.place.in \in Families[r.family].locations
  BY RequestFacts
<1>3. \A r : event(r).request = r /\ event(r).reason = reaction[r]
  OBVIOUS
<1> HIDE DEF requests, report, event
<1>4. /\ \A x \in Suspicious : x \in DetectionReasons /\ x \notin RuntimeFailures
      /\ \A x \in Unreachable : x \in DetectionReasons /\ x \in RuntimeFailures
      /\ \A x \in RuntimeFailures : x \in Suspicious \cup Unreachable => x \in Unreachable
  BY DEF Suspicious, Unreachable, DetectionReasons, RuntimeFailures
<1>5. \A e \in report.events : ~InjectionEventRefused(e)
  BY <1>1, <1>2, <1>3, <1>4 DEF InjectionEventRefused
<1>6. lasting = {event(r) : r \in SuspiciousOf(requests, reaction)}
  <2>1. ASSUME NEW e \in lasting PROVE e \in {event(r) : r \in SuspiciousOf(requests, reaction)}
    <3>1. PICK r \in noted : e = event(r)
      BY <1>1
    <3>2. reaction[r] \in Suspicious
      BY <1>3, <1>4, <3>1
    <3>3. QED
      BY <3>1, <3>2 DEF SuspiciousOf
  <2>2. ASSUME NEW r \in SuspiciousOf(requests, reaction) PROVE event(r) \in lasting
    <3>1. r \in noted
      BY DEF SuspiciousOf
    <3>2. event(r).reason \notin RuntimeFailures
      BY <1>3, <1>4 DEF SuspiciousOf
    <3>3. QED
      BY <1>1, <3>1, <3>2
  <2>3. QED
    BY <2>1, <2>2
<1>7. {InjectionFinding(e) : e \in lasting} = InjectionFound(requests, reaction)
  <2> HIDE DEF lasting
  <2>1. \A r : InjectionFinding(event(r)) = Seen(r, reaction)
    BY DEF Seen, event
  <2>2. QED
    BY <1>6, <2>1 DEF InjectionFound
<1>8. InjectionNormalized(report) = Yield(SetToSeq(InjectionFound(requests, reaction)))
  BY <1>1, <1>5, <1>7 DEF InjectionNormalized
<1>9. TimedOut(report) <=> \E r \in requests : reaction[r] \in Unreachable
  <2>1. ASSUME TimedOut(report) PROVE \E r \in requests : reaction[r] \in Unreachable
    <3>1. PICK e \in report.events : e.reason \in RuntimeFailures
      BY <2>1 DEF TimedOut
    <3>2. PICK r \in noted : e = event(r)
      BY <1>1
    <3>3. QED
      BY <1>3, <1>4, <3>1, <3>2
  <2>2. ASSUME NEW r \in requests, reaction[r] \in Unreachable PROVE TimedOut(report)
    <3>1. event(r) \in report.events
      BY <1>1, <2>2
    <3>2. QED
      BY <1>3, <1>4, <2>2, <3>1 DEF TimedOut
  <2>3. QED
    BY <2>1, <2>2
<1>10. QED
  BY <1>8, <1>9 DEF requests, report

\* A fingerprint says what the rest of the finding is.
LEMMA InjectionFoundCounted ==
    ASSUME NEW requests, NEW reaction, IsFiniteSet(requests)
    PROVE  /\ IsFiniteSet(InjectionFound(requests, reaction))
           /\ Cardinality(InjectionFound(requests, reaction)) = Cardinality(InjectionPrints(requests, reaction))
<1> DEFINE S == SuspiciousOf(requests, reaction)
           T == InjectionFound(requests, reaction)
           P == InjectionPrints(requests, reaction)
           f == [r \in S |-> Seen(r, reaction)]
           g == [x \in T |-> x.print]
<1>1. IsFiniteSet(S)
  <2>1. S \subseteq requests
    BY DEF SuspiciousOf
  <2> HIDE DEF S
  <2>2. QED
    BY <2>1, FS_Subset
<1>2. f \in [S -> T] /\ \A t \in T : \E r \in S : f[r] = t
  BY DEF InjectionFound
<1>3. g \in [T -> P] /\ \A t \in P : \E x \in T : g[x] = t
  BY DEF InjectionFound, InjectionPrints
<1>4. ASSUME NEW x \in T, NEW y \in T, x.print = y.print PROVE x = y
  <2>1. PICK r \in S : x = Seen(r, reaction)
    BY DEF InjectionFound
  <2>2. PICK q \in S : y = Seen(q, reaction)
    BY DEF InjectionFound
  <2>3. r.family = q.family
    BY <1>4, <2>1, <2>2 DEF Seen, InjectionFinding
  <2>4. QED
    BY <1>4, <2>1, <2>2, <2>3 DEF Seen, InjectionFinding
<1>5. \A x, y \in T : g[x] = g[y] => x = y
  BY <1>4
<1>6. QED
  <2> HIDE DEF S, T, P, f, g
  <2>1. IsFiniteSet(T)
    BY <1>1, <1>2, ImageIsFinite
  <2>2. Cardinality(P) = Cardinality(T)
    BY <1>3, <1>5, <2>1, BijectionCounts
  <2>3. QED
    BY <2>1, <2>2 DEF T, P

\* The contract findings of a combined run, under their new fingerprints.
AdaptedPrint(e, index) == <<"combined", index[e.operation], ReasonByCheck[e.check], e.check>>

LEMMA AdaptedFacts ==
    ASSUME NEW events, NEW index, IsList(events), SchemathesisNormalized(events, index).accepted
    PROVE  LET adapted == Adapted(SchemathesisNormalized(events, index), "combined") IN
           /\ adapted.accepted
           /\ adapted.findings \in Seq(ToSet(adapted.findings))
           /\ \A f \in ToSet(adapted.findings) : \E e \in ToSet(events) :
                 Failed(e) /\ f.print = AdaptedPrint(e, index) /\ f.severity = CheckSeverity[e.check]
           /\ \A e \in ToSet(events) : Failed(e) => \E f \in ToSet(adapted.findings) :
                 f.print = AdaptedPrint(e, index) /\ f.severity = CheckSeverity[e.check]
<1> DEFINE contract == SchemathesisNormalized(events, index)
           adapted == Adapted(contract, "combined")
           T == EngineFindings(events, index)
           found == SetToSeq(T)
           adapt(f) == [f EXCEPT !.print = <<"combined", f.print[3], ReasonByCheck[f.print[2]], f.print[2]>>]
           m == Cardinality(T)
<1>1. EngineAccepts(events, index)
  BY EngineFacts DEF Refusal
<1>2. contract = Yield(found) /\ IsFiniteSet(T)
  BY <1>1, EngineFacts
<1>3. contract = [accepted |-> TRUE, findings |-> found]
  BY <1>2 DEF Yield, Refusal
<1>4. m \in Nat /\ found \in [1..m -> T] /\ DOMAIN found = 1..m /\ ToSet(found) = T
  <2> HIDE DEF T
  <2>1. QED
    BY <1>2, SetToSeqFacts
<1>5. ASSUME NEW j \in LastFailures(events)
      PROVE  LET f == EngineFinding(events[j], index) IN
             /\ events[j] \in ToSet(events) /\ Failed(events[j])
             /\ f.print[2] = events[j].check /\ f.print[2] \in DOMAIN ReasonByCheck
             /\ adapt(f).print = AdaptedPrint(events[j], index)
             /\ adapt(f).severity = CheckSeverity[events[j].check]
  <2>1. events[j] \in ToSet(events) /\ Failed(events[j]) /\ j \in DOMAIN events
    BY DEF LastFailures, ToSet
  <2>2. events[j].check \in DOMAIN CheckSeverity
    BY <1>1, <2>1 DEF EngineAccepts, EventRefused, Failed
  <2>3. DOMAIN CheckSeverity = DOMAIN ReasonByCheck
    BY DEF CheckSeverity, ReasonByCheck
  <2>4. QED
    BY <2>1, <2>2, <2>3 DEF EngineFinding, AdaptedPrint
<1>6. \A f \in T : \E j \in LastFailures(events) : f = EngineFinding(events[j], index)
  BY DEF EngineFindings
<1>7. \A f \in T : f.print[2] \in DOMAIN ReasonByCheck
  BY <1>5, <1>6
<1>8. adapted = [accepted |-> TRUE, findings |-> [i \in 1..m |-> adapt(found[i])]]
  <2> HIDE DEF T, m
  <2>1. ToSet(contract.findings) = T /\ contract.findings = found
    BY <1>3, <1>4
  <2>2. adapted = [contract EXCEPT !.findings = [i \in DOMAIN @ |-> adapt(@[i])]]
    BY <1>7, <2>1 DEF Adapted
  <2> HIDE DEF contract, found, adapt
  <2>3. QED
    BY <1>3, <1>4, <2>2
<1> HIDE DEF adapted, contract
<1>9. ToSet(adapted.findings) = {adapt(f) : f \in T}
  <2> HIDE DEF T, adapt, found, m
  <2>1. ToSet(adapted.findings) = {adapt(found[i]) : i \in 1..m}
    BY <1>8 DEF ToSet
  <2>2. T = {found[i] : i \in 1..m}
    BY <1>4 DEF ToSet
  <2>3. QED
    BY <2>1, <2>2
<1>10. adapted.findings \in Seq(ToSet(adapted.findings))
  <2> HIDE DEF T, adapt, found, m
  <2>1. adapted.findings = [i \in 1..m |-> adapt(found[i])]
    BY <1>8
  <2>2. \A i \in 1..m : adapt(found[i]) \in ToSet(adapted.findings)
    BY <1>4, <1>9
  <2>3. QED
    BY <1>4, <2>1, <2>2
<1>11. ASSUME NEW f \in ToSet(adapted.findings)
       PROVE  \E e \in ToSet(events) :
                 Failed(e) /\ f.print = AdaptedPrint(e, index) /\ f.severity = CheckSeverity[e.check]
  <2>1. PICK x \in T : f = adapt(x)
    BY <1>9
  <2>2. PICK j \in LastFailures(events) : x = EngineFinding(events[j], index)
    BY <1>6
  <2> HIDE DEF adapt, T
  <2>3. QED
    BY <1>5, <2>1, <2>2
<1>12. ASSUME NEW e \in ToSet(events), Failed(e)
       PROVE  \E f \in ToSet(adapted.findings) :
                 f.print = AdaptedPrint(e, index) /\ f.severity = CheckSeverity[e.check]
  <2>1. PICK i \in DOMAIN events : e = events[i]
    BY DEF ToSet
  <2>2. PICK j \in LastFailures(events) : SameCheck(e, events[j])
    BY <1>12, <2>1, LastExists
  <2>3. EngineFinding(events[j], index) \in T
    BY DEF EngineFindings
  <2>4. /\ AdaptedPrint(events[j], index) = AdaptedPrint(e, index)
        /\ CheckSeverity[events[j].check] = CheckSeverity[e.check]
    BY <2>2 DEF AdaptedPrint, SameCheck
  <2> HIDE DEF adapt, T
  <2>5. QED
    BY <1>5, <1>9, <2>3, <2>4
<1>13. adapted.accepted
  BY <1>8
<1>14. QED
  BY <1>10, <1>11, <1>12, <1>13 DEF adapted, contract

\* One finding per fingerprint loses nothing if a fingerprint has one severity.
LEMMA MergedFacts ==
    ASSUME NEW first, NEW second, NEW p,
           first.findings \in Seq(ToSet(first.findings)), second.findings \in Seq(ToSet(second.findings)),
           \A f, g \in ToSet(first.findings) \cup ToSet(second.findings) :
               f.print = g.print => f.severity = g.severity
    PROVE  LET code == Judged(Merged(first, second), p) IN
           /\ code \in {0, 1, 3}
           /\ code = 3 => Oversized(first.findings \o second.findings)
           /\ code # 3 =>
                (code = 1 <=> AnyEnforced(ToSet(first.findings) \cup ToSet(second.findings), p))
<1> DEFINE A == ToSet(first.findings)
           B == ToSet(second.findings)
           X == A \cup B
           s == first.findings \o second.findings
           all == ToSet(s)
           pick(q) == CHOOSE f \in all : f.print = q
           M == {pick(q) : q \in {f.print : f \in all}}
<1>1. first.findings \in Seq(X) /\ second.findings \in Seq(X)
  <2> HIDE DEF A, B
  <2>1. first.findings \in Seq(A) /\ second.findings \in Seq(B)
    BY DEF A, B
  <2>2. QED
    BY <2>1
<1>2. s \in Seq(X) /\ all = X
  <2>1. first.findings \o second.findings \in Seq(X)
    <3> HIDE DEF X
    <3>1. QED
      BY <1>1, ConcatProperties
  <2>2. ToSet(first.findings \o second.findings) = ToSet(first.findings) \cup ToSet(second.findings)
    <3> HIDE DEF X
    <3>1. QED
      BY <1>1, ToSetOfConcat
  <2>3. QED
    BY <2>1, <2>2
<1>3. IsList(s) /\ IsFiniteSet(DOMAIN s) /\ Cardinality(DOMAIN s) = Len(s)
  <2> HIDE DEF X, s
  <2>1. IsList(s)
    BY <1>2, SeqIsList
  <2>2. Len(s) \in Nat /\ DOMAIN s = 1..Len(s) /\ 1 \in Int /\ Len(s) \in Int
    BY <2>1 DEF IsList
  <2>3. IsFiniteSet(1..Len(s)) /\ Cardinality(1..Len(s)) = Len(s)
    <3>1. \A n \in Nat : IsFiniteSet(1..n) /\ Cardinality(1..n) = n
      BY FS_Interval
    <3>2. QED
      BY <2>2, <3>1
  <2>4. QED
    BY <2>1, <2>2, <2>3
<1>4. Merged(first, second) = Yield(SetToSeq(M))
  BY DEF Merged
<1>5. \A f, g \in all : f.print = g.print => f.severity = g.severity
  BY <1>2
<1> HIDE DEF s, A, B
<1>6. all = {s[i] : i \in DOMAIN s}
  BY DEF ToSet
<1> HIDE DEF all
<1>7. \A f \in all : pick(f.print) \in all /\ pick(f.print).print = f.print
  OBVIOUS
<1> HIDE DEF pick
<1> DEFINE h == [i \in DOMAIN s |-> pick(s[i].print)]
<1>8. h \in [DOMAIN s -> M] /\ \A x \in M : \E i \in DOMAIN s : h[i] = x
  BY <1>6
<1>9. AnyEnforced(M, p) <=> AnyEnforced(all, p)
  <2>1. \A x \in M : x \in all
    BY <1>7
  <2>2. \A f \in all : \E x \in M : x.print = f.print /\ x.severity = f.severity
    BY <1>5, <1>7
  <2> HIDE DEF M
  <2>3. QED
    BY <2>1, <2>2 DEF AnyEnforced
<1> HIDE DEF M, h
<1>10. IsFiniteSet(M) /\ Cardinality(M) \in Nat /\ Cardinality(M) <= Len(s)
  BY <1>3, <1>8, ImageIsFinite
<1>11. IsList(SetToSeq(M)) /\ ToSet(SetToSeq(M)) = M /\ Len(SetToSeq(M)) = Cardinality(M)
  BY <1>10, SetToSeqFacts DEF IsList
<1>12. /\ Judged(Merged(first, second), p) \in {0, 1, 3}
       /\ Judged(Merged(first, second), p) = 3 <=> Cardinality(M) > MaxFindings
       /\ Judged(Merged(first, second), p) # 3 =>
             (Judged(Merged(first, second), p) = 1 <=> AnyEnforced(all, p))
  BY <1>4, <1>9, <1>11, YieldJudged
<1>13. Cardinality(M) > MaxFindings => Oversized(s)
  <2>1. Len(s) \in Nat /\ MaxFindings \in Nat
    BY <1>3, LimitsAssumption DEF IsList
  <2>2. QED
    BY <1>10, <2>1 DEF Oversized
<1>14. all = ToSet(first.findings) \cup ToSet(second.findings)
  BY <1>2 DEF A, B
<1>15. QED
  BY <1>12, <1>13, <1>14 DEF s

InjectionEnforced(requests, reaction, p) ==
    \E r \in SuspiciousOf(requests, reaction) :
        Enforced(Seen(r, reaction).print, Families[r.family].severity, p)
ContractEnforced(events, p) == \E e \in ToSet(events) :
    Failed(e) /\ Enforced(AdaptedPrint(e, Index), CheckSeverity[e.check], p)

LEMMA FuzzingAccounted ==
    ASSUME NEW events \in EngineReports, NEW safeOnly \in BOOLEAN, NEW p
    PROVE  InjectionIsAccounted(events, safeOnly, p)
<1> DEFINE requests == Requests(Operations, safeOnly)
           contract == SchemathesisNormalized(events, Index)
           adapted == Adapted(contract, "combined")
<1>1. IsList(events) /\ IsFiniteSet(requests)
  BY EventsAreLists, EvidenceAssumption, PlanIsFinite, RequestsAreFinite DEF Operations
<1>2. ASSUME NEW reaction, contract.accepted
      PROVE  LET report == Launched(requests, reaction)
                 injection == InjectionNormalized(report)
                 code == FuzzingJudged(contract, report, "combined", p)
             IN /\ adapted.accepted
                /\ injection.accepted <=>
                       Cardinality(InjectionPrints(requests, reaction)) <= MaxFindings
                /\ ~injection.accepted => code = 3
                /\ injection.accepted =>
                      /\ code = 2 <=> \E r \in requests : reaction[r] \in Unreachable
                      /\ code \in {0, 1} =>
                            (code = 1 <=> \/ InjectionEnforced(requests, reaction, p)
                                          \/ ContractEnforced(events, p))
                      /\ code = 3 => Oversized(adapted.findings \o injection.findings)
  <2> DEFINE report == Launched(requests, reaction)
             injection == InjectionNormalized(report)
             code == FuzzingJudged(contract, report, "combined", p)
             T == InjectionFound(requests, reaction)
             found == SetToSeq(T)
             A == ToSet(adapted.findings)
  <2>1. /\ injection = Yield(found)
        /\ TimedOut(report) <=> \E r \in requests : reaction[r] \in Unreachable
    BY LaunchedFacts
  <2>2. IsFiniteSet(T) /\ Cardinality(T) = Cardinality(InjectionPrints(requests, reaction))
    <3> HIDE DEF requests
    <3>1. QED
      BY <1>1, InjectionFoundCounted
  <2>3. found \in Seq(T) /\ ToSet(found) = T /\ Len(found) = Cardinality(T) /\ Cardinality(T) \in Nat
    <3> HIDE DEF T
    <3>1. QED
      BY <2>2, SetToSeqFacts
  <2>4. injection.accepted <=> Cardinality(InjectionPrints(requests, reaction)) <= MaxFindings
    <3> HIDE DEF T, found, injection
    <3>1. ~(Len(found) > MaxFindings) <=> Cardinality(T) <= MaxFindings
      BY <2>3, LimitsAssumption
    <3>2. QED
      BY <2>1, <2>2, <3>1 DEF Yield, Refusal
  <2>5. injection.accepted => injection.findings = found
    <3> HIDE DEF found, injection
    <3>1. QED
      BY <2>1 DEF Yield, Refusal
  <2>6. /\ adapted.accepted
        /\ adapted.findings \in Seq(A)
        /\ \A f \in A : \E e \in ToSet(events) :
              Failed(e) /\ f.print = AdaptedPrint(e, Index) /\ f.severity = CheckSeverity[e.check]
        /\ \A e \in ToSet(events) : Failed(e) => \E f \in A :
              f.print = AdaptedPrint(e, Index) /\ f.severity = CheckSeverity[e.check]
    BY <1>1, <1>2, AdaptedFacts
  <2>7. /\ \A f \in T : \E r \in SuspiciousOf(requests, reaction) : f = Seen(r, reaction)
        /\ \A r \in SuspiciousOf(requests, reaction) : Seen(r, reaction) \in T
        /\ \A r : Seen(r, reaction).severity = Families[r.family].severity
    BY DEF InjectionFound, Seen, InjectionFinding
  <2>8. AnyEnforced(A \cup T, p) <=> \/ InjectionEnforced(requests, reaction, p)
                                       \/ ContractEnforced(events, p)
    <3> HIDE DEF A, T, requests
    <3>1. AnyEnforced(T, p) <=> InjectionEnforced(requests, reaction, p)
      BY <2>7 DEF AnyEnforced, InjectionEnforced
    <3>2. AnyEnforced(A, p) <=> ContractEnforced(events, p)
      BY <2>6 DEF AnyEnforced, ContractEnforced
    <3>3. QED
      BY <3>1, <3>2 DEF AnyEnforced
  <2>9. ASSUME NEW f \in A \cup T, NEW g \in A \cup T, f.print = g.print PROVE f.severity = g.severity
    <3> HIDE DEF A, T, requests
    <3>1. ASSUME NEW x \in A
          PROVE  /\ x.print[1] = "combined" /\ x.severity = CheckSeverity[x.print[4]]
      BY <2>6 DEF AdaptedPrint
    <3>2. ASSUME NEW x \in T
          PROVE  /\ x.print[1] = "injection" /\ x.severity = Families[x.print[4]].severity
      BY <2>7 DEF Seen, InjectionFinding
    <3>3. QED
      BY <2>9, <3>1, <3>2
  <2>10. CASE ~injection.accepted
    <3>1. code = 3
      BY <2>10 DEF FuzzingJudged
    <3>2. QED
      BY <2>4, <2>6, <2>10, <3>1
  <2>11. CASE injection.accepted
    <3> DEFINE judged == Judged(Merged(adapted, injection), p)
    <3>1. code = IF TimedOut(report) THEN 2 ELSE judged
      BY <1>2, <2>6, <2>11 DEF FuzzingJudged
    <3>2. injection.findings = found
      BY <2>5, <2>11
    <3>3. /\ injection.findings \in Seq(ToSet(injection.findings))
          /\ ToSet(injection.findings) = T
      <4> HIDE DEF T, found, injection
      <4>1. QED
        BY <2>3, <3>2
    <3>4. /\ judged \in {0, 1, 3}
          /\ judged = 3 => Oversized(adapted.findings \o injection.findings)
          /\ judged # 3 => (judged = 1 <=> AnyEnforced(A \cup T, p))
      <4> HIDE DEF T, injection, adapted
      <4>1. QED
        BY <2>6, <2>9, <3>3, MergedFacts
    <3> HIDE DEF judged, code, injection, adapted, report, T, A, found, requests
    <3>5. /\ code = 2 <=> TimedOut(report)
          /\ code \in {0, 1} => (code = 1 <=> AnyEnforced(A \cup T, p))
          /\ code = 3 => Oversized(adapted.findings \o injection.findings)
      BY <3>1, <3>4
    <3>6. QED
      BY <2>1, <2>4, <2>6, <2>8, <2>11, <3>5 DEF code, injection, report, requests
  <2>12. QED
    BY <2>10, <2>11
<1>3. \A reaction :
        /\ SuspiciousOf(requests, reaction) = {r \in requests : reaction[r] \in Suspicious}
        /\ InjectionPrints(requests, reaction) =
              {InjectionFinding([request |-> r, reason |-> reaction[r]]).print :
                  r \in {r \in requests : reaction[r] \in Suspicious}}
        /\ InjectionEnforced(requests, reaction, p) <=>
              \E r \in {r \in requests : reaction[r] \in Suspicious} :
                  Enforced(InjectionFinding([request |-> r, reason |-> reaction[r]]).print,
                           Families[r.family].severity, p)
  BY DEF SuspiciousOf, InjectionPrints, InjectionEnforced, Seen
<1>4. ContractEnforced(events, p) <=> \E i \in DOMAIN events :
          /\ Failed(events[i])
          /\ Enforced(<<"combined", Index[events[i].operation], ReasonByCheck[events[i].check], events[i].check>>,
                      CheckSeverity[events[i].check], p)
  BY DEF ContractEnforced, AdaptedPrint, ToSet
<1>5. QED
  BY <1>2, <1>3, <1>4 DEF InjectionIsAccounted

-----------------------------------------------------------------------------
\* A report of each script is accounted for, and so are the schema and the settings:
\* all that is asked of the state is that the runner is one of the three.
THEOREM EvidenceReachesVerdictHolds == Spec => []EvidenceReachesVerdict
<1>1. TypeOK => EvidenceReachesVerdict
  <2> SUFFICES ASSUME runner \in {"dast", "api", "fuzzing"} PROVE EvidenceReachesVerdict
    BY RunnersAssumption DEF TypeOK, AllRunners
  <2>1. CASE runner = "dast"
    BY <2>1, ZapAccounted DEF EvidenceReachesVerdict
  <2>2. CASE runner = "api"
    BY <2>2, SchemaShared, EngineAccounted DEF EvidenceReachesVerdict
  <2>3. CASE runner = "fuzzing"
    BY <2>3, DefaultIsAccepted, SettingsKept, FuzzingAccounted DEF EvidenceReachesVerdict
  <2>4. QED
    BY <2>1, <2>2, <2>3
<1>2. QED
  BY <1>1, RuntimeTyping, PTL

=================================================================================
