------------------------------- MODULE Process -------------------------------
(***************************************************************************)
(* The process as a whole: the life cycle of its goroutines, in which the  *)
(* application goroutine boots step by step, as RouterBoot has it, while a *)
(* signal may come at any moment.                                          *)
(***************************************************************************)
EXTENDS Lifecycle, RouterBoot

pvars == <<vars, rvars>>

PInit == Init /\ RInit

\* Mutated: a panic is recovered from after the deferred shutdown().
BootStepRecovered ==
  /\ RNext
  /\ CASE stage' = "fatal" -> BootFatal
       [] stage' = "panic" ->
            /\ Booting /\ app' = "end" /\ cancelled' = TRUE
            /\ UNCHANGED <<main, sig, pending, closed, deadline, stopped,
                           collector, request, exit>>
       [] stage' = "up"    -> BootDone
       [] OTHER            -> Booting /\ UNCHANGED vars

\* A step of the boot that is not its last leaves the other goroutines alone.
BootStep ==
  /\ RNext
  /\ CASE stage' = "fatal" -> BootFatal
       [] stage' = "panic" -> BootPanic
       [] stage' = "up"    -> BootDone
       [] OTHER            -> Booting /\ UNCHANGED vars

\* The application goroutine once the server is made.
Run == Listen \/ ServerClosed \/ Finish

PNext ==
  \/ BootStep
  \/ /\ \/ Run \/ ServeFails \/ Signalling \/ Expire \/ TimeOut
        \/ Wake \/ Return \/ EndCollector \/ Signal
        \/ \E r \in Requests : Accept(r) \/ Answer(r)
     /\ UNCHANGED rvars

PSpec == PInit /\ [][PNext]_pvars

\* Lifecycle!FairSpec for the goroutines of the process, as far as it is needed.
PFairSpec ==
  /\ PSpec
  /\ WF_pvars(BootStep) /\ WF_pvars(Run /\ UNCHANGED rvars)
  /\ WF_pvars(Signalling /\ UNCHANGED rvars)
  /\ WF_pvars(Expire /\ UNCHANGED rvars) /\ WF_pvars(TimeOut /\ UNCHANGED rvars)
  /\ WF_pvars(Wake /\ UNCHANGED rvars) /\ WF_pvars(Return /\ UNCHANGED rvars)

-----------------------------------------------------------------------------
(* Properties *)

\* To the other goroutines the boot is the one step of Lifecycle, and as fair to
\* them: whatever is configured, the list of options has an end, and nobody waits
\* forever for a boot that neither fails nor is done.
BootComesToItsEnd == FairSpec
=============================================================================
