---------------------------- MODULE ProcessProofs ----------------------------
(***************************************************************************)
(* Proofs about Process, for any number of requests and any configurations *)
(* of the router: that the root context outlives every request, that a     *)
(* process that boots step by step is one of Lifecycle, and what the boot  *)
(* makes of its configuration.                                             *)
(***************************************************************************)
EXTENDS Process, SequenceTheorems, FiniteSetTheorems, TLAPS

(* The life cycle: the inductive invariant *)

TypeOK ==
  /\ request \in [Requests -> {"new", "active", "done"}]
  /\ app \in {"boot", "start", "listen", "await", "end"}
  /\ sig \in {"none", "wait", "close", "drain", "drained", "end"}
  /\ stopped \in BOOLEAN /\ closed \in BOOLEAN /\ cancelled \in BOOLEAN
  /\ exit \in {"no", "boot failed", "panic", "listen failed", "timed out",
               "shutdown failed", "clean", "killed"}

NoneActive == \A r \in Requests : request[r] # "active"

\* The order of a shutdown: the listener closes, the requests drain, the
\* server's context is cancelled, and at last the root context.  Only a panic
\* while booting, before the first request, cancels the root context as well.
ShutdownOrder ==
  /\ app = "boot" => sig = "none" /\ NoneActive
  /\ sig \in {"drain", "drained", "end"} => closed
  /\ sig \in {"drained", "end"} => NoneActive
  /\ stopped => sig = "end"
  /\ cancelled => stopped \/ (exit = "panic" /\ app = "boot")
  /\ main = "sleep" => cancelled
  /\ exit = "clean" => stopped

Inv == TypeOK /\ ShutdownOrder

\* The initial state is in order.
LEMMA InitInv == Init => Inv
BY DEF Init, Inv, TypeOK, ShutdownOrder, NoneActive

Ends == {"no", "boot failed", "panic", "listen failed", "timed out",
         "shutdown failed", "clean", "killed"}

\* Ending the process disturbs nothing else.
LEMMA ExitInv ==
  ASSUME Inv, Alive, NEW why \in Ends, why = "clean" => stopped, Exit(why)
  PROVE  Inv'
<1>1. TypeOK'
  BY DEF Inv, TypeOK, Exit, Ends
<1>2. ShutdownOrder'
  BY DEF Inv, ShutdownOrder, NoneActive, Alive, Exit
<1> QED BY <1>1, <1>2 DEF Inv

\* Nor does a step that leaves the variables of the shutdown alone.
LEMMA FrameInv ==
  ASSUME Inv, UNCHANGED <<app, main, sig, closed, stopped, cancelled, request, exit>>
  PROVE  Inv'
BY DEF Inv, TypeOK, ShutdownOrder, NoneActive

\* No step of any goroutine, request or signal gets out of order.
LEMMA StepInv == Inv /\ [Next]_vars => Inv'
<1> SUFFICES ASSUME Inv, [Next]_vars PROVE Inv'
  OBVIOUS
<1> USE DEF Inv, TypeOK, ShutdownOrder, NoneActive, Alive
<1>1. CASE Application
  <2>1. CASE Boot
    <3>1. CASE BootFatal
      BY <3>1, ExitInv DEF BootFatal, Booting, Ends
    <3>2. CASE BootPanic
      BY <3>2 DEF BootPanic, Booting
    <3>3. CASE BootDone
      BY <3>3 DEF BootDone, Booting
    <3> QED BY <2>1, <3>1, <3>2, <3>3 DEF Boot
  <2>2. CASE Listen
    <3>1. CASE Exit("listen failed")
      BY <2>2, <3>1, ExitInv DEF Listen, Ends
    <3>2. CASE /\ app' = IF closed THEN "await" ELSE "listen"
               /\ UNCHANGED <<main, sig, pending, closed, deadline, stopped,
                              cancelled, collector, request, exit>>
      <4>1. app' \in {"await", "listen"}
        BY <3>2
      <4> QED BY <2>2, <3>2, <4>1 DEF Listen
    <3> QED BY <2>2, <3>1, <3>2 DEF Listen
  <2>3. CASE ServerClosed
    BY <2>3 DEF ServerClosed
  <2>4. CASE Finish
    BY <2>4 DEF Finish
  <2> QED BY <1>1, <2>1, <2>2, <2>3, <2>4 DEF Application
<1>2. CASE Signalling
  <2>1. CASE ReceiveSignal
    BY <2>1 DEF ReceiveSignal
  <2>2. CASE CloseListener
    BY <2>2 DEF CloseListener
  <2>3. CASE Drain
    <3>1. CASE Exit("shutdown failed")
      BY <2>3, <3>1, ExitInv DEF Drain, Ends
    <3>2. CASE /\ NoneActive /\ sig' = "drained"
               /\ UNCHANGED <<app, main, pending, closed, deadline, stopped,
                              cancelled, collector, request, exit>>
      BY <2>3, <3>2 DEF Drain
    <3> QED BY <2>3, <3>1, <3>2 DEF Drain
  <2>4. CASE Stop
    BY <2>4 DEF Stop
  <2> QED BY <1>2, <2>1, <2>2, <2>3, <2>4 DEF Signalling
<1>3. CASE TimeOut \/ Return \/ ServeFails
  BY <1>3, ExitInv DEF TimeOut, Return, ServeFails, Ends
<1>4. CASE Expire \/ EndCollector
  BY <1>4, FrameInv DEF Expire, EndCollector
<1>5. CASE Wake
  BY <1>5 DEF Wake
<1>6. CASE Signal
  <2>1. CASE Exit("killed")
    BY <1>6, <2>1, ExitInv DEF Signal, Ends
  <2>2. CASE UNCHANGED <<app, main, sig, closed, deadline, stopped, cancelled,
                         collector, request, exit>>
    BY <2>2, FrameInv
  <2> QED BY <1>6, <2>1, <2>2 DEF Signal
<1>7. ASSUME NEW r \in Requests, Accept(r) PROVE Inv'
  BY <1>7 DEF Accept
<1>8. ASSUME NEW r \in Requests, Answer(r) PROVE Inv'
  BY <1>8 DEF Answer
<1>9. CASE UNCHANGED vars
  BY <1>9, FrameInv DEF vars
<1> QED BY <1>1, <1>2, <1>3, <1>4, <1>5, <1>6, <1>7, <1>8, <1>9 DEF Next

\* Every state the process reaches is in order.
THEOREM InvariantHolds == Spec => []Inv
BY InitInv, StepInv, PTL DEF Spec

\* The root context is cancelled, and with it the collector of the store ends,
\* only when no request is being served (main.go:38, server.go:103).
THEOREM RootOutlivesRequests == Spec => []CancelledAfterLastRequest
<1>1. Inv => CancelledAfterLastRequest
  BY DEF Inv, ShutdownOrder, NoneActive, CancelledAfterLastRequest
<1> QED BY <1>1, InvariantHolds, PTL
-----------------------------------------------------------------------------
(* The process implements the life cycle *)

\* Each step of the process is one of Lifecycle, or none to it.
LEMMA StepImplements == PNext => [Next]_vars
<1> SUFFICES ASSUME PNext PROVE [Next]_vars
  OBVIOUS
<1>1. CASE BootStep
  <2>1. Boot \/ UNCHANGED vars
    BY <1>1 DEF BootStep, Boot
  <2> QED BY <2>1 DEF Next, Application
<1>2. CASE Run
  BY <1>2 DEF Run, Next, Application
<1> QED BY <1>1, <1>2 DEF PNext, Next

\* Booting step by step (main.go:37-61) is the one step Boot to the goroutines
\* that wait for it: a process that does the former is one that does the latter.
LEMMA ProcessIsLifecycle == PSpec => Spec
<1>1. PInit => Init
  BY DEF PInit
<1>2. [PNext]_pvars => [Next]_vars
  BY StepImplements DEF pvars
<1> QED BY <1>1, <1>2, PTL DEF PSpec, Spec

\* So the root context outlives the requests, whatever the boot comes to.
THEOREM ProcessRootOutlivesRequests == PSpec => []CancelledAfterLastRequest
BY ProcessIsLifecycle, RootOutlivesRequests, PTL

\* And main returns (main.go:62-68) only after an orderly shutdown: no panic,
\* failure or deadline, and no step of the boot, looks like one to it.
THEOREM ProcessEndsInOrder == PSpec => []CleanExitIsOrderly
<1>1. Inv => CleanExitIsOrderly
  BY DEF Inv, TypeOK, ShutdownOrder, NoneActive, CleanExitIsOrderly
<1> QED BY <1>1, InvariantHolds, ProcessIsLifecycle, PTL
-----------------------------------------------------------------------------
(* The boot: positions in the list of options *)

\* WithServices, which wraps the handlers, and the routes of the auth handlers.
ServicesAt(c) == (IF c.cors THEN 5 ELSE 4) + 1
AuthAt(c)     == ServicesAt(c) + (IF c.profiler THEN 1 ELSE 0) + 1

\* The provers do not know of a string in quotes that it is in STRING.
Segments == STRING \cup {"debug", "authorize", "login", "token", "qrcode", "file"}

PathSet == [form : {"rooted", "relative", "params"}, segs : Seq(Segments)]

Apps == [app : {"static", "profiler", "auth"}, nr : Nat]

OptionSet ==
  [kind : {"use"}, name : Layers]
    \cup [kind : {"mount", "get"}, path : PathSet, to : Apps]

\* How many options the router has applied, and what is left of them.
Applied(c) == Len(Options(c)) - Len(todo)

OptionsLeft(c) ==
  /\ Len(todo) <= Len(Options(c))
  /\ \A i \in 1 .. Len(todo) : todo[i] = Options(c)[Applied(c) + i]

\* Once i options are applied: static directory n has been added, and no later
\* one at the same endpoint.
Added(c, i, n) == n \in DOMAIN c.statics /\ AuthAt(c) + n <= i

AddedLast(c, i, n) ==
  /\ Added(c, i, n)
  /\ \A k \in DOMAIN c.statics :
       Added(c, i, k) /\ c.statics[k].segs = c.statics[n].segs => k <= n

Unclaimed(c, i, p) ==
  \A n \in DOMAIN c.statics : Added(c, i, n) => c.statics[n].segs # p

Route(m, p, to) == [method |-> m, path |-> p, to |-> to]

StaticApp(n) == [app |-> "static", nr |-> n]

\* Whose a route can be: one that is mounted has both methods, and has lost
\* that of GET to a static directory at its path.
IsMounted(c, i, e, p, to) ==
  /\ e.to = to /\ e.path = p
  /\ e.method = "GET" => Unclaimed(c, i, p)

IsStatic(c, i, e) ==
  /\ e.method = "GET"
  /\ \E n \in DOMAIN c.statics :
       AddedLast(c, i, n) /\ e.path = c.statics[n].segs /\ e.to = StaticApp(n)

RoutesKnown(c, i, routes) ==
  \A e \in routes :
    /\ e.method \in Methods
    /\ \/ c.profiler /\ IsMounted(c, i, e, DebugPath.segs, Profiler)
       \/ AuthAt(c) <= i /\ IsMounted(c, i, e, c.path.segs, Auth)
       \/ IsStatic(c, i, e)

\* And which routes there are.
ProfilerThere(c, i, routes) ==
  c.profiler /\ i = ServicesAt(c) + 1 => \E e \in routes : e.path = DebugPath.segs

AuthThere(c, i, routes) ==
  AuthAt(c) <= i =>
    /\ Route("POST", c.path.segs, Auth) \in routes
    /\ Unclaimed(c, i, c.path.segs) => Route("GET", c.path.segs, Auth) \in routes

StaticsThere(c, i, routes) ==
  \A n \in DOMAIN c.statics : Added(c, i, n) =>
    \E k \in DOMAIN c.statics :
      /\ AddedLast(c, i, k) /\ c.statics[k].segs = c.statics[n].segs
      /\ Route("GET", c.statics[n].segs, StaticApp(k)) \in routes

\* An option that chi would have refused was not applied.
NoneRefused(c, i) ==
  /\ AuthAt(c) <= i =>
       c.path.form = "rooted" /\ (c.profiler => c.path # DebugPath)
  /\ \A n \in DOMAIN c.statics : Added(c, i, n) => c.statics[n].form = "rooted"

RoutesInv(c, i, routes) ==
  /\ i <= ServicesAt(c) => routes = {}
  /\ RoutesKnown(c, i, routes)
  /\ ProfilerThere(c, i, routes) /\ AuthThere(c, i, routes)
  /\ StaticsThere(c, i, routes) /\ NoneRefused(c, i)

(***************************************************************************)
(* The inductive invariant of the boot.  It says of the router under       *)
(* construction which options it has applied, and hence which routes it    *)
(* has and whose they are; none has been added before all middleware was.  *)
(***************************************************************************)
RouterInv(c) ==
  /\ c.templates
  /\ OptionsLeft(c)
  /\ ServicesAt(c) <= Applied(c) => Contains(middleware, "services")
  /\ RoutesInv(c, Applied(c), endpoints)

RoutesOK(routes) ==
  /\ \A e \in routes : e = Route(e.method, e.path, e.to) /\ e.path \in Seq(Segments)
  /\ \A e, f \in routes : e.method = f.method /\ e.path = f.path => e = f

BootInv ==
  /\ stage \in {"load", "options", "routes", "up", "fatal", "panic"}
  /\ config = {} \/ \E c \in Loaded : config = {c}
  /\ todo \in Seq(OptionSet)
  /\ middleware \in Seq(Layers)
  /\ RoutesOK(endpoints)
  /\ stage = "load" => config = {}
  /\ stage \in {"options", "routes", "up"} => config # {}
  /\ stage \in {"load", "options"} => todo = <<>> /\ endpoints = {}
  /\ stage = "up" => todo = <<>>
  /\ RoutesSeeServices
  /\ FailsOnlyForItsConfig
  /\ \A c \in config : stage \in {"routes", "up"} => RouterInv(c)

-----------------------------------------------------------------------------
(* Lemmas about the configuration and its options *)

\* The fields of a configuration that loadConfig returns.
LEMMA LoadedFacts ==
  ASSUME NEW c \in Loaded
  PROVE  /\ c.cors \in BOOLEAN /\ c.profiler \in BOOLEAN /\ c.templates \in BOOLEAN
         /\ c.path \in PathSet /\ c.statics \in Seq(PathSet)
  <1> Paths \subseteq PathSet
    <2>1. \A s \in Seq(STRING) : s \in Seq(Segments)
      BY SeqMonotonic DEF Segments
    <2> QED BY <2>1 DEF Paths, PathSet
  <1>1. CASE c \in Configs
    <2>1. c.path \in AuthPaths /\ c.statics \in BoundedSeq(Endpoints, MaxStatics)
          /\ c.cors \in BOOLEAN /\ c.profiler \in BOOLEAN /\ c.templates \in BOOLEAN
      BY <1>1 DEF Configs
    <2>2. PICK n \in 0 .. MaxStatics : c.statics \in [1 .. n -> Endpoints]
      BY <2>1 DEF BoundedSeq, SeqOf
    <2>3. n \in Nat /\ c.statics \in [1 .. n -> PathSet]
      BY <2>2, RouterAssumption
    <2>4. c.statics \in Seq(PathSet)
      BY <2>3, SeqDef
    <2> QED BY <2>1, <2>4, RouterAssumption
  <1>2. CASE c = DefaultConfig
    <2>1. <<>> \in Seq(PathSet) /\ <<>> \in Seq(Segments)
      BY EmptySeq
    <2> QED BY <1>2, <2>1 DEF DefaultConfig, PathSet
  <1> QED BY <1>1, <1>2 DEF Loaded

\* A list u of options is s followed by t.
IsJoin(u, s, t) ==
  /\ u \in Seq(OptionSet) /\ Len(u) = Len(s) + Len(t)
  /\ \A i \in 1 .. Len(s) : u[i] = s[i]
  /\ \A i \in 1 .. Len(t) : u[Len(s) + i] = t[i]

\* What the provers know of a list appended to another.
LEMMA JoinFacts ==
  ASSUME NEW s \in Seq(OptionSet), NEW t \in Seq(OptionSet)
  PROVE  \E u : u = s \o t /\ IsJoin(u, s, t)
  <1>1. s \o t \in Seq(OptionSet)
    OBVIOUS
  <1>2. Len(s \o t) = Len(s) + Len(t)
    OBVIOUS
  <1>3. \A i \in 1 .. Len(s) : (s \o t)[i] = s[i]
    OBVIOUS
  <1>4. \A i \in 1 .. Len(t) : (s \o t)[Len(s) + i] = t[i]
    OBVIOUS
  <1> QED BY <1>1, <1>2, <1>3, <1>4, Zenon DEF IsJoin

\* A path is its form and its segments.
LEMMA PathEquality ==
  ASSUME NEW p \in PathSet, NEW q \in PathSet, p.form = q.form, p.segs = q.segs
  PROVE  p = q
  BY DEF PathSet

\* The profiler's path is one that chi takes.
LEMMA DebugPathType == DebugPath \in PathSet /\ DebugPath.form = "rooted"
  <1>1. "debug" \in Segments
    BY DEF Segments
  <1>2. <<"debug">> \in Seq(Segments)
    BY <1>1
  <1> QED BY <1>2 DEF DebugPath, PathSet

\* The first four or five options are middleware.
LEMMA MiddlewareShape ==
  ASSUME NEW c \in Loaded
  PROVE  LET ms == SelectMiddleware(c) IN
         /\ ms \in Seq(OptionSet) /\ Len(ms) = ServicesAt(c) - 1
         /\ \A i \in 1 .. Len(ms) : ms[i].kind = "use"
  <1> DEFINE four == <<Use("logging"), Use("recovery"), Use("noiframe"), Use("nocache")>>
             last == IF c.cors THEN <<Use("cors")>> ELSE <<>>
  <1>1. \A name \in Layers : Use(name) \in OptionSet /\ Use(name).kind = "use"
    BY DEF Use, OptionSet
  <1>2. /\ Use("logging") \in OptionSet /\ Use("recovery") \in OptionSet
        /\ Use("noiframe") \in OptionSet /\ Use("nocache") \in OptionSet
        /\ Use("cors") \in OptionSet
    BY <1>1 DEF Layers
  <1>3. four \in Seq(OptionSet) /\ last \in Seq(OptionSet)
    BY <1>2
  <1>4. Len(four) = 4 /\ Len(last) = IF c.cors THEN 1 ELSE 0
    OBVIOUS
  <1>5. \A i \in 1 .. 4 : four[i].kind = "use"
    BY DEF Use
  <1>6. c.cors => last[1].kind = "use"
    BY DEF Use
  <1> HIDE DEF four, last
  <1>7. PICK ms : ms = four \o last /\ IsJoin(ms, four, last)
    BY <1>3, JoinFacts
  <1>8. ms \in Seq(OptionSet) /\ Len(ms) = Len(four) + Len(last)
    BY <1>7 DEF IsJoin
  <1>9. \A i \in 1 .. Len(four) : ms[i] = four[i]
    BY <1>7 DEF IsJoin
  <1>10. \A i \in 1 .. Len(last) : ms[Len(four) + i] = last[i]
    BY <1>7 DEF IsJoin
  <1>11. ASSUME NEW i \in 1 .. Len(ms) PROVE ms[i].kind = "use"
    <2>1. CASE i \in 1 .. 4
      BY <1>4, <1>5, <1>9, <2>1
    <2>2. CASE i \notin 1 .. 4
      <3>1. c.cors /\ i = 5 /\ Len(last) = 1
        BY <1>4, <1>8, <2>2
      <3>2. ms[5] = last[1]
        BY <1>4, <1>10, <3>1
      <3> QED BY <1>6, <3>1, <3>2
    <2> QED BY <2>1, <2>2
  <1>12. Len(ms) = ServicesAt(c) - 1
    BY <1>4, <1>8 DEF ServicesAt
  <1>13. SelectMiddleware(c) = ms
    BY <1>7 DEF SelectMiddleware, four, last
  <1> QED BY <1>8, <1>11, <1>12, <1>13

\* Where each option is, in a list of five parts: the second and the fourth are
\* one option, the first s - 1 and the third p.
InFive(os, ms, us, ps, as, ss, s, p) ==
  /\ os \in Seq(OptionSet) /\ Len(os) = s + p + 1 + Len(ss)
  /\ \A i \in 1 .. s - 1 : os[i] = ms[i]
  /\ os[s] = us[1]
  /\ \A i \in 1 .. p : os[s + i] = ps[i]
  /\ os[s + p + 1] = as[1]
  /\ \A i \in 1 .. Len(ss) : os[s + p + 1 + i] = ss[i]

\* Each option of the five parts is where InFive has it.
LEMMA PartsShape ==
  ASSUME NEW ms \in Seq(OptionSet), NEW us \in Seq(OptionSet), NEW ps \in Seq(OptionSet),
         NEW as \in Seq(OptionSet), NEW ss \in Seq(OptionSet),
         NEW s \in Nat, NEW p \in Nat, Len(ms) = s - 1, Len(us) = 1, Len(ps) = p,
         Len(as) = 1, NEW os, os = (((ms \o us) \o ps) \o as) \o ss
  PROVE  InFive(os, ms, us, ps, as, ss, s, p)
  <1>1. PICK o1 : o1 = ms \o us /\ IsJoin(o1, ms, us)
    BY JoinFacts
  <1>2. o1 \in Seq(OptionSet) /\ Len(o1) = Len(ms) + Len(us)
    BY <1>1 DEF IsJoin
  <1>3. \A i \in 1 .. Len(ms) : o1[i] = ms[i]
    BY <1>1 DEF IsJoin
  <1>4. \A i \in 1 .. Len(us) : o1[Len(ms) + i] = us[i]
    BY <1>1 DEF IsJoin
  <1>5. PICK o2 : o2 = o1 \o ps /\ IsJoin(o2, o1, ps)
    BY <1>2, JoinFacts
  <1>6. o2 \in Seq(OptionSet) /\ Len(o2) = Len(o1) + Len(ps)
    BY <1>5 DEF IsJoin
  <1>7. \A i \in 1 .. Len(o1) : o2[i] = o1[i]
    BY <1>5 DEF IsJoin
  <1>8. \A i \in 1 .. Len(ps) : o2[Len(o1) + i] = ps[i]
    BY <1>5 DEF IsJoin
  <1>9. PICK o3 : o3 = o2 \o as /\ IsJoin(o3, o2, as)
    BY <1>6, JoinFacts
  <1>10. o3 \in Seq(OptionSet) /\ Len(o3) = Len(o2) + Len(as)
    BY <1>9 DEF IsJoin
  <1>11. \A i \in 1 .. Len(o2) : o3[i] = o2[i]
    BY <1>9 DEF IsJoin
  <1>12. \A i \in 1 .. Len(as) : o3[Len(o2) + i] = as[i]
    BY <1>9 DEF IsJoin
  <1>13. os = o3 \o ss
    <2>1. o2 = (ms \o us) \o ps
      BY <1>1, <1>5, Zenon
    <2>2. o3 = ((ms \o us) \o ps) \o as
      BY <1>9, <2>1, Zenon
    <2> QED BY <2>2, Zenon
  <1>14. IsJoin(os, o3, ss)
    <2>1. PICK u : u = o3 \o ss /\ IsJoin(u, o3, ss)
      BY <1>10, JoinFacts
    <2> QED BY <1>13, <2>1, Zenon
  <1>15. os \in Seq(OptionSet) /\ Len(os) = Len(o3) + Len(ss)
    BY <1>14 DEF IsJoin
  <1>16. \A i \in 1 .. Len(o3) : os[i] = o3[i]
    BY <1>14 DEF IsJoin
  <1>17. \A i \in 1 .. Len(ss) : os[Len(o3) + i] = ss[i]
    BY <1>14 DEF IsJoin
  <1>18. /\ Len(o1) = s /\ Len(o2) = s + p /\ Len(o3) = s + p + 1
         /\ Len(os) = s + p + 1 + Len(ss) /\ s \in 1 .. s
    <2>1. Len(o1) = s /\ Len(ms) \in Nat
      BY <1>2
    <2>2. Len(o2) = s + p
      BY <1>6, <2>1
    <2>3. Len(o3) = s + p + 1
      BY <1>10, <2>2
    <2>4. s \in 1 .. s
      BY <2>1
    <2> QED BY <1>15, <2>1, <2>2, <2>3, <2>4
  <1>19. ASSUME NEW i \in 1 .. s - 1 PROVE os[i] = ms[i]
    <2>1. i \in 1 .. Len(ms) /\ i \in 1 .. s /\ i \in 1 .. s + p /\ i \in 1 .. s + p + 1
      OBVIOUS
    <2>2. os[i] = o3[i] /\ o3[i] = o2[i] /\ o2[i] = o1[i]
      BY <1>7, <1>11, <1>16, <1>18, <2>1
    <2> QED BY <1>3, <2>1, <2>2
  <1>20. os[s] = us[1]
    <2>1. Len(ms) + 1 = s /\ 1 \in 1 .. Len(us) /\ s \in 1 .. s + p /\ s \in 1 .. s + p + 1
      BY <1>18
    <2>2. os[s] = o3[s] /\ o3[s] = o2[s] /\ o2[s] = o1[s]
      BY <1>7, <1>11, <1>16, <1>18, <2>1
    <2>3. o1[Len(ms) + 1] = us[1]
      BY <1>4, <2>1
    <2> QED BY <2>1, <2>2, <2>3
  <1>21. ASSUME NEW i \in 1 .. p PROVE os[s + i] = ps[i]
    <2>1. i \in 1 .. Len(ps) /\ s + i \in 1 .. s + p /\ s + i \in 1 .. s + p + 1
      OBVIOUS
    <2>2. os[s + i] = o3[s + i] /\ o3[s + i] = o2[s + i]
      BY <1>11, <1>16, <1>18, <2>1
    <2>3. o2[s + i] = ps[i]
      BY <1>8, <1>18, <2>1
    <2> QED BY <2>2, <2>3
  <1>22. os[s + p + 1] = as[1]
    <2>1. s + p + 1 \in 1 .. s + p + 1 /\ 1 \in 1 .. Len(as)
      OBVIOUS
    <2>2. os[s + p + 1] = o3[s + p + 1]
      BY <1>16, <1>18, <2>1
    <2>3. o3[s + p + 1] = as[1]
      BY <1>12, <1>18, <2>1
    <2> QED BY <2>2, <2>3
  <1>23. \A i \in 1 .. Len(ss) : os[s + p + 1 + i] = ss[i]
    BY <1>17, <1>18
  <1> QED BY <1>15, <1>18, <1>19, <1>20, <1>21, <1>22, <1>23 DEF InFive

\* The order of the options, and so of what main.go:47-58 does to the router.
LEMMA OptionsShape ==
  ASSUME NEW c \in Loaded
  PROVE  /\ Options(c) \in Seq(OptionSet)
         /\ ServicesAt(c) \in 5 .. 6 /\ AuthAt(c) \in Nat /\ Len(c.statics) \in Nat
         /\ AuthAt(c) = ServicesAt(c) + (IF c.profiler THEN 1 ELSE 0) + 1
         /\ Len(Options(c)) = AuthAt(c) + Len(c.statics)
         /\ DOMAIN c.statics = 1 .. Len(c.statics)
         /\ \A i \in 1 .. ServicesAt(c) - 1 : Options(c)[i].kind = "use"
         /\ Options(c)[ServicesAt(c)] = Use("services")
         /\ c.profiler => Options(c)[ServicesAt(c) + 1] = Mount(DebugPath, Profiler)
         /\ Options(c)[AuthAt(c)] = Mount(c.path, Auth)
         /\ \A n \in DOMAIN c.statics :
              Options(c)[AuthAt(c) + n] = Static(c.statics[n], n)
  <1>1. PICK ms : /\ ms = SelectMiddleware(c) /\ ms \in Seq(OptionSet)
                  /\ Len(ms) = ServicesAt(c) - 1
                  /\ \A i \in 1 .. ServicesAt(c) - 1 : ms[i].kind = "use"
    BY MiddlewareShape
  <1>2. PICK us : /\ us = <<Use("services")>> /\ us \in Seq(OptionSet) /\ Len(us) = 1
                  /\ us[1] = Use("services")
    <2>1. Use("services") \in OptionSet
      BY DEF Use, OptionSet, Layers
    <2>2. <<Use("services")>> \in Seq(OptionSet)
      BY <2>1
    <2>3. Len(<<Use("services")>>) = 1
      OBVIOUS
    <2>4. <<Use("services")>>[1] = Use("services")
      OBVIOUS
    <2> QED BY <2>2, <2>3, <2>4, Zenon
  <1>3. PICK p \in 0 .. 1 : p = IF c.profiler THEN 1 ELSE 0
    OBVIOUS
  <1>4. PICK ps : /\ ps = WithProfiler(c) /\ ps \in Seq(OptionSet) /\ Len(ps) = p
                  /\ c.profiler => ps[1] = Mount(DebugPath, Profiler)
    <2>1. Mount(DebugPath, Profiler) \in OptionSet
      BY DebugPathType DEF Mount, OptionSet, Profiler, Apps
    <2>2. WithProfiler(c) \in Seq(OptionSet)
      BY <2>1 DEF WithProfiler
    <2>3. Len(WithProfiler(c)) = p
      BY <1>3 DEF WithProfiler
    <2>4. c.profiler => WithProfiler(c)[1] = Mount(DebugPath, Profiler)
      BY DEF WithProfiler
    <2> QED BY <2>2, <2>3, <2>4
  <1>5. PICK as : /\ as = GetRoutes(c) /\ as \in Seq(OptionSet) /\ Len(as) = 1
                  /\ as[1] = Mount(c.path, Auth)
    <2>1. Mount(c.path, Auth) \in OptionSet
      BY LoadedFacts DEF Mount, OptionSet, Auth, Apps
    <2>2. <<Mount(c.path, Auth)>> \in Seq(OptionSet)
      BY <2>1
    <2>3. Len(<<Mount(c.path, Auth)>>) = 1
      OBVIOUS
    <2>4. <<Mount(c.path, Auth)>>[1] = Mount(c.path, Auth)
      OBVIOUS
    <2> QED BY <2>2, <2>3, <2>4, Zenon DEF GetRoutes
  <1>6. /\ Len(c.statics) \in Nat /\ DOMAIN c.statics = 1 .. Len(c.statics)
        /\ \A n \in DOMAIN c.statics : c.statics[n] \in PathSet /\ n \in Nat
    BY LoadedFacts, LenProperties
  <1>7. PICK ss : /\ ss = StaticRoutes(c) /\ ss \in Seq(OptionSet)
                  /\ Len(ss) = Len(c.statics)
                  /\ \A n \in DOMAIN c.statics : ss[n] = Static(c.statics[n], n)
    <2>1. \A n \in DOMAIN c.statics : Static(c.statics[n], n) \in OptionSet
      BY <1>6 DEF Static, OptionSet, Apps
    <2>2. StaticRoutes(c) \in [1 .. Len(c.statics) -> OptionSet]
      BY <1>6, <2>1 DEF StaticRoutes
    <2>3. StaticRoutes(c) \in Seq(OptionSet)
      BY <1>6, <2>2, SeqDef
    <2>4. /\ DOMAIN StaticRoutes(c) = 1 .. Len(c.statics)
          /\ Len(StaticRoutes(c)) \in Nat
          /\ DOMAIN StaticRoutes(c) = 1 .. Len(StaticRoutes(c))
      BY <2>2, <2>3, LenProperties
    <2>5. Len(StaticRoutes(c)) = Len(c.statics)
      BY <1>6, <2>4
    <2>6. \A n \in DOMAIN c.statics : StaticRoutes(c)[n] = Static(c.statics[n], n)
      BY DEF StaticRoutes
    <2> QED BY <2>3, <2>5, <2>6
  <1>8. PICK s \in 5 .. 6 : s = ServicesAt(c)
    BY DEF ServicesAt
  <1>9. AuthAt(c) = s + p + 1
    BY <1>3, <1>8 DEF AuthAt
  <1>10. PICK os : os = Options(c) /\ os = (((ms \o us) \o ps) \o as) \o ss
    BY <1>1, <1>2, <1>4, <1>5, <1>7 DEF Options
  <1>11. s \in Nat /\ p \in Nat /\ Len(ms) = s - 1
    BY <1>1, <1>8
  <1>12. /\ ms \in Seq(OptionSet) /\ us \in Seq(OptionSet) /\ ps \in Seq(OptionSet)
         /\ as \in Seq(OptionSet) /\ ss \in Seq(OptionSet)
         /\ Len(us) = 1 /\ Len(ps) = p /\ Len(as) = 1
    BY <1>1, <1>2, <1>4, <1>5, <1>7, Zenon
  <1>13. os = (((ms \o us) \o ps) \o as) \o ss
    BY <1>10, Zenon
  <1>14. InFive(os, ms, us, ps, as, ss, s, p)
    BY <1>11, <1>12, <1>13, PartsShape
  <1>15. \A i \in 1 .. s - 1 : os[i].kind = "use"
    <2>1. \A i \in 1 .. s - 1 : os[i] = ms[i] /\ ms[i].kind = "use"
      BY <1>1, <1>8, <1>14, Zenon DEF InFive
    <2> QED BY <2>1, Zenon
  <1>16. os[s] = Use("services")
    BY <1>2, <1>14, Zenon DEF InFive
  <1>17. c.profiler => os[s + 1] = Mount(DebugPath, Profiler)
    <2>1. c.profiler => p = 1
      BY <1>3
    <2>2. p = 1 => os[s + 1] = ps[1]
      <3>1. 1 \in 1 .. 1
        OBVIOUS
      <3> QED BY <1>14, <3>1, Zenon DEF InFive
    <2> QED BY <1>4, <2>1, <2>2, Zenon
  <1>18. os[s + p + 1] = Mount(c.path, Auth)
    BY <1>5, <1>14, Zenon DEF InFive
  <1>19. \A n \in DOMAIN c.statics : os[s + p + 1 + n] = Static(c.statics[n], n)
    BY <1>6, <1>7, <1>14, Zenon DEF InFive
  <1>20. Len(os) = AuthAt(c) + Len(c.statics) /\ AuthAt(c) \in Nat
    <2>1. Len(os) = s + p + 1 + Len(ss) /\ Len(ss) = Len(c.statics)
      BY <1>7, <1>14, Zenon DEF InFive
    <2> QED BY <1>9, <1>11, <2>1
  <1>21. AuthAt(c) = ServicesAt(c) + (IF c.profiler THEN 1 ELSE 0) + 1
    BY DEF AuthAt
  <1>22. os \in Seq(OptionSet)
    BY <1>14, Zenon DEF InFive
  <1>23. ServicesAt(c) \in 5 .. 6
    BY <1>8, Zenon
  <1>24. /\ \A i \in 1 .. ServicesAt(c) - 1 : Options(c)[i].kind = "use"
         /\ Options(c)[ServicesAt(c)] = Use("services")
         /\ c.profiler => Options(c)[ServicesAt(c) + 1] = Mount(DebugPath, Profiler)
    BY <1>8, <1>10, <1>15, <1>16, <1>17, Zenon
  <1>25. /\ Options(c)[AuthAt(c)] = Mount(c.path, Auth)
         /\ \A n \in DOMAIN c.statics :
              Options(c)[AuthAt(c) + n] = Static(c.statics[n], n)
    BY <1>9, <1>10, <1>18, <1>19, Zenon
  <1>26. Options(c) \in Seq(OptionSet) /\ Len(Options(c)) = AuthAt(c) + Len(c.statics)
    BY <1>10, <1>20, <1>22, Zenon
  <1> QED BY <1>6, <1>20, <1>21, <1>23, <1>24, <1>25, <1>26, Zenon

\* Applying the next option of the list.
LEMMA NextOption ==
  ASSUME NEW c \in Loaded, todo \in Seq(OptionSet), OptionsLeft(c), todo # <<>>
  PROVE  /\ Applied(c) \in 0 .. Len(Options(c)) - 1
         /\ Head(todo) = Options(c)[Applied(c) + 1]
         /\ todo' = Tail(todo) =>
              /\ todo' \in Seq(OptionSet) /\ OptionsLeft(c)'
              /\ Applied(c)' = Applied(c) + 1
  <1>1. Len(todo) \in Nat \ {0} /\ Len(Options(c)) \in Nat /\ Len(todo) <= Len(Options(c))
    BY EmptySeq, OptionsShape, LenProperties DEF OptionsLeft
  <1>2. Head(todo) = todo[1]
    BY <1>1
  <1>3. todo[1] = Options(c)[Applied(c) + 1]
    BY <1>1 DEF OptionsLeft
  <1>4. ASSUME todo' = Tail(todo)
        PROVE  /\ todo' \in Seq(OptionSet) /\ OptionsLeft(c)'
               /\ Applied(c)' = Applied(c) + 1
    <2>1. /\ todo' \in Seq(OptionSet) /\ Len(todo') = Len(todo) - 1
          /\ \A i \in 1 .. Len(todo) - 1 : todo'[i] = todo[i + 1]
      BY <1>4, HeadTailProperties
    <2>2. Applied(c)' = Applied(c) + 1
      BY <1>1, <2>1 DEF Applied
    <2>3. \A i \in 1 .. Len(todo') : todo'[i] = Options(c)[Applied(c)' + i]
      <3>1. ASSUME NEW i \in 1 .. Len(todo') PROVE todo'[i] = Options(c)[Applied(c)' + i]
        <4>1. i + 1 \in 1 .. Len(todo) /\ todo'[i] = todo[i + 1]
          BY <1>1, <2>1
        <4>2. todo[i + 1] = Options(c)[Applied(c) + (i + 1)]
          BY <4>1 DEF OptionsLeft
        <4>3. Applied(c) + (i + 1) = Applied(c)' + i
          BY <1>1, <2>2 DEF Applied
        <4> QED BY <4>1, <4>2, <4>3
      <3> QED BY <3>1
    <2> QED BY <1>1, <2>1, <2>2, <2>3 DEF OptionsLeft
  <1> QED BY <1>1, <1>2, <1>3, <1>4 DEF Applied
-----------------------------------------------------------------------------
(* Lemmas about the routes, one for each way an option changes them *)

\* The routes with pattern p under the methods ms are replaced.
Replaced(routes, ms, p, to) ==
  {e \in routes : e.path # p \/ e.method \notin ms} \cup {Route(m, p, to) : m \in ms}

\* Routes stay apart when those of a pattern are replaced.
LEMMA ReplacedOK ==
  ASSUME NEW routes, RoutesOK(routes), NEW ms, NEW p \in Seq(Segments), NEW to
  PROVE  RoutesOK(Replaced(routes, ms, p, to))
  BY DEF RoutesOK, Replaced, Route

\* Middleware adds no route, and comes before all of them.
LEMMA UseRoutes ==
  ASSUME NEW c \in Loaded, NEW i \in Nat, NEW routes, RoutesInv(c, i, routes),
         i + 1 <= ServicesAt(c)
  PROVE  routes = {} /\ RoutesInv(c, i + 1, routes)
  <1>1. ServicesAt(c) \in Nat /\ AuthAt(c) \in Nat /\ AuthAt(c) > ServicesAt(c)
    BY OptionsShape
  <1>2. \A n \in DOMAIN c.statics : n \in Nat
    BY OptionsShape
  <1>3. routes = {}
    BY <1>1 DEF RoutesInv
  <1>4. \A n : ~Added(c, i + 1, n)
    BY <1>1, <1>2 DEF Added
  <1> QED BY <1>1, <1>3, <1>4
          DEF RoutesInv, RoutesKnown, ProfilerThere, AuthThere, StaticsThere, NoneRefused

\* The profiler is the first to be mounted.
LEMMA ProfilerRoutes ==
  ASSUME NEW c \in Loaded, NEW i \in Nat, NEW routes, RoutesInv(c, i, routes),
         c.profiler, i = ServicesAt(c)
  PROVE  /\ routes = {}
         /\ RoutesInv(c, i + 1, Replaced(routes, Methods, DebugPath.segs, Profiler))
  <1>1. ServicesAt(c) \in Nat /\ AuthAt(c) \in Nat /\ AuthAt(c) = i + 2
    BY OptionsShape
  <1>2. \A n \in DOMAIN c.statics : n \in Nat
    BY OptionsShape
  <1>3. routes = {}
    BY <1>1 DEF RoutesInv
  <1>4. \A n : ~Added(c, i + 1, n)
    BY <1>1, <1>2 DEF Added
  <1> DEFINE new == Replaced(routes, Methods, DebugPath.segs, Profiler)
  <1>5. new = {Route(m, DebugPath.segs, Profiler) : m \in Methods}
    BY <1>3 DEF Replaced
  <1>6. RoutesKnown(c, i + 1, new)
    BY <1>4, <1>5 DEF RoutesKnown, IsMounted, Unclaimed, Route
  <1>7. ProfilerThere(c, i + 1, new)
    <2>1. "GET" \in Methods
      BY DEF Methods
    <2>2. Route("GET", DebugPath.segs, Profiler) \in new
      BY <1>5, <2>1
    <2>3. Route("GET", DebugPath.segs, Profiler).path = DebugPath.segs
      BY DEF Route
    <2> QED BY <2>2, <2>3 DEF ProfilerThere
  <1> HIDE DEF new
  <1>8. AuthThere(c, i + 1, new) /\ StaticsThere(c, i + 1, new) /\ NoneRefused(c, i + 1)
    BY <1>1, <1>4 DEF AuthThere, StaticsThere, NoneRefused
  <1>9. ~(i + 1 <= ServicesAt(c))
    BY <1>1
  <1>10. RoutesInv(c, i + 1, new)
    BY <1>6, <1>7, <1>8, <1>9 DEF RoutesInv
  <1> QED BY <1>3, <1>10 DEF new

\* Only the profiler can be where the auth handlers are mounted.
LEMMA AuthRefused ==
  ASSUME NEW c \in Loaded, NEW i \in Nat, NEW routes, RoutesInv(c, i, routes),
         i + 1 = AuthAt(c), c.path.form = "rooted",
         NEW e \in routes, e.path = c.path.segs
  PROVE  c.profiler /\ c.path = DebugPath
  <1>1. AuthAt(c) \in Nat /\ \A n \in DOMAIN c.statics : n \in Nat
    BY OptionsShape
  <1>2. \A n : ~AddedLast(c, i, n)
    BY <1>1 DEF Added, AddedLast
  <1>3. c.profiler /\ e.path = DebugPath.segs
    BY <1>1, <1>2 DEF RoutesInv, RoutesKnown, IsMounted, IsStatic
  <1> QED BY <1>3, LoadedFacts, DebugPathType, PathEquality

\* The auth handlers are mounted before any static directory is added.
LEMMA AuthMounted ==
  ASSUME NEW c \in Loaded, NEW i \in Nat, NEW routes, RoutesInv(c, i, routes),
         i + 1 = AuthAt(c), c.path.form = "rooted",
         \A e \in routes : e.path # c.path.segs
  PROVE  RoutesInv(c, i + 1, Replaced(routes, Methods, c.path.segs, Auth))
  <1>1. /\ AuthAt(c) \in Nat /\ ServicesAt(c) \in Nat
        /\ AuthAt(c) = ServicesAt(c) + (IF c.profiler THEN 1 ELSE 0) + 1
        /\ \A n \in DOMAIN c.statics : n \in Nat \ {0}
    <2>1. \A n \in 1 .. Len(c.statics) : n \in Nat \ {0}
      BY OptionsShape
    <2>2. DOMAIN c.statics = 1 .. Len(c.statics)
      BY OptionsShape
    <2>3. /\ AuthAt(c) \in Nat /\ ServicesAt(c) \in Nat
          /\ AuthAt(c) = ServicesAt(c) + (IF c.profiler THEN 1 ELSE 0) + 1
      BY OptionsShape
    <2> QED BY <2>1, <2>2, <2>3
  <1>2. \A n : ~Added(c, i, n) /\ ~Added(c, i + 1, n)
    BY <1>1 DEF Added
  <1> DEFINE new == Replaced(routes, Methods, c.path.segs, Auth)
  <1>3. \A e \in new : e \in routes \/ \E m \in Methods : e = Route(m, c.path.segs, Auth)
    BY DEF Replaced
  <1>4. \A m \in Methods : Route(m, c.path.segs, Auth) \in new
    BY DEF Replaced
  <1> HIDE DEF new
  <1>5. RoutesKnown(c, i + 1, new)
    <2>1. ASSUME NEW e \in new, e \in routes
          PROVE  /\ e.method \in Methods
                 /\ c.profiler /\ IsMounted(c, i + 1, e, DebugPath.segs, Profiler)
      BY <1>1, <1>2, <2>1
         DEF RoutesInv, RoutesKnown, IsMounted, IsStatic, AddedLast, Unclaimed
    <2>2. ASSUME NEW e \in new, NEW m \in Methods, e = Route(m, c.path.segs, Auth)
          PROVE  e.method \in Methods /\ IsMounted(c, i + 1, e, c.path.segs, Auth)
      BY <1>2, <2>2 DEF Route, IsMounted, Unclaimed
    <2>3. AuthAt(c) <= i + 1
      BY <1>1
    <2> QED BY <1>3, <2>1, <2>2, <2>3 DEF RoutesKnown
  <1>6. AuthThere(c, i + 1, new)
    BY <1>4 DEF AuthThere, Methods
  <1>7. ProfilerThere(c, i + 1, new) /\ StaticsThere(c, i + 1, new)
    BY <1>1, <1>2 DEF ProfilerThere, StaticsThere
  <1>8. NoneRefused(c, i + 1)
    <2>1. c.profiler => c.path # DebugPath
      BY <1>1 DEF RoutesInv, ProfilerThere
    <2> QED BY <1>2, <2>1 DEF NoneRefused
  <1>9. ~(i + 1 <= ServicesAt(c))
    BY <1>1
  <1>10. RoutesInv(c, i + 1, new)
    BY <1>5, <1>6, <1>7, <1>8, <1>9 DEF RoutesInv
  <1> QED BY <1>10 DEF new

\* A static directory takes the GET of its endpoint from whoever had it.
LEMMA StaticAdded ==
  ASSUME NEW c \in Loaded, NEW i \in Nat, NEW routes, RoutesInv(c, i, routes),
         NEW n \in DOMAIN c.statics, i + 1 = AuthAt(c) + n, c.statics[n].form = "rooted"
  PROVE  RoutesInv(c, i + 1, Replaced(routes, {"GET"}, c.statics[n].segs, StaticApp(n)))
  <1>1. /\ AuthAt(c) \in Nat /\ ServicesAt(c) \in Nat
        /\ AuthAt(c) = ServicesAt(c) + (IF c.profiler THEN 1 ELSE 0) + 1
        /\ \A k \in DOMAIN c.statics : k \in Nat \ {0}
    <2>1. \A k \in 1 .. Len(c.statics) : k \in Nat \ {0}
      BY OptionsShape
    <2>2. DOMAIN c.statics = 1 .. Len(c.statics)
      BY OptionsShape
    <2>3. /\ AuthAt(c) \in Nat /\ ServicesAt(c) \in Nat
          /\ AuthAt(c) = ServicesAt(c) + (IF c.profiler THEN 1 ELSE 0) + 1
      BY OptionsShape
    <2> QED BY <2>1, <2>2, <2>3
  <1>2. \A k : Added(c, i + 1, k) <=> Added(c, i, k) \/ k = n
    BY <1>1 DEF Added
  <1>3. \A k : Added(c, i + 1, k) => k \in Nat /\ n \in Nat /\ k <= n
    BY <1>1 DEF Added
  <1> DEFINE p   == c.statics[n].segs
             to  == StaticApp(n)
             new == Replaced(routes, {"GET"}, p, to)
  <1>4. \A e : e \in new <=> \/ e \in routes /\ (e.path # p \/ e.method # "GET")
                             \/ e = Route("GET", p, to)
    BY DEF Replaced
  <1> HIDE DEF new
  <1>5. AddedLast(c, i + 1, n)
    BY <1>2, <1>3 DEF AddedLast
  <1>6. ASSUME NEW k, AddedLast(c, i, k), c.statics[k].segs # p
        PROVE  AddedLast(c, i + 1, k)
    BY <1>2, <1>6 DEF AddedLast
  <1>7. \A q : Unclaimed(c, i + 1, q) <=> Unclaimed(c, i, q) /\ q # p
    BY <1>2 DEF Unclaimed
  <1>8. RoutesKnown(c, i + 1, new)
    <2>1. ASSUME NEW e \in routes, e.path # p \/ e.method # "GET"
          PROVE  /\ e.method \in Methods
                 /\ \/ c.profiler /\ IsMounted(c, i + 1, e, DebugPath.segs, Profiler)
                    \/ AuthAt(c) <= i + 1 /\ IsMounted(c, i + 1, e, c.path.segs, Auth)
                    \/ IsStatic(c, i + 1, e)
      <3>1. e.method \in Methods
        BY DEF RoutesInv, RoutesKnown
      <3>2. CASE c.profiler /\ IsMounted(c, i, e, DebugPath.segs, Profiler)
        BY <1>7, <2>1, <3>1, <3>2 DEF IsMounted
      <3>3. CASE AuthAt(c) <= i /\ IsMounted(c, i, e, c.path.segs, Auth)
        BY <1>1, <1>7, <2>1, <3>1, <3>3 DEF IsMounted
      <3>4. CASE IsStatic(c, i, e)
        BY <1>6, <2>1, <3>1, <3>4 DEF IsStatic
      <3> QED BY <3>2, <3>3, <3>4 DEF RoutesInv, RoutesKnown
    <2>2. LET e == Route("GET", p, to) IN e.method \in Methods /\ IsStatic(c, i + 1, e)
      BY <1>5 DEF Route, Methods, IsStatic
    <2> QED BY <1>4, <2>1, <2>2 DEF RoutesKnown
  <1>9. AuthThere(c, i + 1, new)
    <2>1. Route("POST", c.path.segs, Auth) \in routes
      BY <1>1 DEF RoutesInv, AuthThere
    <2>2. Unclaimed(c, i + 1, c.path.segs) =>
            Route("GET", c.path.segs, Auth) \in routes /\ c.path.segs # p
      BY <1>1, <1>7 DEF RoutesInv, AuthThere
    <2> QED BY <1>4, <2>1, <2>2 DEF AuthThere, Route
  <1>10. StaticsThere(c, i + 1, new)
    <2>1. ASSUME NEW m \in DOMAIN c.statics, Added(c, i + 1, m)
          PROVE  \E k \in DOMAIN c.statics :
                   /\ AddedLast(c, i + 1, k) /\ c.statics[k].segs = c.statics[m].segs
                   /\ Route("GET", c.statics[m].segs, StaticApp(k)) \in new
      <3>1. CASE c.statics[m].segs = p
        BY <1>4, <1>5, <3>1
      <3>2. CASE c.statics[m].segs # p
        <4>1. Added(c, i, m)
          BY <1>2, <2>1, <3>2
        <4>2. PICK k \in DOMAIN c.statics :
                /\ AddedLast(c, i, k) /\ c.statics[k].segs = c.statics[m].segs
                /\ Route("GET", c.statics[m].segs, StaticApp(k)) \in routes
          BY <4>1 DEF RoutesInv, StaticsThere
        <4>3. Route("GET", c.statics[m].segs, StaticApp(k)) \in new
          BY <1>4, <3>2, <4>2 DEF Route
        <4> QED BY <1>6, <3>2, <4>2, <4>3
      <3> QED BY <3>1, <3>2
    <2> QED BY <2>1 DEF StaticsThere
  <1>11. NoneRefused(c, i + 1)
    <2>1. AuthAt(c) <= i
      BY <1>1
    <2> QED BY <1>2, <2>1 DEF RoutesInv, NoneRefused
  <1>12. ~(i + 1 <= ServicesAt(c)) /\ ProfilerThere(c, i + 1, new)
    BY <1>1 DEF ProfilerThere
  <1>13. RoutesInv(c, i + 1, new)
    BY <1>8, <1>9, <1>10, <1>11, <1>12 DEF RoutesInv
  <1> QED BY <1>13 DEF new
-----------------------------------------------------------------------------
(* The steps of the boot *)

\* What the option at a position is.
LEMMA NextKind ==
  ASSUME NEW c \in Loaded, NEW i \in 0 .. Len(Options(c)) - 1
  PROVE  LET o == Options(c)[i + 1] IN
         \/ /\ i + 1 <= ServicesAt(c) /\ o.kind = "use"
            /\ i + 1 = ServicesAt(c) => o = Use("services")
         \/ c.profiler /\ i = ServicesAt(c) /\ o = Mount(DebugPath, Profiler)
         \/ i + 1 = AuthAt(c) /\ o = Mount(c.path, Auth)
         \/ \E n \in DOMAIN c.statics : i + 1 = AuthAt(c) + n /\ o = Static(c.statics[n], n)
  <1> DEFINE o == Options(c)[i + 1]
  <1>1. /\ ServicesAt(c) \in Nat \ {0} /\ AuthAt(c) \in Nat /\ Len(c.statics) \in Nat
        /\ AuthAt(c) = ServicesAt(c) + (IF c.profiler THEN 1 ELSE 0) + 1
        /\ Len(Options(c)) = AuthAt(c) + Len(c.statics)
    BY OptionsShape
  <1>2. CASE i + 1 < ServicesAt(c)
    <2>1. i + 1 \in 1 .. ServicesAt(c) - 1
      BY <1>1, <1>2
    <2>2. o.kind = "use"
      BY <2>1, OptionsShape
    <2> QED BY <1>1, <1>2, <2>2
  <1>3. CASE i + 1 = ServicesAt(c)
    <2>1. o = Use("services")
      BY <1>3, OptionsShape
    <2> QED BY <1>1, <1>3, <2>1 DEF Use
  <1>4. CASE c.profiler /\ i = ServicesAt(c)
    <2>1. o = Mount(DebugPath, Profiler)
      BY <1>4, OptionsShape
    <2> QED BY <1>4, <2>1
  <1>5. CASE i + 1 = AuthAt(c)
    <2>1. o = Mount(c.path, Auth)
      BY <1>5, OptionsShape
    <2> QED BY <1>5, <2>1
  <1>6. CASE i + 1 > AuthAt(c)
    <2>1. PICK n \in 1 .. Len(c.statics) : i + 1 = AuthAt(c) + n
      <3>1. PICK a \in Nat, l \in Nat :
              a = AuthAt(c) /\ l = Len(c.statics) /\ Len(Options(c)) = a + l
        BY <1>1, Zenon
      <3>2. PICK m : m = a + l /\ i \in 0 .. m - 1
        BY <3>1, Zenon
      <3>3. i \in 0 .. a + l - 1
        BY <3>2
      <3>4. i + 1 > a
        BY <1>6, <3>1, Zenon
      <3>5. i + 1 - a \in 1 .. l /\ i + 1 = a + (i + 1 - a)
        BY <3>3, <3>4
      <3> QED BY <3>1, <3>5, Zenon
    <2>2. n \in DOMAIN c.statics
      BY OptionsShape
    <2>3. o = Static(c.statics[n], n)
      BY <2>1, <2>2, OptionsShape
    <2> QED BY <2>1, <2>2, <2>3
  <1>7. \/ i + 1 < ServicesAt(c)
        \/ i + 1 = ServicesAt(c)
        \/ c.profiler /\ i = ServicesAt(c)
        \/ i + 1 = AuthAt(c)
        \/ i + 1 > AuthAt(c)
    BY <1>1
  <1> QED BY <1>2, <1>3, <1>4, <1>5, <1>6, <1>7

\* The invariant of a router that has applied one option more.
LEMMA Advance ==
  ASSUME BootInv, stage = "routes", NEW c \in Loaded, config = {c},
         UNCHANGED <<stage, config>>, todo # <<>>, todo' = Tail(todo),
         RoutesInv(c, Applied(c) + 1, endpoints'), RoutesOK(endpoints'),
         middleware' \in Seq(Layers),
         ServicesAt(c) <= Applied(c) + 1 => Contains(middleware', "services")
  PROVE  BootInv'
  <1>1. c.templates /\ OptionsLeft(c) /\ todo \in Seq(OptionSet)
    BY DEF BootInv, RouterInv
  <1>2. /\ Applied(c) \in 0 .. Len(Options(c)) - 1 /\ Len(Options(c)) \in Nat
        /\ todo' \in Seq(OptionSet) /\ OptionsLeft(c)' /\ Applied(c)' = Applied(c) + 1
    BY <1>1, NextOption, OptionsShape, LenProperties
  <1>3. /\ ServicesAt(c) <= Applied(c)' => Contains(middleware', "services")
        /\ RoutesInv(c, Applied(c)', endpoints')
    BY <1>2
  <1>4. RouterInv(c)'
    BY <1>1, <1>2, <1>3 DEF RouterInv
  <1>5. RoutesSeeServices'
    <2>1. ServicesAt(c) \in Nat
      BY OptionsShape
    <2>2. Applied(c) + 1 <= ServicesAt(c) => endpoints' = {}
      BY DEF RoutesInv
    <2> QED BY <1>2, <2>1, <2>2 DEF RoutesSeeServices
  <1>6. FailsOnlyForItsConfig'
    BY DEF FailsOnlyForItsConfig
  <1>7. RoutesOK(endpoints)'
    OBVIOUS
  <1> QED BY <1>2, <1>4, <1>5, <1>6, <1>7 DEF BootInv

\* And of one that chi refused an option.
LEMMA Refuse ==
  ASSUME BootInv, stage = "routes", NEW c \in Loaded, config = {c}, ~WellFormed(c),
         UNCHANGED <<config, middleware>>, Panic
  PROVE  BootInv'
  <1>1. FailsOnlyForItsConfig'
    BY DEF FailsOnlyForItsConfig, Panic
  <1>2. RoutesSeeServices' /\ RoutesOK(endpoints)'
    BY DEF BootInv, RoutesSeeServices, Panic
  <1> QED BY <1>1, <1>2 DEF BootInv, Panic

\* Middleware, for which no route is in the way.
LEMMA UseStep ==
  ASSUME BootInv, stage = "routes", NEW c \in Loaded, config = {c}, UNCHANGED config,
         todo # <<>>, Applied(c) \in Nat, Applied(c) + 1 <= ServicesAt(c),
         NEW o \in OptionSet,
         Applied(c) + 1 = ServicesAt(c) => o = Use("services"), ApplyUse(o)
  PROVE  BootInv'
  <1>1. RoutesInv(c, Applied(c), endpoints) /\ RoutesOK(endpoints) /\ middleware \in Seq(Layers)
    BY DEF BootInv, RouterInv
  <1>2. endpoints = {} /\ RoutesInv(c, Applied(c) + 1, endpoints)
    BY <1>1, UseRoutes
  <1>3. /\ o.kind = "use" /\ middleware' = Append(middleware, o.name) /\ todo' = Tail(todo)
        /\ UNCHANGED <<stage, endpoints>>
    BY <1>2 DEF ApplyUse
  <1>4. o.name \in Layers
    BY <1>3 DEF OptionSet
  <1>5. middleware' \in Seq(Layers)
    BY <1>1, <1>3, <1>4, AppendProperties
  <1>6. ASSUME ServicesAt(c) <= Applied(c) + 1 PROVE Contains(middleware', "services")
    <2>1. Applied(c) + 1 = ServicesAt(c)
      <3>1. ServicesAt(c) \in Nat
        BY OptionsShape
      <3> QED BY <1>6, <3>1
    <2>2. o.name = "services"
      BY <2>1 DEF Use
    <2>3. /\ Len(middleware') = Len(middleware) + 1 /\ Len(middleware) \in Nat
          /\ middleware'[Len(middleware) + 1] = "services"
      BY <1>1, <1>3, <1>4, <2>2, AppendProperties, LenProperties
    <2>4. Len(middleware') \in 1 .. Len(middleware')
      BY <2>3
    <2> QED BY <2>3, <2>4 DEF Contains
  <1>7. RoutesInv(c, Applied(c) + 1, endpoints') /\ RoutesOK(endpoints')
    BY <1>1, <1>2, <1>3
  <1> QED BY <1>3, <1>5, <1>6, <1>7, Advance

\* The profiler, which is the first to be mounted.
LEMMA ProfilerStep ==
  ASSUME BootInv, stage = "routes", NEW c \in Loaded, config = {c}, UNCHANGED config,
         todo # <<>>, Applied(c) \in Nat, c.profiler, Applied(c) = ServicesAt(c),
         UNCHANGED middleware, ApplyMount(Mount(DebugPath, Profiler))
  PROVE  BootInv'
  <1>1. /\ RoutesInv(c, Applied(c), endpoints) /\ RoutesOK(endpoints)
        /\ middleware \in Seq(Layers) /\ Contains(middleware, "services")
    BY DEF BootInv, RouterInv
  <1> DEFINE new == Replaced(endpoints, Methods, DebugPath.segs, Profiler)
  <1>2. endpoints = {} /\ RoutesInv(c, Applied(c) + 1, new)
    BY <1>1, ProfilerRoutes
  <1>3. endpoints' = new /\ todo' = Tail(todo) /\ UNCHANGED stage
    BY <1>2, DebugPathType DEF ApplyMount, Mount, Registered, Replaced, Route
  <1>4. RoutesOK(new)
    <2>1. DebugPath.segs \in Seq(Segments)
      BY DebugPathType DEF PathSet
    <2> QED BY <1>1, <2>1, ReplacedOK
  <1> HIDE DEF new
  <1> QED BY <1>1, <1>2, <1>3, <1>4, Advance

\* The auth handlers: chi refuses a pattern without a slash, and the path that
\* the profiler has.
LEMMA AuthStep ==
  ASSUME BootInv, stage = "routes", NEW c \in Loaded, config = {c}, UNCHANGED config,
         todo # <<>>, Applied(c) \in Nat, Applied(c) + 1 = AuthAt(c),
         UNCHANGED middleware, ApplyMount(Mount(c.path, Auth))
  PROVE  BootInv'
  <1>1. /\ RoutesInv(c, Applied(c), endpoints) /\ RoutesOK(endpoints)
        /\ middleware \in Seq(Layers)
        /\ ServicesAt(c) <= Applied(c) => Contains(middleware, "services")
    BY DEF BootInv, RouterInv
  <1> DEFINE new == Replaced(endpoints, Methods, c.path.segs, Auth)
  <1>2. CASE c.path.form = "rooted" /\ \A e \in endpoints : e.path # c.path.segs
    <2>1. RoutesInv(c, Applied(c) + 1, new)
      BY <1>1, <1>2, AuthMounted
    <2>2. endpoints' = new /\ todo' = Tail(todo) /\ UNCHANGED stage
      BY <1>2 DEF ApplyMount, Mount, Registered, Replaced, Route
    <2>3. RoutesOK(new)
      <3>1. c.path.segs \in Seq(Segments)
        BY LoadedFacts DEF PathSet
      <3> QED BY <1>1, <3>1, ReplacedOK
    <2>4. Contains(middleware, "services")
      <3>1. ServicesAt(c) <= Applied(c)
        BY OptionsShape
      <3> QED BY <1>1, <3>1
    <2> HIDE DEF new
    <2> QED BY <1>1, <2>1, <2>2, <2>3, <2>4, Advance
  <1>3. CASE ~(c.path.form = "rooted" /\ \A e \in endpoints : e.path # c.path.segs)
    <2>1. Panic
      BY <1>3 DEF ApplyMount, Mount
    <2>2. ~WellFormed(c)
      BY <1>1, <1>3, AuthRefused DEF WellFormed
    <2> QED BY <2>1, <2>2, Refuse
  <1> QED BY <1>2, <1>3

\* A static directory: nothing but its pattern can be refused.
LEMMA StaticStep ==
  ASSUME BootInv, stage = "routes", NEW c \in Loaded, config = {c}, UNCHANGED config,
         todo # <<>>, Applied(c) \in Nat, NEW n \in DOMAIN c.statics,
         Applied(c) + 1 = AuthAt(c) + n,
         UNCHANGED middleware, ApplyGet(Static(c.statics[n], n))
  PROVE  BootInv'
  <1>1. /\ RoutesInv(c, Applied(c), endpoints) /\ RoutesOK(endpoints)
        /\ middleware \in Seq(Layers)
        /\ ServicesAt(c) <= Applied(c) => Contains(middleware, "services")
    BY DEF BootInv, RouterInv
  <1> DEFINE new == Replaced(endpoints, {"GET"}, c.statics[n].segs, StaticApp(n))
  <1>2. CASE c.statics[n].form = "rooted"
    <2>1. RoutesInv(c, Applied(c) + 1, new)
      BY <1>1, <1>2, StaticAdded
    <2>2. endpoints' = new /\ todo' = Tail(todo) /\ UNCHANGED stage
      BY <1>2 DEF ApplyGet, Static, Registered, Replaced, Route, StaticApp
    <2>3. RoutesOK(new)
      <3>1. c.statics[n] \in PathSet
        BY LoadedFacts
      <3>2. c.statics[n].segs \in Seq(Segments)
        BY <3>1 DEF PathSet
      <3> QED BY <1>1, <3>2, ReplacedOK
    <2>4. Contains(middleware, "services")
      <3>1. n \in Nat \ {0} /\ ServicesAt(c) \in Nat /\ AuthAt(c) \in Nat
        <4>1. n \in 1 .. Len(c.statics)
          BY OptionsShape
        <4>2. n \in Nat \ {0}
          BY <4>1
        <4>3. ServicesAt(c) \in Nat /\ AuthAt(c) \in Nat
          BY DEF ServicesAt, AuthAt
        <4> QED BY <4>2, <4>3
      <3>2. AuthAt(c) > ServicesAt(c)
        BY <3>1 DEF AuthAt
      <3>3. ServicesAt(c) <= Applied(c)
        BY <3>1, <3>2
      <3> QED BY <1>1, <3>3
    <2> HIDE DEF new
    <2> QED BY <1>1, <2>1, <2>2, <2>3, <2>4, Advance
  <1>3. CASE c.statics[n].form # "rooted"
    <2>1. Panic
      BY <1>3 DEF ApplyGet, Static
    <2>2. ~WellFormed(c)
      BY <1>3 DEF WellFormed
    <2> QED BY <2>1, <2>2, Refuse
  <1> QED BY <1>2, <1>3

\* Whatever the next option is.
LEMMA ApplyInv ==
  ASSUME BootInv, Apply PROVE BootInv'
  <1>1. /\ stage = "routes" /\ todo # <<>> /\ UNCHANGED config
        /\ ApplyUse(Head(todo)) \/ ApplyMount(Head(todo)) \/ ApplyGet(Head(todo))
    BY DEF Apply
  <1>2. CASE config = {}
    BY <1>1, <1>2 DEF BootInv, Apply
  <1>3. ASSUME NEW c \in Loaded, config = {c} PROVE BootInv'
    <2>1. todo \in Seq(OptionSet) /\ OptionsLeft(c)
      BY <1>1, <1>3 DEF BootInv, RouterInv
    <2>2. Applied(c) \in 0 .. Len(Options(c)) - 1 /\ Head(todo) = Options(c)[Applied(c) + 1]
      BY <1>1, <2>1, NextOption
    <2>3. Applied(c) \in Nat
      BY <2>2
    <2>4. PICK o : o = Head(todo)
      OBVIOUS
    <2>5. o \in OptionSet
      BY <1>1, <2>1, <2>4, HeadTailProperties
    <2>6. ApplyUse(o) \/ ApplyMount(o) \/ ApplyGet(o)
      BY <1>1, <2>4
    <2>7. CASE /\ Applied(c) + 1 <= ServicesAt(c) /\ o.kind = "use"
               /\ Applied(c) + 1 = ServicesAt(c) => o = Use("services")
      <3>1. ApplyUse(o)
        BY <2>6, <2>7 DEF ApplyMount, ApplyGet
      <3> QED BY <1>1, <1>3, <2>3, <2>5, <2>7, <3>1, UseStep
    <2>8. CASE c.profiler /\ Applied(c) = ServicesAt(c) /\ o = Mount(DebugPath, Profiler)
      <3>1. o.kind = "mount"
        BY <2>8 DEF Mount
      <3>2. ApplyMount(o) /\ UNCHANGED middleware
        BY <2>6, <3>1 DEF ApplyUse, ApplyGet, ApplyMount, Panic
      <3> QED BY <1>1, <1>3, <2>3, <2>8, <3>2, ProfilerStep
    <2>9. CASE Applied(c) + 1 = AuthAt(c) /\ o = Mount(c.path, Auth)
      <3>1. o.kind = "mount"
        BY <2>9 DEF Mount
      <3>2. ApplyMount(o) /\ UNCHANGED middleware
        BY <2>6, <3>1 DEF ApplyUse, ApplyGet, ApplyMount, Panic
      <3> QED BY <1>1, <1>3, <2>3, <2>9, <3>2, AuthStep
    <2>10. ASSUME NEW n \in DOMAIN c.statics, Applied(c) + 1 = AuthAt(c) + n,
                  o = Static(c.statics[n], n)
           PROVE  BootInv'
      <3>1. o.kind = "get"
        BY <2>10 DEF Static
      <3>2. ApplyGet(o) /\ UNCHANGED middleware
        BY <2>6, <3>1 DEF ApplyUse, ApplyGet, ApplyMount, Panic
      <3> QED BY <1>1, <1>3, <2>3, <2>10, <3>2, StaticStep
    <2> QED BY <2>2, <2>4, <2>7, <2>8, <2>9, <2>10, NextKind
  <1> QED BY <1>2, <1>3 DEF BootInv

\* Loading a configuration, and making its options: nothing is routed yet.
LEMMA LoadInv ==
  ASSUME BootInv, Load PROVE BootInv'
  <1>1. /\ config = {} /\ todo = <<>> /\ endpoints = {}
        /\ UNCHANGED <<todo, middleware, endpoints>>
    BY DEF BootInv, Load
  <1>2. CASE stage' \in {"fatal", "panic"} /\ UNCHANGED config
    BY <1>1, <1>2 DEF BootInv, RoutesSeeServices, FailsOnlyForItsConfig
  <1>3. ASSUME NEW c \in Loaded, stage' = "options", config' = {c} PROVE BootInv'
    BY <1>1, <1>3 DEF BootInv, RoutesSeeServices, FailsOnlyForItsConfig
  <1> QED BY <1>2, <1>3 DEF Load

\* Making the options routes nothing either, and panics only for the
\* configuration.
LEMMA AssembleInv ==
  ASSUME BootInv, Assemble PROVE BootInv'
  <1>1. /\ stage = "options" /\ todo = <<>> /\ endpoints = {}
        /\ UNCHANGED <<config, middleware, endpoints>>
    BY DEF BootInv, Assemble
  <1>2. PICK c \in Loaded : config = {c}
    BY DEF BootInv, Assemble
  <1>3. CASE c.templates /\ \A n \in DOMAIN c.statics : c.statics[n].form # "params"
    <2>1. stage' = "routes" /\ todo' = Options(c)
      BY <1>2, <1>3 DEF Assemble
    <2>2. /\ Options(c) \in Seq(OptionSet) /\ Len(Options(c)) \in Nat
          /\ ServicesAt(c) \in Nat \ {0} /\ AuthAt(c) \in Nat /\ AuthAt(c) > ServicesAt(c)
      BY OptionsShape, LenProperties
    <2>3. \A n \in DOMAIN c.statics : n \in Nat
      BY OptionsShape
    <2>4. Applied(c)' = 0
      BY <2>1, <2>2 DEF Applied
    <2>5. OptionsLeft(c)'
      <3>1. Len(todo') <= Len(Options(c))
        BY <2>1, <2>2
      <3>2. \A i \in 1 .. Len(todo') : todo'[i] = Options(c)[Applied(c)' + i]
        BY <2>1, <2>2, <2>4
      <3> QED BY <3>1, <3>2 DEF OptionsLeft
    <2>6. \A n : ~Added(c, 0, n)
      BY <2>2, <2>3 DEF Added
    <2>7. RoutesInv(c, 0, {})
      BY <2>2, <2>6 DEF RoutesInv, RoutesKnown, ProfilerThere, AuthThere, StaticsThere,
                        NoneRefused
    <2>8. /\ ServicesAt(c) <= Applied(c)' => Contains(middleware', "services")
          /\ RoutesInv(c, Applied(c)', endpoints')
      BY <1>1, <2>2, <2>4, <2>7
    <2>9. RouterInv(c)'
      BY <1>3, <2>5, <2>8 DEF RouterInv
    <2>10. RoutesSeeServices' /\ FailsOnlyForItsConfig'
      BY <1>1, <2>1 DEF RoutesSeeServices, FailsOnlyForItsConfig
    <2>11. RoutesOK(endpoints)' /\ middleware' \in Seq(Layers) /\ todo' \in Seq(OptionSet)
      BY <1>1, <2>1, <2>2 DEF BootInv
    <2> QED BY <1>1, <1>2, <2>1, <2>9, <2>10, <2>11 DEF BootInv
  <1>4. CASE ~(c.templates /\ \A n \in DOMAIN c.statics : c.statics[n].form # "params")
    <2>1. stage' = "panic" /\ UNCHANGED todo
      BY <1>2, <1>4 DEF Assemble
    <2>2. ~WellFormed(c)
      BY <1>4 DEF WellFormed
    <2>3. RoutesSeeServices' /\ FailsOnlyForItsConfig'
      BY <1>1, <1>2, <2>1, <2>2 DEF RoutesSeeServices, FailsOnlyForItsConfig
    <2>4. RoutesOK(endpoints)' /\ middleware' \in Seq(Layers) /\ todo' \in Seq(OptionSet)
      BY <1>1, <2>1 DEF BootInv
    <2> QED BY <1>1, <1>2, <2>1, <2>3, <2>4 DEF BootInv
  <1> QED BY <1>3, <1>4

\* When all options are applied.
LEMMA AllApplied ==
  ASSUME NEW c \in Loaded, RouterInv(c), todo = <<>>
  PROVE  /\ c.templates /\ c.path.form = "rooted" /\ (c.profiler => c.path # DebugPath)
         /\ AuthThere(c, Applied(c), endpoints) /\ StaticsThere(c, Applied(c), endpoints)
         /\ AuthAt(c) <= Applied(c)
         /\ \A n \in DOMAIN c.statics :
              Added(c, Applied(c), n) /\ c.statics[n].form = "rooted"
  <1>1. AuthAt(c) \in Nat /\ Len(c.statics) \in Nat /\ Len(Options(c)) \in Nat
        /\ Len(Options(c)) = AuthAt(c) + Len(c.statics)
    BY OptionsShape, LenProperties
  <1>2. Len(todo) = 0
    OBVIOUS
  <1>3. Applied(c) = AuthAt(c) + Len(c.statics)
    BY <1>1, <1>2 DEF Applied
  <1>4. ASSUME NEW n \in DOMAIN c.statics PROVE Added(c, Applied(c), n)
    <2>1. n \in 1 .. Len(c.statics)
      BY OptionsShape
    <2> QED BY <1>1, <1>3, <2>1 DEF Added
  <1>5. AuthAt(c) <= Applied(c)
    BY <1>1, <1>3
  <1> QED BY <1>4, <1>5 DEF RouterInv, RoutesInv, NoneRefused

\* The server is made of a router that has applied everything.
LEMMA StartInv ==
  ASSUME BootInv, Start PROVE BootInv'
  <1>1. stage = "routes" /\ todo = <<>> /\ UNCHANGED <<config, todo, middleware, endpoints>>
    BY DEF Start
  <1>2. PICK c \in Loaded : config = {c}
    BY DEF BootInv, Start
  <1>3. RouterInv(c)
    BY <1>1, <1>2 DEF BootInv
  <1>4. stage' = IF c.tls = "bad" THEN "fatal" ELSE "up"
    BY <1>2 DEF Start
  <1>5. WellFormed(c) <=> c.tls # "bad"
    BY <1>1, <1>3, AllApplied DEF WellFormed
  <1>6. FailsOnlyForItsConfig'
    BY <1>1, <1>2, <1>4, <1>5 DEF FailsOnlyForItsConfig
  <1>7. RoutesSeeServices' /\ RoutesOK(endpoints)'
    BY <1>1 DEF BootInv, RoutesSeeServices
  <1>8. RouterInv(c)'
    BY <1>1, <1>3 DEF RouterInv, OptionsLeft, Applied
  <1>9. stage' \in {"up", "fatal"}
    BY <1>4
  <1> QED BY <1>1, <1>2, <1>6, <1>7, <1>8, <1>9 DEF BootInv

\* The boot begins in order.
LEMMA BootInvInit == RInit => BootInv
BY EmptySeq DEF RInit, BootInv, RoutesOK, RoutesSeeServices, FailsOnlyForItsConfig

\* A step of another goroutine leaves the boot as it is.
LEMMA BootInvKept == BootInv /\ UNCHANGED rvars => BootInv'
BY DEF BootInv, rvars, RoutesSeeServices, FailsOnlyForItsConfig, RouterInv, OptionsLeft,
       Applied

\* The boot keeps its invariant, while the other goroutines leave it alone.
THEOREM BootInvariantHolds == PSpec => []BootInv
<1>1. PInit => BootInv
  BY BootInvInit DEF PInit
<1>2. BootInv /\ [PNext]_pvars => BootInv'
  <2> SUFFICES ASSUME BootInv, [PNext]_pvars PROVE BootInv'
    OBVIOUS
  <2>1. CASE RNext
    BY <2>1, LoadInv, AssembleInv, ApplyInv, StartInv DEF RNext
  <2>2. CASE UNCHANGED rvars
    BY <2>2, BootInvKept
  <2> QED BY <2>1, <2>2 DEF PNext, BootStep, pvars
<1> QED BY <1>1, <1>2, PTL DEF PSpec

\* There is one configuration at most, an option is one of three kinds, and no two
\* routes have a method and a pattern in common (main.go:40-58).
THEOREM RTypeCorrect == PSpec => []RTypeOK
<1>1. BootInv => RTypeOK
  <2> SUFFICES ASSUME BootInv PROVE RTypeOK
    OBVIOUS
  <2>1. config \subseteq Loaded /\ Cardinality(config) <= 1
    <3>1. Cardinality({}) = 0 /\ \A c : Cardinality({c}) = 1
      BY FS_EmptySet, FS_Singleton, Zenon
    <3>2. 0 <= 1 /\ 1 <= 1
      OBVIOUS
    <3>3. config = {} \/ \E c \in Loaded : config = {c}
      BY DEF BootInv
    <3> QED BY <3>1, <3>2, <3>3
  <2>2. ASSUME NEW n \in DOMAIN todo PROVE todo[n].kind \in {"use", "mount", "get"}
    <3>1. todo[n] \in OptionSet
      BY DEF BootInv
    <3> QED BY <3>1 DEF OptionSet
  <2> QED BY <2>1, <2>2 DEF BootInv, RTypeOK, RoutesOK
<1> QED BY <1>1, BootInvariantHolds, PTL

\* No handler runs without the services that ServicesFromContext panics for
\* (main.go:47): WithServices is applied before any route is.
THEOREM RoutesAlwaysSeeServices == PSpec => []RoutesSeeServices
<1>1. BootInv => RoutesSeeServices
  BY DEF BootInv
<1> QED BY <1>1, BootInvariantHolds, PTL

\* The order of the options (main.go:47-58) never makes chi panic: the server
\* comes up if and only if its configuration is well formed.
THEOREM BootFailsOnlyForItsConfig == PSpec => []FailsOnlyForItsConfig
<1>1. BootInv => FailsOnlyForItsConfig
  BY DEF BootInv
<1> QED BY <1>1, BootInvariantHolds, PTL
-----------------------------------------------------------------------------
(* Who serves a request *)

\* Of the proper prefixes of a path with one segment more than p, p is the longest.
LEMMA LongestPrefix ==
  ASSUME NEW p \in Seq(Segments), NEW x \in Segments, NEW f \in Seq(Segments)
  PROVE  /\ IsStrictPrefix(p, Append(p, x))
         /\ IsStrictPrefix(f, Append(p, x)) => Len(f) <= Len(p)
         /\ IsStrictPrefix(f, Append(p, x)) /\ Len(f) = Len(p) => f = p
  <1> DEFINE q == Append(p, x)
  <1>1. /\ q \in Seq(Segments) /\ Len(q) = Len(p) + 1
        /\ \A i \in 1 .. Len(p) : q[i] = p[i]
    BY AppendProperties
  <1>2. Len(p) \in Nat /\ Len(f) \in Nat
    BY LenProperties
  <1> HIDE DEF q
  <1>3. ASSUME NEW s \in Seq(Segments), NEW n \in 0 .. Len(s)
        PROVE  /\ SubSeq(s, 1, n) \in Seq(Segments) /\ Len(SubSeq(s, 1, n)) = n
               /\ \A i \in 1 .. n : SubSeq(s, 1, n)[i] = s[i]
    <2>1. Len(s) \in Nat /\ \A i \in 1 .. n : s[i] \in Segments
      BY LenProperties
    <2>2. /\ SubSeq(s, 1, n) \in Seq(Segments)
          /\ Len(SubSeq(s, 1, n)) = IF 1 <= n THEN n - 1 + 1 ELSE 0
          /\ \A i \in 1 .. n - 1 + 1 : SubSeq(s, 1, n)[i] = s[1 + i - 1]
      BY <2>1, SubSeqProperties
    <2> QED BY <2>1, <2>2
  <1>4. IsPrefix(p, q)
    <2>1. SubSeq(p, 1, Len(p)) = SubSeq(q, 1, Len(p))
      <3>1. PICK a : a = SubSeq(p, 1, Len(p)) /\ a \in Seq(Segments) /\ Len(a) = Len(p)
                     /\ \A i \in 1 .. Len(p) : a[i] = p[i]
        BY <1>2, <1>3
      <3>2. PICK b : b = SubSeq(q, 1, Len(p)) /\ b \in Seq(Segments) /\ Len(b) = Len(p)
                     /\ \A i \in 1 .. Len(p) : b[i] = q[i]
        BY <1>1, <1>2, <1>3
      <3>3. a = b
        BY <1>1, <3>1, <3>2, SeqEqual
      <3> QED BY <3>1, <3>2, <3>3
    <2> QED BY <1>1, <1>2, <2>1 DEF IsPrefix
  <1>5. p # q
    BY <1>1, <1>2
  <1>6. ASSUME IsStrictPrefix(f, q)
        PROVE  Len(f) <= Len(p) /\ (Len(f) = Len(p) => f = p)
    <2>1. Len(f) <= Len(q) /\ f # q /\ SubSeq(f, 1, Len(f)) = SubSeq(q, 1, Len(f))
      BY <1>6 DEF IsStrictPrefix, IsPrefix
    <2>2. \A i \in 1 .. Len(f) : SubSeq(f, 1, Len(f))[i] = f[i]
      BY <1>2, <1>3
    <2>3. \A i \in 1 .. Len(f) : SubSeq(q, 1, Len(f))[i] = q[i]
      BY <1>1, <1>2, <1>3, <2>1
    <2>4. \A i \in 1 .. Len(f) : f[i] = q[i]
      BY <2>1, <2>2, <2>3, Zenon
    <2>5. Len(f) # Len(q)
      BY <1>1, <2>1, <2>4, SeqEqual
    <2>6. Len(f) <= Len(p)
      BY <1>1, <1>2, <2>1, <2>5
    <2>7. Len(f) = Len(p) => f = p
      BY <1>1, <2>4, SeqEqual
    <2> QED BY <2>6, <2>7
  <1> QED BY <1>4, <1>5, <1>6 DEF IsStrictPrefix, q

\* A request with one segment more than a route goes to that route.
LEMMA ServedByOwner ==
  ASSUME RoutesOK(endpoints), NEW m, NEW p \in Seq(Segments), NEW to, NEW x \in Segments,
         Route(m, p, to) \in endpoints
  PROVE  ServedBy(m, Append(p, x)) = {to}
  <1> DEFINE q == Append(p, x)
             own == Route(m, p, to)
  <1>1. own.method = m /\ own.path = p /\ own.to = to
    BY DEF Route
  <1>2. \A e \in endpoints : e.path \in Seq(Segments)
    BY DEF RoutesOK
  <1>3. own \in Serving(m, q)
    BY <1>1, LongestPrefix DEF Serving
  <1>4. ASSUME NEW f \in Serving(m, q)
        PROVE  /\ f \in endpoints /\ f.method = m /\ Len(f.path) <= Len(p)
               /\ Len(f.path) = Len(p) => f.path = p
    BY <1>2, <1>4, LongestPrefix DEF Serving
  <1>5. ASSUME NEW f \in Serving(m, q), Len(p) <= Len(f.path)
        PROVE  f = own
    <2>1. Len(p) \in Nat /\ Len(f.path) \in Nat
      BY <1>2, <1>4, LenProperties
    <2>2. f.path = p
      BY <1>4, <1>5, <2>1
    <2> QED BY <1>1, <1>4, <2>2 DEF RoutesOK
  <1> HIDE DEF q, own
  <1>6. {f \in Serving(m, q) : \A g \in Serving(m, q) : Len(g.path) <= Len(f.path)} = {own}
    BY <1>1, <1>3, <1>4, <1>5
  <1>7. ServedBy(m, q) = {e.to : e \in {own}}
    BY <1>6 DEF ServedBy
  <1>8. {e.to : e \in {own}} = {to}
    BY <1>1
  <1> QED BY <1>7, <1>8 DEF q

\* What is known of a server that is up.
LEMMA UpFacts ==
  ASSUME BootInv, stage = "up", NEW c \in config
  PROVE  c \in Loaded /\ todo = <<>> /\ RouterInv(c) /\ RoutesOK(endpoints)
  BY DEF BootInv

\* The pages of the login are served by the auth handlers, which are mounted at
\* Services.Auth.Path (main.go:55), but for a GET that a static directory claims.
THEOREM LoginIsServedByAuth == PSpec => []LoginServedByAuth
<1>1. BootInv => LoginServedByAuth
  <2> SUFFICES ASSUME BootInv, stage = "up", NEW c \in config, NEW r \in AuthRoutes(c)
               PROVE  \/ ServedBy(r[1], Append(c.path.segs, r[2])) = {Auth}
                      \/ r[1] = "GET" /\ \E n \in DOMAIN c.statics : c.statics[n] = c.path
    BY DEF LoginServedByAuth
  <2>1. c \in Loaded /\ todo = <<>> /\ RouterInv(c) /\ RoutesOK(endpoints)
    BY UpFacts
  <2>2. r[1] \in {"GET", "POST"} /\ r[2] \in Segments
    BY DEF AuthRoutes, Segments
  <2>3. c.path \in PathSet /\ c.path.segs \in Seq(Segments)
    BY <2>1, LoadedFacts DEF PathSet
  <2>4. /\ Route("POST", c.path.segs, Auth) \in endpoints
        /\ Unclaimed(c, Applied(c), c.path.segs) => Route("GET", c.path.segs, Auth) \in endpoints
    BY <2>1, AllApplied DEF AuthThere
  <2>5. CASE Route(r[1], c.path.segs, Auth) \in endpoints
    BY <2>1, <2>2, <2>3, <2>5, ServedByOwner
  <2>6. CASE r[1] = "GET" /\ ~Unclaimed(c, Applied(c), c.path.segs)
    <3>1. PICK n \in DOMAIN c.statics : c.statics[n].segs = c.path.segs
      BY <2>6 DEF Unclaimed
    <3>2. c.statics[n] \in PathSet
      BY <2>1, LoadedFacts
    <3>3. c.statics[n].form = "rooted" /\ c.path.form = "rooted"
      BY <2>1, AllApplied
    <3>4. c.statics[n] = c.path
      BY <2>3, <3>1, <3>2, <3>3, PathEquality
    <3> QED BY <2>6, <3>4
  <2> QED BY <2>2, <2>4, <2>5, <2>6
<1> QED BY <1>1, BootInvariantHolds, PTL

\* The files of a static directory are served (main.go:56-58), and of several at
\* one endpoint, those of the last.
THEOREM StaticsAreServed == PSpec => []StaticsServed
<1>1. BootInv => StaticsServed
  <2> SUFFICES ASSUME BootInv, stage = "up", NEW c \in config, NEW n \in DOMAIN c.statics
               PROVE  LET same == {k \in DOMAIN c.statics : c.statics[k] = c.statics[n]} IN
                      ServedBy("GET", Append(c.statics[n].segs, "file"))
                        = {[app |-> "static", nr |-> Max(same)]}
    BY DEF StaticsServed
  <2>1. c \in Loaded /\ todo = <<>> /\ RouterInv(c) /\ RoutesOK(endpoints)
    BY UpFacts
  <2>2. \A k \in DOMAIN c.statics :
          /\ k \in Nat /\ c.statics[k] \in PathSet /\ c.statics[k].form = "rooted"
          /\ Added(c, Applied(c), k)
    <3>1. \A k \in DOMAIN c.statics : Added(c, Applied(c), k) /\ c.statics[k].form = "rooted"
      BY <2>1, AllApplied
    <3>2. \A k \in DOMAIN c.statics : k \in Nat
      BY <2>1, OptionsShape
    <3>3. \A k \in DOMAIN c.statics : c.statics[k] \in PathSet
      BY <2>1, LoadedFacts
    <3> QED BY <3>1, <3>2, <3>3
  <2>3. PICK k \in DOMAIN c.statics :
          /\ AddedLast(c, Applied(c), k) /\ c.statics[k].segs = c.statics[n].segs
          /\ Route("GET", c.statics[n].segs, StaticApp(k)) \in endpoints
    <3>1. StaticsThere(c, Applied(c), endpoints)
      BY <2>1, AllApplied
    <3> QED BY <2>2, <3>1 DEF StaticsThere
  <2> DEFINE same == {j \in DOMAIN c.statics : c.statics[j] = c.statics[n]}
  <2>4. k \in same
    BY <2>2, <2>3, PathEquality
  <2>5. \A j \in same : j \in Nat /\ j <= k
    BY <2>2, <2>3 DEF AddedLast
  <2> HIDE DEF same
  <2>6. Max(same) = k
    <3>1. k \in same /\ \A j \in same : k >= j
      BY <2>4, <2>5
    <3>2. Max(same) \in same /\ \A j \in same : Max(same) >= j
      BY <3>1 DEF Max
    <3> QED BY <2>4, <2>5, <3>2
  <2>7. c.statics[n].segs \in Seq(Segments) /\ "file" \in Segments
    BY <2>2 DEF PathSet, Segments
  <2>8. ServedBy("GET", Append(c.statics[n].segs, "file")) = {StaticApp(k)}
    BY <2>1, <2>3, <2>7, ServedByOwner
  <2> QED BY <2>6, <2>8 DEF StaticApp, same
<1> QED BY <1>1, BootInvariantHolds, PTL
=============================================================================
