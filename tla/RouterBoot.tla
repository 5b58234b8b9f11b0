------------------------------ MODULE RouterBoot ------------------------------
(***************************************************************************)
(* How the application goroutine boots (cmd/main.go:37-61): it loads the   *)
(* configuration, puts together the options of the router, applies them to *)
(* a chi router one by one, and makes the server.                          *)
(*                                                                         *)
(* chi is a library, modelled from how it is used.  It panics when         *)
(* middleware is added after a route, when a pattern does not start with a *)
(* slash, and when something is mounted where there is a route already;    *)
(* Get replaces a route in silence.  Every pattern of the root router ends *)
(* with a wildcard: it is named by the segments before that, and serves    *)
(* what has more.  The longest pattern with the method of the request      *)
(* serves it.                                                              *)
(***************************************************************************)
EXTENDS Integers, Sequences, SequencesExt, FiniteSetsExt

CONSTANTS
  AuthPaths,     \* values of Services.Auth.Path
  Endpoints,     \* values of the Endpoint of a static directory
  MaxStatics     \* bound: static directories of a configuration

\* A path that starts with a slash is "rooted"; one may have URL "params".
Paths == [form : {"rooted", "relative", "params"}, segs : Seq(STRING)]

ASSUME RouterAssumption ==
  /\ AuthPaths \subseteq Paths /\ \A p \in AuthPaths : p.form # "params"
  /\ Endpoints \subseteq Paths
  /\ MaxStatics \in Nat

Methods == {"GET", "POST"}

(***************************************************************************)
(* What a configuration is to the router.  templates: Auth.Templates names *)
(* a directory with .html files.  tls: there is no key pair, or only half  *)
(* of one, or it can be loaded, or it cannot.                              *)
(***************************************************************************)
Configs ==
  [cors : BOOLEAN, profiler : BOOLEAN, templates : BOOLEAN, path : AuthPaths,
   qr : BOOLEAN, statics : BoundedSeq(Endpoints, MaxStatics),
   tls : {"none", "good", "bad"}]

\* Without a file: DefaultConfig().  The auth path is empty, and so are the
\* templates.
DefaultConfig ==
  [cors |-> TRUE, profiler |-> FALSE, templates |-> FALSE,
   path |-> [form |-> "relative", segs |-> <<>>],
   qr |-> FALSE, statics |-> <<>>, tls |-> "none"]

\* What loadConfig can return: the file is decoded over the defaults.
Loaded == Configs \cup {DefaultConfig}

VARIABLES
  stage,        \* "load", "options", "routes", then "up", "fatal" or "panic"
  config,       \* at most one: what loadConfig returned
  todo,         \* options still to be applied
  middleware,   \* the root router's middleware
  endpoints     \* the root router's routes

rvars == <<stage, config, todo, middleware, endpoints>>

RInit ==
  /\ stage = "load"
  /\ config = {}
  /\ todo = <<>> /\ middleware = <<>>
  /\ endpoints = {}

-----------------------------------------------------------------------------
(* The options, in the order of main *)

Layers == {"logging", "recovery", "noiframe", "nocache", "cors", "services"}

Use(name)     == [kind |-> "use", name |-> name]
Mount(p, to)  == [kind |-> "mount", path |-> p, to |-> to]
Static(p, nr) == [kind |-> "get", path |-> p, to |-> [app |-> "static", nr |-> nr]]

Profiler == [app |-> "profiler", nr |-> 0]
Auth     == [app |-> "auth", nr |-> 0]
DebugPath == [form |-> "rooted", segs |-> <<"debug">>]

SelectMiddleware(c) ==
  <<Use("logging"), Use("recovery"), Use("noiframe"), Use("nocache")>>
    \o IF c.cors THEN <<Use("cors")>> ELSE <<>>

WithProfiler(c) == IF c.profiler THEN <<Mount(DebugPath, Profiler)>> ELSE <<>>

GetRoutes(c) == <<Mount(c.path, Auth)>>

\* Mutated: in the opposite order.
StaticRoutesReversed(c) == Reverse([n \in DOMAIN c.statics |-> Static(c.statics[n], n)])

StaticRoutes(c) == [n \in DOMAIN c.statics |-> Static(c.statics[n], n)]

\* Mutated: the profiler is mounted before the services are injected.
OptionsProfilerFirst(c) ==
  SelectMiddleware(c) \o WithProfiler(c) \o <<Use("services")>>
    \o GetRoutes(c) \o StaticRoutes(c)

Options(c) ==
  SelectMiddleware(c) \o <<Use("services")>> \o WithProfiler(c)
    \o GetRoutes(c) \o StaticRoutes(c)

\* Mutated: what is there stays.
RegisteredTwice(ms, p, to) ==
  endpoints \cup {[method |-> m, path |-> p, to |-> to] : m \in ms}

\* The routes with pattern p under the methods ms served by an app.
Registered(ms, p, to) ==
  {e \in endpoints : e.path # p \/ e.method \notin ms}
    \cup {[method |-> m, path |-> p, to |-> to] : m \in ms}

-----------------------------------------------------------------------------
(* The steps *)

\* loadConfig: the file cannot be read or parsed, or is of an unknown format;
\* or there is none.
Load ==
  /\ stage = "load"
  /\ \/ stage' \in {"fatal", "panic"} /\ UNCHANGED config
     \/ \E c \in Loaded :
          stage' = "options" /\ config' = {c}
  /\ UNCHANGED <<todo, middleware, endpoints>>

\* The options are made: WithOAuth2 parses the templates, WithStaticFiles looks
\* for URL parameters.
Assemble ==
  /\ stage = "options"
  /\ \E c \in config :
       IF c.templates /\ \A n \in DOMAIN c.statics : c.statics[n].form # "params"
       THEN stage' = "routes" /\ todo' = Options(c)
       ELSE stage' = "panic" /\ UNCHANGED todo
  /\ UNCHANGED <<config, middleware, endpoints>>

Panic == stage' = "panic" /\ UNCHANGED <<todo, middleware, endpoints>>

\* r.Use
ApplyUse(o) ==
  /\ o.kind = "use"
  /\ IF endpoints = {}
     THEN /\ middleware' = Append(middleware, o.name)
          /\ todo' = Tail(todo)
          /\ UNCHANGED <<stage, endpoints>>
     ELSE Panic

\* r.Mount
ApplyMount(o) ==
  /\ o.kind = "mount"
  /\ IF o.path.form = "rooted" /\ \A e \in endpoints : e.path # o.path.segs
     THEN /\ endpoints' = Registered(Methods, o.path.segs, o.to)
          /\ todo' = Tail(todo)
          /\ UNCHANGED <<stage, middleware>>
     ELSE Panic

\* Mutated: static files are served for every method.
ApplyGetAll(o) ==
  /\ o.kind = "get"
  /\ IF o.path.form = "rooted"
     THEN /\ endpoints' = Registered(Methods, o.path.segs, o.to)
          /\ todo' = Tail(todo)
          /\ UNCHANGED <<stage, middleware>>
     ELSE Panic

\* Mutated: the option stays first in the list.
ApplyGetForever(o) ==
  /\ o.kind = "get"
  /\ IF o.path.form = "rooted"
     THEN /\ endpoints' = Registered({"GET"}, o.path.segs, o.to)
          /\ UNCHANGED <<todo, stage, middleware>>
     ELSE Panic

\* r.With(NoDirectoryListing).Get
ApplyGet(o) ==
  /\ o.kind = "get"
  /\ IF o.path.form = "rooted"
     THEN /\ endpoints' = Registered({"GET"}, o.path.segs, o.to)
          /\ todo' = Tail(todo)
          /\ UNCHANGED <<stage, middleware>>
     ELSE Panic

\* NewRouter applies the next option.
Apply ==
  /\ stage = "routes" /\ todo # <<>>
  /\ LET o == Head(todo) IN ApplyUse(o) \/ ApplyMount(o) \/ ApplyGet(o)
  /\ UNCHANGED config

\* services.Start and StartWithOptions, up to startCore.
Start ==
  /\ stage = "routes" /\ todo = <<>>
  /\ \E c \in config : stage' = IF c.tls = "bad" THEN "fatal" ELSE "up"
  /\ UNCHANGED <<config, todo, middleware, endpoints>>

RNext == Load \/ Assemble \/ Apply \/ Start

-----------------------------------------------------------------------------
(* What the router does with a request for the segments q *)

\* WithOAuth2
AuthRoutes(c) ==
  {<<"GET", "authorize">>, <<"GET", "login">>, <<"POST", "login">>, <<"POST", "token">>}
    \cup IF c.qr THEN {<<"GET", "qrcode">>} ELSE {}

Serving(m, q) ==
  {e \in endpoints : e.method = m /\ IsStrictPrefix(e.path, q)}

\* The apps that serve it: one at most.
ServedBy(m, q) ==
  {e.to : e \in {f \in Serving(m, q) : \A g \in Serving(m, q) : Len(g.path) <= Len(f.path)}}

-----------------------------------------------------------------------------
(* Properties *)

RTypeOK ==
  /\ stage \in {"load", "options", "routes", "up", "fatal", "panic"}
  /\ config \subseteq Loaded /\ Cardinality(config) <= 1
  /\ \A n \in DOMAIN todo : todo[n].kind \in {"use", "mount", "get"}
  /\ middleware \in Seq(Layers)
  /\ \A e, f \in endpoints : e.method = f.method /\ e.path = f.path => e = f

WellFormed(c) ==
  /\ c.templates
  /\ c.path.form = "rooted"
  /\ c.profiler => c.path # DebugPath
  /\ \A n \in DOMAIN c.statics : c.statics[n].form = "rooted"
  /\ c.tls # "bad"

\* "This needs to be the last thing added (as middleware) before we start
\* adding other handlers" (main.go:47): whichever options a configuration asks
\* for, their order never makes chi panic.  What keeps the server from coming
\* up is in the configuration.
FailsOnlyForItsConfig ==
  \A c \in config :
    /\ stage = "up" => WellFormed(c)
    /\ stage \in {"fatal", "panic"} => ~WellFormed(c)

\* ServicesFromContext panics in a handler that is not wrapped by
\* WithServices: no route is added before it.
RoutesSeeServices == endpoints # {} => Contains(middleware, "services")

\* The pages of the login are served by the auth handlers, except those of a
\* GET at a path that a static directory claims too.
LoginServedByAuth ==
  stage = "up" =>
    \A c \in config : \A r \in AuthRoutes(c) :
      \/ ServedBy(r[1], Append(c.path.segs, r[2])) = {Auth}
      \/ r[1] = "GET" /\ \E n \in DOMAIN c.statics : c.statics[n] = c.path

\* The files of every static directory are served, whatever else is mounted;
\* of several at one endpoint, those of the last.
StaticsServed ==
  stage = "up" =>
    \A c \in config : \A n \in DOMAIN c.statics :
      LET same == {k \in DOMAIN c.statics : c.statics[k] = c.statics[n]} IN
      ServedBy("GET", Append(c.statics[n].segs, "file"))
        = {[app |-> "static", nr |-> Max(same)]}

\* The form of the login page is posted to "/auth/login" (login.html:18),
\* which is to be the auth handlers' Login.
LoginFormIsServed ==
  stage = "up" =>
    \A c \in config :
      /\ ServedBy("POST", <<"auth", "login">>) = {Auth}
      /\ c.path.segs = <<"auth">>
=============================================================================
