----------------------------- MODULE Authorizer -----------------------------
(***************************************************************************)
(* The login and QR handlers (internal/services/auth) with the authorizer  *)
(* behind them (cmd/authorizer.go), over the KeyValueStore they share: the *)
(* in-memory store, of which MemStoreRefinement shows that it behaves as   *)
(* KeyValueStore does.                                                     *)
(*                                                                         *)
(* A client of the store is a handler goroutine, which serves one HTTP     *)
(* request after another.  Keys are the random codes and tokens.  Values   *)
(* are what is stored under them: a login's AuthCodeData, a QR secret.     *)
(***************************************************************************)
EXTENDS StoreCalls, FiniteSets

CONSTANTS
  CodeTTL, QRTTL,    \* config.CodeTTL and config.QRScan.TTL
  Retries            \* kAuthGenRetries

VARIABLES
  clock, kv, phase, req, since, touched, outcome, reply,   \* of the store
  stage,     \* of each handler: "idle", "generate" a code, "store" it
  flow,      \* what it serves: "Login" or "QR"
  data,      \* what it is to store
  tries,     \* the loop counter i
  code,      \* the code it drew
  asked,     \* when it drew it
  answer,    \* what the last step answered, if it did
  issued     \* history: the codes and tokens sent, while they are to be good

storeVars == <<clock, kv, phase, req, since, touched, outcome, reply>>
handlerVars == <<stage, flow, data, tries, code, asked>>
avars == <<storeVars, handlerVars, answer, issued>>

Store == INSTANCE KeyValueStore

Flows == {"Login", "QR"}

NamespaceOf(f) == IF f = "Login" THEN "auth_code" ELSE "qrc"
TTLOf(f)       == IF f = "Login" THEN CodeTTL ELSE QRTTL

ASSUME AuthorizerAssumption ==
  /\ Namespaces = {NamespaceOf(f) : f \in Flows}
  /\ TTLs = {TTLOf(f) : f \in Flows}
  /\ Retries \in Nat \ {0}

\* An error is a 400, a 500, or a redirect to the client with what went wrong;
\* success is a redirect to it, or an image, with a code; "other" has neither.
Answers ==
  [status : {"none", "error", "other"}, code : {None}]
    \cup [status : {"success"}, code : Keys \cup {None}]

Bare(status) == [status |-> status, code |-> None]

ATypeOK ==
  /\ clock \in Nat
  /\ kv \in [Namespaces \X Keys -> Items \cup {None}]
  /\ stage \in [Clients -> {"idle", "generate", "store"}]
  /\ flow \in [Clients -> Flows]
  /\ data \in [Clients -> Values \cup {None}]
  /\ tries \in [Clients -> 0 .. Retries]
  /\ code \in [Clients -> Keys \cup {None}]
  /\ asked \in [Clients -> Nat]
  /\ answer \in Answers
  /\ issued \subseteq [ns : Namespaces, code : Keys, value : Values, until : Nat]

AInit ==
  /\ Store!Init
  /\ stage = [c \in Clients |-> "idle"]
  /\ flow = [c \in Clients |-> "Login"]
  /\ data = [c \in Clients |-> None]
  /\ tries = [c \in Clients |-> 0]
  /\ code = [c \in Clients |-> None]
  /\ asked = [c \in Clients |-> 0]
  /\ answer = Bare("none")
  /\ issued = {}

-----------------------------------------------------------------------------
(* Helpers *)

\* The handler is done with its request.
Reply(c, a) ==
  /\ stage' = [stage EXCEPT ![c] = "idle"]
  /\ flow' = [flow EXCEPT ![c] = "Login"]
  /\ data' = [data EXCEPT ![c] = None]
  /\ tries' = [tries EXCEPT ![c] = 0]
  /\ code' = [code EXCEPT ![c] = None]
  /\ asked' = [asked EXCEPT ![c] = 0]
  /\ answer' = a

Fail(c) == Reply(c, Bare("error")) /\ UNCHANGED issued

\* The request has passed its checks; v is what to store for it.
Begin(c, f, v) ==
  /\ stage' = [stage EXCEPT ![c] = "generate"]
  /\ flow' = [flow EXCEPT ![c] = f]
  /\ data' = [data EXCEPT ![c] = v]
  /\ answer' = Bare("none")
  /\ UNCHANGED <<tries, code, asked, issued>>

Offer(c, o, k) ==
  Store!Call(c, [op |-> o, ns |-> NamespaceOf(flow[c]), key |-> k,
                 value |-> data[c], ttl |-> TTLOf(flow[c])])

-----------------------------------------------------------------------------
(* The handlers *)

\* Authorize: ValidateClient fails, or the response type is not "code", or the
\* template cannot be executed; or else it is the login page.
Authorize(c) ==
  /\ stage[c] = "idle"
  /\ Fail(c) \/ (Reply(c, Bare("other")) /\ UNCHANGED issued)
  /\ UNCHANGED storeVars

\* Token: a stub, which redirects to a search engine.
Token(c) ==
  /\ stage[c] = "idle"
  /\ Reply(c, Bare("other"))
  /\ UNCHANGED <<storeVars, issued>>

\* Login: ValidateClient or Authenticate fails, or the request passes both.
Login(c) ==
  /\ stage[c] = "idle"
  /\ Fail(c) \/ \E v \in Values : Begin(c, "Login", v)
  /\ UNCHANGED storeVars

\* QRGenerator: the secret of the token is drawn first.
QRGenerate(c) ==
  /\ stage[c] = "idle"
  /\ Fail(c) \/ \E v \in Values : Begin(c, "QR", v)
  /\ UNCHANGED storeVars

\* Mutated: one round too many.
DrawOnceMore(c) ==
  /\ stage[c] = "generate"
  /\ tries[c] <= Retries
  /\ \/ Fail(c) /\ UNCHANGED storeVars
     \/ \E k \in Keys :
          /\ Offer(c, "CheckAndSet", k) /\ Store!Touch
          /\ stage' = [stage EXCEPT ![c] = "store"]
          /\ code' = [code EXCEPT ![c] = k]
          /\ asked' = [asked EXCEPT ![c] = clock]
          /\ answer' = Bare("none")
          /\ UNCHANGED <<flow, data, tries, issued>>

\* Mutated: the code is stored whether or not it is taken.
DrawAndSet(c) ==
  /\ stage[c] = "generate"
  /\ tries[c] < Retries
  /\ \/ Fail(c) /\ UNCHANGED storeVars
     \/ \E k \in Keys :
          /\ Offer(c, "Set", k) /\ Store!Touch
          /\ stage' = [stage EXCEPT ![c] = "store"]
          /\ code' = [code EXCEPT ![c] = k]
          /\ asked' = [asked EXCEPT ![c] = clock]
          /\ answer' = Bare("none")
          /\ UNCHANGED <<flow, data, tries, issued>>

\* One round of the loop: draw a code, which may fail, and CheckAndSet it.
Draw(c) ==
  /\ stage[c] = "generate"
  /\ tries[c] < Retries
  /\ \/ Fail(c) /\ UNCHANGED storeVars
     \/ \E k \in Keys :
          /\ Offer(c, "CheckAndSet", k) /\ Store!Touch
          /\ stage' = [stage EXCEPT ![c] = "store"]
          /\ code' = [code EXCEPT ![c] = k]
          /\ asked' = [asked EXCEPT ![c] = clock]
          /\ answer' = Bare("none")
          /\ UNCHANGED <<flow, data, tries, issued>>

\* The store executes the call.
Execute(c) ==
  /\ Store!Store(c)
  /\ Store!Touch
  /\ answer' = Bare("none")
  /\ UNCHANGED <<handlerVars, issued>>

Returned(c, r) == stage[c] = "store" /\ phase[c] = "idle" /\ reply[c] = r

\* The code is taken: on to the next round.
Collide(c) ==
  /\ Returned(c, "ItemAlreadyExists")
  /\ stage' = [stage EXCEPT ![c] = "generate"]
  /\ tries' = [tries EXCEPT ![c] = @ + 1]
  /\ code' = [code EXCEPT ![c] = None]
  /\ asked' = [asked EXCEPT ![c] = 0]
  /\ answer' = Bare("none")
  /\ UNCHANGED <<storeVars, flow, data, issued>>

\* The code is stored, and sent; drawing the QR image may still fail.
Issue(c) ==
  LET i == [ns |-> NamespaceOf(flow[c]), code |-> code[c], value |-> data[c],
            until |-> asked[c] + TTLOf(flow[c])]
  IN
  /\ Returned(c, "ok")
  /\ \/ /\ Reply(c, [status |-> "success", code |-> code[c]])
        /\ issued' = IF clock <= i.until THEN issued \cup {i} ELSE issued
     \/ flow[c] = "QR" /\ Fail(c)
  /\ UNCHANGED storeVars

\* All rounds have collided.  GenerateQRRequest returns the last error.  In
\* GenerateAuthorizationRequest the loop assigns to an err of its own, and the
\* one returned is nil: Login redirects with success and an empty code.
GiveUp(c) ==
  /\ stage[c] = "generate"
  /\ tries[c] = Retries
  /\ \/ flow[c] = "QR" /\ Fail(c)
     \/ /\ flow[c] = "Login"
        /\ Reply(c, Bare("success"))
        /\ UNCHANGED issued
  /\ UNCHANGED storeVars

Serve(c) == Draw(c) \/ Execute(c) \/ Collide(c) \/ Issue(c) \/ GiveUp(c)

\* Meanwhile time passes, and the store drops what has expired.
Age ==
  /\ Store!Tick \/ \E s \in Namespaces \X Keys : Store!Forget(s)
  /\ Store!Touch
  /\ issued' = {i \in issued : clock' <= i.until}
  /\ answer' = Bare("none")
  /\ UNCHANGED handlerVars

ANext ==
  \/ \E c \in Clients :
       Authorize(c) \/ Token(c) \/ Login(c) \/ QRGenerate(c) \/ Serve(c)
  \/ Age

ASpec == AInit /\ [][ANext]_avars

-----------------------------------------------------------------------------
(* Properties *)

\* Whoever was sent a code or a token finds what was stored for it, and nobody
\* else's, until its lifetime is over.
IssuedCodeWorks ==
  \A i \in issued :
    LET it == kv[<<i.ns, i.code>>] IN
    it # None /\ it.value = i.value /\ ~Expired(it, clock)

\* A login redirected with success carries a code; without one, Login reports
\* "Failed to generate authorization code" (oauth2.go:149-152).
SuccessCarriesCode ==
  answer.status = "success" => answer.code # None
=============================================================================
