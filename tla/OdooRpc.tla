------------------------------- MODULE OdooRpc -------------------------------
(***************************************************************************)
(* OdooClient._execute and the transports under it: the backoff loop for   *)
(* read-only methods, the redirect loop of RedirectTransport, the standard *)
(* library's xmlrpc Transport.request, which sends a request once more     *)
(* when the connection is dropped, and its urlopen, which follows a        *)
(* redirected JSON-2 request with GETs.  The network loses requests and    *)
(* answers, and Odoo may process a request after the client gave up on it. *)
(***************************************************************************)
EXTENDS Naturals

CONSTANTS
  Calls,          \* calls of execute_method
  ExtraAttempts,  \* ODOO_MCP_RETRY_ATTEMPTS
  MaxRedirects,   \* max_redirects of RedirectTransport
  MaxLocations,   \* HTTPRedirectHandler.max_redirections, 10
  MaxRepeats      \* HTTPRedirectHandler.max_repeats, 4

Transports == {"xmlrpc", "json2"}

ASSUME RpcAssumption ==
  /\ ExtraAttempts \in Nat
  /\ {MaxRedirects, MaxLocations, MaxRepeats} \subseteq Nat \ {0}

VARIABLES
  transport,  \* the transport of the client each call is made with
  kind,       \* "read" if the method is in READ_ONLY_METHODS, else "mutate"
  pc,         \* where each call is
  attempt,    \* backoff retries so far
  redirects,  \* redirects followed in this attempt
  locations,  \* JSON-2: to how many different locations, len(visited)
  resent,     \* the standard library already sent this request once more
  current,    \* what Odoo did with the request the call waits for
  late,       \* requests given up on that Odoo may still process
  posts,      \* history: requests put on the wire
  applied     \* history: requests Odoo processed

vars == <<transport, kind, pc, attempt, redirects, locations, resent, current,
          late, posts, applied>>

\* A location is left for another one as long as there is room for it, and all
\* but the last may be visited MaxRepeats times.
MaxGets == MaxRepeats * (MaxLocations - 1) + 1

TypeOK ==
  /\ transport \in [Calls -> Transports \union {"none"}]
  /\ kind \in [Calls -> {"none", "read", "mutate"}]
  /\ pc \in [Calls -> {"idle", "sending", "waiting", "answered", "raised"}]
  /\ attempt \in [Calls -> 0..ExtraAttempts]
  /\ redirects \in [Calls -> Nat] /\ locations \in [Calls -> 0..MaxLocations]
  /\ resent \in [Calls -> BOOLEAN]
  /\ current \in [Calls -> {"none", "sent", "applied"}]
  /\ late \in [Calls -> Nat] /\ posts \in [Calls -> Nat]
  /\ applied \in [Calls -> Nat]

Init ==
  /\ transport = [c \in Calls |-> "none"]
  /\ kind = [c \in Calls |-> "none"] /\ pc = [c \in Calls |-> "idle"]
  /\ attempt = [c \in Calls |-> 0]
  /\ redirects = [c \in Calls |-> 0] /\ locations = [c \in Calls |-> 0]
  /\ resent = [c \in Calls |-> FALSE]
  /\ current = [c \in Calls |-> "none"]
  /\ late = [c \in Calls |-> 0]
  /\ posts = [c \in Calls |-> 0] /\ applied = [c \in Calls |-> 0]

Start(c, k, t) ==
  /\ pc[c] = "idle"
  /\ transport' = [transport EXCEPT ![c] = t]
  /\ kind' = [kind EXCEPT ![c] = k]
  /\ pc' = [pc EXCEPT ![c] = "sending"]
  /\ UNCHANGED <<attempt, redirects, locations, resent, current, late, posts,
                 applied>>

\* A redirected JSON-2 request is a GET without a body: it asks for a page.
AsksForAPage(c) == transport[c] = "json2" /\ redirects[c] > 0

\* The request is written to a new connection; it may be lost on the way.
Post(c) ==
  /\ pc[c] = "sending"
  /\ posts' = [posts EXCEPT ![c] = @ + 1]
  /\ \E fate \in IF AsksForAPage(c) THEN {"none"} ELSE {"none", "sent"} :
       current' = [current EXCEPT ![c] = fate]
  /\ pc' = [pc EXCEPT ![c] = "waiting"]
  /\ UNCHANGED <<transport, kind, attempt, redirects, locations, resent, late,
                 applied>>

-----------------------------------------------------------------------------
(* How the wait for an answer ends.                                        *)

\* The client stops waiting for the request, which may be on its way still.
GiveUp(c) ==
  /\ pc[c] = "waiting"
  /\ late' = [late EXCEPT ![c] = IF current[c] = "sent" THEN @ + 1 ELSE @]
  /\ current' = [current EXCEPT ![c] = "none"]

Raise(c) ==
  /\ pc' = [pc EXCEPT ![c] = "raised"]
  /\ UNCHANGED <<attempt, redirects, locations, resent>>

\* Mutant: mutating methods are retried like the others.
AttemptFails_Always(c) ==
  IF attempt[c] < ExtraAttempts
  THEN /\ attempt' = [attempt EXCEPT ![c] = @ + 1]
       /\ redirects' = [redirects EXCEPT ![c] = 0]
       /\ locations' = [locations EXCEPT ![c] = 0]
       /\ resent' = [resent EXCEPT ![c] = FALSE]
       /\ pc' = [pc EXCEPT ![c] = "sending"]
  ELSE Raise(c)

\* Mutant: one attempt too many.
AttemptFails_OffByOne(c) ==
  IF kind[c] = "read" /\ attempt[c] <= ExtraAttempts
  THEN /\ attempt' = [attempt EXCEPT ![c] = @ + 1]
       /\ redirects' = [redirects EXCEPT ![c] = 0]
       /\ locations' = [locations EXCEPT ![c] = 0]
       /\ resent' = [resent EXCEPT ![c] = FALSE]
       /\ pc' = [pc EXCEPT ![c] = "sending"]
  ELSE Raise(c)

\* _execute_once raised a connection-level error: only a read-only method goes
\* into another attempt.
AttemptFails(c) ==
  IF kind[c] = "read" /\ attempt[c] < ExtraAttempts
  THEN /\ attempt' = [attempt EXCEPT ![c] = @ + 1]
       /\ redirects' = [redirects EXCEPT ![c] = 0]
       /\ locations' = [locations EXCEPT ![c] = 0]
       /\ resent' = [resent EXCEPT ![c] = FALSE]
       /\ pc' = [pc EXCEPT ![c] = "sending"]
  ELSE Raise(c)

\* Odoo's answer; or a page that reads as one, being JSON or empty.
Answer(c) ==
  /\ pc[c] = "waiting" /\ (current[c] = "applied" \/ AsksForAPage(c))
  /\ pc' = [pc EXCEPT ![c] = "answered"]
  /\ UNCHANGED <<transport, kind, attempt, redirects, locations, resent, current,
                 late, posts, applied>>

\* Odoo refuses the request; the error is passed on at once.
Refuse(c) ==
  /\ pc[c] = "waiting" /\ current[c] = "sent"
  /\ current' = [current EXCEPT ![c] = "none"]
  /\ Raise(c)
  /\ UNCHANGED <<transport, kind, late, posts, applied>>

TimeOut(c) ==
  /\ GiveUp(c) /\ AttemptFails(c)
  /\ UNCHANGED <<transport, kind, posts, applied>>

\* An answer that cannot be read (cut short, not the protocol's encoding): the
\* error is none of those _execute retries on.
Garbled(c) ==
  /\ GiveUp(c) /\ Raise(c)
  /\ UNCHANGED <<transport, kind, posts, applied>>

\* A 502 and its kind: a connection-level error under XML-RPC
\* (ProtocolError), a structured error under JSON-2.
BadGateway(c) ==
  /\ GiveUp(c)
  /\ IF transport[c] = "xmlrpc" THEN AttemptFails(c) ELSE Raise(c)
  /\ UNCHANGED <<transport, kind, posts, applied>>

\* The connection is reset or closed without an answer: Transport.request
\* sends once more whatever the method is, and an error only ends the second
\* try.
Drop(c) ==
  /\ GiveUp(c)
  /\ IF transport[c] = "xmlrpc" /\ ~resent[c]
     THEN /\ resent' = [resent EXCEPT ![c] = TRUE]
          /\ pc' = [pc EXCEPT ![c] = "sending"]
          /\ UNCHANGED <<attempt, redirects, locations>>
     ELSE AttemptFails(c)
  /\ UNCHANGED <<transport, kind, posts, applied>>

\* A 30x with a location, from a proxy that kept the request: RedirectTransport
\* posts again, up to MaxRedirects times; one more is a ProtocolError.
Redirect(c) ==
  /\ transport[c] = "xmlrpc" /\ pc[c] = "waiting" /\ current[c] = "none"
  /\ IF redirects[c] + 1 < MaxRedirects
     THEN /\ redirects' = [redirects EXCEPT ![c] = @ + 1]
          /\ resent' = [resent EXCEPT ![c] = FALSE]
          /\ pc' = [pc EXCEPT ![c] = "sending"]
          /\ UNCHANGED <<attempt, locations>>
     ELSE AttemptFails(c)
  /\ UNCHANGED <<transport, kind, current, late, posts, applied>>

\* Mutant: only the visits of one location are limited.
RedirectToPage_AnyPlace(c) ==
  /\ transport[c] = "json2" /\ pc[c] = "waiting" /\ current[c] = "none"
  /\ redirects' = [redirects EXCEPT ![c] = @ + 1]
  /\ pc' = [pc EXCEPT ![c] = "sending"]
  /\ UNCHANGED <<transport, kind, attempt, locations, resent, current, late,
                 posts, applied>>

\* Under JSON-2, urlopen follows a 301, 302 or 303 to a new location or to one
\* it has visited less than MaxRepeats times, with a GET; when it has been to
\* MaxLocations, or once too often to this one, the HTTPError is passed on.
RedirectToPage(c) ==
  /\ transport[c] = "json2" /\ pc[c] = "waiting" /\ current[c] = "none"
  /\ \/ \E new \in {0, 1} :
          /\ locations[c] < MaxLocations
          /\ new = 0 => redirects[c] < MaxRepeats * locations[c]
          /\ redirects' = [redirects EXCEPT ![c] = @ + 1]
          /\ locations' = [locations EXCEPT ![c] = @ + new]
          /\ pc' = [pc EXCEPT ![c] = "sending"]
          /\ UNCHANGED <<attempt, resent>>
     \/ /\ \/ locations[c] = MaxLocations
           \/ redirects[c] > 0 /\ redirects[c] >= MaxRepeats + locations[c] - 1
        /\ Raise(c)
  /\ UNCHANGED <<transport, kind, current, late, posts, applied>>

-----------------------------------------------------------------------------
(* Odoo.                                                                   *)

OdooApplies(c) ==
  /\ current[c] = "sent"
  /\ current' = [current EXCEPT ![c] = "applied"]
  /\ applied' = [applied EXCEPT ![c] = @ + 1]
  /\ UNCHANGED <<transport, kind, pc, attempt, redirects, locations, resent, late,
                 posts>>

ApplyLate(c) ==
  /\ late[c] > 0
  /\ late' = [late EXCEPT ![c] = @ - 1]
  /\ applied' = [applied EXCEPT ![c] = @ + 1]
  /\ UNCHANGED <<transport, kind, pc, attempt, redirects, locations, resent,
                 current, posts>>

-----------------------------------------------------------------------------
Client(c) ==
  \/ Post(c)
  \/ Answer(c) \/ Refuse(c)
  \/ TimeOut(c) \/ Garbled(c) \/ BadGateway(c) \/ Drop(c)
  \/ Redirect(c) \/ RedirectToPage(c)

Next ==
  \E c \in Calls :
    \/ \E k \in {"read", "mutate"}, t \in Transports : Start(c, k, t)
    \/ Client(c)
    \/ OdooApplies(c) \/ ApplyLate(c)

Spec == Init /\ [][Next]_vars

-----------------------------------------------------------------------------
(* Properties.                                                             *)

\* Under JSON-2 nothing below _execute sends the method again, whatever is
\* redirected, so a mutating call is carried out at most once.
Json2MutatesOnce ==
  \A c \in Calls :
    (kind[c] = "mutate" /\ transport[c] = "json2") => applied[c] <= 1

\* "Anything that may mutate data is never retried" (_execute): violated under
\* XML-RPC, where the standard library sends a dropped request once more.
MutatesOnce == \A c \in Calls : kind[c] = "mutate" => applied[c] <= 1

\* The requests one attempt has room for: under XML-RPC it goes through the
\* redirect loop at most MaxRedirects times, and every turn may send twice;
\* under JSON-2 one POST is followed by at most MaxGets GETs.
PerAttempt(t) == IF t = "json2" THEN 1 + MaxGets ELSE 2 * MaxRedirects

\* The requests of one call are bounded, whatever mix of drops, redirects and
\* timeouts it meets.
PostsBounded ==
  \A c \in Calls :
    posts[c] <= PerAttempt(transport[c]) *
                  (IF kind[c] = "read" THEN ExtraAttempts + 1 ELSE 1)

\* The requests this attempt has made, as its loops count them.
Turns(c) ==
  (IF transport[c] = "json2" THEN redirects[c]
   ELSE 2 * redirects[c] + (IF resent[c] THEN 1 ELSE 0))
  + (IF pc[c] \in {"idle", "sending"} THEN 0 ELSE 1)

\* The redirects an attempt may have followed.
RedirectsBounded(c) ==
  IF transport[c] = "json2"
  THEN /\ ~resent[c]
       /\ redirects[c] <= IF locations[c] < MaxLocations
                          THEN MaxRepeats * locations[c] ELSE MaxGets
  ELSE redirects[c] < MaxRedirects

\* What a JSON-2 call has on its way to Odoo or applied: one POST per attempt.
PostedOncePerAttempt(c) ==
  transport[c] = "json2" =>
    applied[c] + late[c] + (IF current[c] = "sent" THEN 1 ELSE 0)
      <= attempt[c] + (IF pc[c] = "sending" /\ redirects[c] = 0 THEN 0 ELSE 1)

\* What a call has on the wire, and the requests its loops have room for.
CallInv(c) ==
  /\ pc[c] = "sending" => current[c] = "none"
  /\ pc[c] = "idle" =>
       /\ kind[c] = "none" /\ current[c] = "none" /\ posts[c] = 0
       /\ attempt[c] = 0 /\ redirects[c] = 0 /\ locations[c] = 0 /\ ~resent[c]
       /\ applied[c] = 0 /\ late[c] = 0 /\ transport[c] = "none"
  /\ attempt[c] > 0 => kind[c] = "read"
  /\ posts[c] <= PerAttempt(transport[c]) * attempt[c] + Turns(c)
  /\ RedirectsBounded(c) /\ PostedOncePerAttempt(c)

PostInv == \A c \in Calls : CallInv(c)

\* The inductive invariant behind PostsBounded, and Json2MutatesOnce.
RpcInv == TypeOK /\ PostInv
=============================================================================
