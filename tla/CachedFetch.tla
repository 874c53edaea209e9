----------------------------- MODULE CachedFetch -----------------------------
(***************************************************************************)
(* A request through the HTTP cache (oxyos-net cache.rs, fetch_keyed): the *)
(* stored response is used while it is fresh, revalidated when it is not,  *)
(* and replaced by what the network answers, while other requests of the   *)
(* application do the same and the server's resource changes.              *)
(*                                                                         *)
(* The server has one resource per variant (what a response varies by).    *)
(* It, or a proxy with a copy some ticks old that says so (Age), answers   *)
(* a request with the representation or, when a validator sent with it is  *)
(* that representation's, with 304.  The store is a map; that it loses     *)
(* entries is Lose (HttpCache has its files).                              *)
(***************************************************************************)
EXTENDS Naturals, FiniteSets

CONSTANTS Callers,    \* the parts of the application that make requests at once
          Variants,   \* the values of the header the responses vary by
          Lifetimes,  \* max-age the server gives: 0 is one to be revalidated
          MaxAge,     \* bound: how old a proxy's copy may be
          MaxTime,    \* bound: ticks of the clock
          MaxAsks,    \* bound: requests
          MaxLosses,  \* bound: entries evicted
          None

FetchBounds == /\ Lifetimes \subseteq Nat
               /\ {MaxAge, MaxTime, MaxAsks, MaxLosses} \subseteq Nat

Policies == {"default", "reload", "force cache", "only if cached"}

VARIABLES offers,   \* the server's Cache-Control and whether it gives validators
          now,      \* the clock
          current,  \* when the representation the server now has was made
          history,  \* ghost: for each tick the representations current in it
          stored,   \* the cache's entry, or None
          request,  \* the request each caller is in the middle of
          last,     \* ghost: the last answer given to a caller, until the next request
          spent     \* requests and losses so far

vars == <<offers, now, current, history, stored, request, last, spent>>

Version == 0..MaxTime
Entry == [version : Version, variant : Variants, lifetime : Lifetimes, age : 0..MaxAge,
          validator : BOOLEAN, requested : Version, received : Version]

Init ==
  /\ offers \in [lifetime : Lifetimes, validator : BOOLEAN, storable : BOOLEAN]
  /\ now = 0 /\ current = 0 /\ history = [t \in Version |-> {0}]
  /\ stored = None /\ last = None
  /\ spent = [asks |-> 0, losses |-> 0]
  /\ request = [r \in Callers |-> [at |-> "none"]]

Tick == /\ now < MaxTime /\ now' = now + 1
        /\ history' = [history EXCEPT ![now + 1] = {current}]
        /\ UNCHANGED <<offers, current, stored, request, last, spent>>

(* The resource changes at the server. *)
Change == /\ now > current /\ current' = now
          /\ history' = [history EXCEPT ![now] = @ \cup {now}]
          /\ UNCHANGED <<offers, now, stored, request, last, spent>>

Spend(what, most) == /\ spent[what] < most
                     /\ spent' = [spent EXCEPT ![what] = @ + 1]

Lose == /\ stored # None /\ Spend("losses", MaxLosses)
        /\ stored' = None
        /\ UNCHANGED <<offers, now, current, history, request, last>>

-----------------------------------------------------------------------------
(* Entry::age (RFC 9111 4.2.3) and fresh. *)
(* A mistake: the time the response took to arrive is left out. *)
AgeHere(entry, time) == entry.age + (time - entry.received)

Age(entry, time) ==
  (entry.age + (entry.received - entry.requested)) + (time - entry.received)

Fresh(entry, time) == Age(entry, time) < entry.lifetime

Serves(entry, variant) == entry.variant = variant

(* refreshed: a 304's headers take the place of the stored ones, and its   *)
(* times are the entry's; a header it does not give stays.                 *)
Refreshed(entry, answer, requested, received) ==
  [entry EXCEPT !.lifetime = answer.lifetime,
                !.age = IF answer.age = 0 THEN @ ELSE answer.age,
                !.requested = requested, !.received = received]

Goes(r, next) == request' = [request EXCEPT ![r] = next]

(* The answer given to a request: what it was, and how old its server said *)
(* it could be.                                                            *)
Gives(r, asked, version, variant, source, span) ==
  /\ Goes(r, [at |-> "none"])
  /\ last' = [policy |-> asked.policy, again |-> asked.again, wanted |-> asked.variant,
              since |-> asked.since, version |-> version, variant |-> variant,
              source |-> source, span |-> span]

(* fetch_keyed: what the policy lets the cache answer at once, what fails, *)
(* and what asks the network, with the validators of a stale entry.        *)
Usable(found, policy, again) ==
  /\ found # None
  /\ \/ policy \in {"force cache", "only if cached"}
     \/ policy = "default" /\ ~again /\ Fresh(found, now)

Ask(r, policy, again, variant) ==
  /\ request[r].at = "none" /\ Spend("asks", MaxAsks)
  /\ LET held == policy # "reload" /\ stored # None
         found == IF held THEN IF Serves(stored, variant) THEN stored ELSE None ELSE None
         asked == [at |-> "sent", policy |-> policy, again |-> again, variant |-> variant,
                   since |-> now, with |-> found, answer |-> None]
     IN  IF Usable(found, policy, again)
         THEN Gives(r, asked, found.version, found.variant, "cache", found.lifetime)
         ELSE /\ last' = None
              /\ Goes(r, IF policy = "only if cached" THEN [at |-> "none"] ELSE asked)
  /\ UNCHANGED <<offers, now, current, history, stored>>

(* The server, or a copy of its answer made some ticks ago, answers. *)
ServerAnswers(r, age) ==
  /\ request[r].at = "sent" /\ age <= now
  /\ \E version \in history[now - age] :
       LET with == request[r].with
           known == IF with = None THEN FALSE ELSE with.validator /\ with.version = version
       IN  Goes(r, [request[r] EXCEPT !.at = "answered",
                      !.answer = [same |-> offers.validator /\ known, version |-> version,
                                  age |-> age, lifetime |-> offers.lifetime,
                                  validator |-> offers.validator]])
  /\ UNCHANGED <<offers, now, current, history, stored, last, spent>>

(* The answer arrives: a 304 refreshes the entry it was asked with and     *)
(* gives its body; another is stored, if it may be, and given.             *)
Answered(r) ==
  LET answer == request[r].answer
  IN  IF answer.same
      THEN Refreshed(request[r].with, answer, request[r].since, now)
      ELSE [version |-> answer.version, variant |-> request[r].variant,
            lifetime |-> answer.lifetime, age |-> answer.age,
            validator |-> answer.validator,
            requested |-> request[r].since, received |-> now]

Receive(r) ==
  /\ request[r].at = "answered"
  /\ LET answer == request[r].answer
         entry == Answered(r)
     IN  /\ stored' = IF answer.same \/ offers.storable THEN entry ELSE stored
         /\ Gives(r, request[r], entry.version, entry.variant, "network", answer.age)
  /\ UNCHANGED <<offers, now, current, history, spent>>

(* The connection is lost: nothing is stored. *)
Break(r) == /\ request[r].at \in {"sent", "answered"}
            /\ Goes(r, [at |-> "none"])
            /\ UNCHANGED <<offers, now, current, history, stored, last, spent>>

Next ==
  \/ Tick \/ Change \/ Lose
  \/ \E r \in Callers :
       \/ \E policy \in Policies, again \in BOOLEAN, variant \in Variants :
            Ask(r, policy, again, variant)
       \/ \E age \in 0..MaxAge : ServerAnswers(r, age)
       \/ Receive(r) \/ Break(r)

Spec == Init /\ [][Next]_vars
-----------------------------------------------------------------------------
TypeOK ==
  /\ now \in Version /\ current \in 0..now
  /\ stored \in Entry \cup {None}
  /\ stored # None => (stored.requested <= stored.received /\ stored.received <= now)
  /\ \A r \in Callers : request[r].at \in {"none", "sent", "answered", "done", "failed"}

(* What the cache answers without asking is what the server had within the *)
(* lifetime it gave, however long answers took, copies stood in proxies    *)
(* and revalidations came between.                                         *)
NotTooOld ==
  last # None => (last.policy = "default" /\ last.source = "cache" =>
    \E t \in Version : last.version \in history[t] /\ t + last.span > last.since)

(* What the network answers, a body or that it has not changed, is what    *)
(* the server had since the request, or as long before as the answer says; *)
(* and so is all that is given to a request that is to reach it.           *)
AsTheServer ==
  last # None =>
    (\/ last.source = "network" \/ last.policy = "reload"
     \/ last.policy = "default" /\ last.again
     => \E t \in Version :
          /\ last.version \in history[t]
          /\ t + (IF last.source = "network" THEN last.span ELSE 0) >= last.since)

(* A request is answered with what its own headers ask for, whatever       *)
(* requests with others stored between.                                    *)
OwnVariant == last # None => last.variant = last.wanted

=============================================================================
