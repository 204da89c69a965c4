--------------------------- MODULE OrderLifecycle ---------------------------
(***************************************************************************)
(* The life of ACME orders and their authorizations as the Storage        *)
(* Authority (sa/model.go) stores them and the Registration Authority     *)
(* drives them: NewOrder, PerformValidation, DeactivateAuthorization,     *)
(* FinalizeOrder, the clock and the purge of expired authorizations.      *)
(*                                                                         *)
(* The order's status is never stored: it is computed by statusForOrder   *)
(* (sa/model.go) from the order row and the authz2 rows it references.    *)
(* RA request handlers run concurrently (Workers); each SA call is one    *)
(* atomic transaction, and an RA request is split into steps exactly at  *)
(* its calls to the SA and the CA, so the steps of concurrent requests    *)
(* interleave.  Identifiers, serials and tokens are model values; times   *)
(* are small integers.                                                    *)
(***************************************************************************)
EXTENDS Integers, FiniteSetsExt, Functions

CONSTANTS
  Idents,               \* identifier values an order may name
  ReplaceableSerials,   \* serials of earlier certificates an order may replace
  Workers,              \* concurrent RA request handlers
  MaxOrders,            \* bound: orders ever created
  MaxAuthzs,            \* bound: authorizations ever created
  MaxTime,              \* bound: last value of the clock
  PendingAuthzLifetime, \* validationProfiles[p].pendingAuthzLifetime
  ValidAuthzLifetime,   \* validationProfiles[p].validAuthzLifetime
  OrderLifetime,        \* validationProfiles[p].orderLifetime
  NoPendingAuthzReuse,  \* feature flag NoPendingAuthzReuse
  RACrashes,            \* whether an RA handler may die mid-request
  None                  \* an absent row

ASSUME /\ MaxOrders \in Nat \ {0} /\ MaxAuthzs \in Nat \ {0}
       /\ {MaxTime, PendingAuthzLifetime, ValidAuthzLifetime, OrderLifetime} \subseteq Nat
       /\ NoPendingAuthzReuse \in BOOLEAN /\ RACrashes \in BOOLEAN

VARIABLES
  now,                \* the clock
  authzs,             \* authz2 table: id -> row (purged ids leave the domain)
  authzCount,         \* authz2 auto-increment
  orders,             \* orders + orderToAuthz2 tables: id -> row or None
  orderFqdnSets,      \* orderFqdnSets table: the orderIDs that have a row
  replacementOrders,  \* replacementOrders table: serial -> row or None
  precertificates,    \* precertificates issued by the CA for each order
  worker,             \* the RA request each handler is in the middle of
  abandoned           \* history: orders whose finalization a crash cut off

vars == <<now, authzs, authzCount, orders, orderFqdnSets, replacementOrders,
          precertificates, worker, abandoned>>

OrderIds == 1..MaxOrders
AuthzIds == 1..MaxAuthzs
AuthzStatuses == {"pending", "valid", "invalid", "deactivated", "revoked"}
Time == 0..(MaxTime + ValidAuthzLifetime + PendingAuthzLifetime + OrderLifetime)

AuthzRow == [ident : Idents, status : AuthzStatuses, expires : Time]
OrderRow == [idents : SUBSET Idents, authzs : SUBSET AuthzIds, expires : Time,
             error : BOOLEAN, beganProcessing : BOOLEAN,
             certificateSerial : {0} \cup OrderIds,
             replaces : {""} \cup ReplaceableSerials]
ReplacementRow == [orderID : OrderIds, orderExpires : Time, replaced : BOOLEAN]
WorkerState == [pc : {"idle", "newOrder", "finalize", "processing", "issued"},
                order : {0} \cup OrderIds, idents : SUBSET Idents,
                replaces : {""} \cup ReplaceableSerials]

Idle == [pc |-> "idle", order |-> 0, idents |-> {}, replaces |-> ""]

Existing == {o \in OrderIds : orders[o] # None}

\* Mutant: the processing branch is missing; a begun order reads as ready.
statusForOrderNoProcessing(o) ==
  LET ord == orders[o]
      present == ord.authzs \cap DOMAIN authzs
      with(S) == {a \in present : authzs[a].status \in S}
      expiredAuthzs == {a \in present : authzs[a].expires < now}
  IN IF ord.error THEN "invalid"
     ELSE IF ord.expires < now THEN "invalid"
     ELSE IF Cardinality(present) # Cardinality(ord.authzs) THEN "error"
     ELSE IF with({"invalid", "deactivated", "revoked"}) \cup expiredAuthzs # {}
          THEN "invalid"
     ELSE IF with({"pending"}) # {} THEN "pending"
     ELSE IF Cardinality(ord.idents) # Cardinality(with({"valid"})) THEN "error"
     ELSE IF ord.certificateSerial # 0 THEN "valid"
     ELSE "ready"

\* Mutant: an order that began processing is reported as processing before
\* its expiry and its authorizations are looked at.
statusForOrderProcessingFirst(o) ==
  LET ord == orders[o]
      present == ord.authzs \cap DOMAIN authzs
      with(S) == {a \in present : authzs[a].status \in S}
      expiredAuthzs == {a \in present : authzs[a].expires < now}
  IN IF ord.error THEN "invalid"
     ELSE IF ord.beganProcessing /\ ord.certificateSerial = 0 THEN "processing"
     ELSE IF ord.expires < now THEN "invalid"
     ELSE IF Cardinality(present) # Cardinality(ord.authzs) THEN "error"
     ELSE IF with({"invalid", "deactivated", "revoked"}) \cup expiredAuthzs # {}
          THEN "invalid"
     ELSE IF with({"pending"}) # {} THEN "pending"
     ELSE IF Cardinality(ord.idents) # Cardinality(with({"valid"})) THEN "error"
     ELSE IF ord.certificateSerial # 0 THEN "valid"
     ELSE "ready"

\* Mutant: the authorization count is compared before the order's expiry.
statusForOrderCountFirst(o) ==
  LET ord == orders[o]
      present == ord.authzs \cap DOMAIN authzs
      with(S) == {a \in present : authzs[a].status \in S}
      expiredAuthzs == {a \in present : authzs[a].expires < now}
  IN IF ord.error THEN "invalid"
     ELSE IF Cardinality(present) # Cardinality(ord.authzs) THEN "error"
     ELSE IF ord.expires < now THEN "invalid"
     ELSE IF with({"invalid", "deactivated", "revoked"}) \cup expiredAuthzs # {}
          THEN "invalid"
     ELSE IF with({"pending"}) # {} THEN "pending"
     ELSE IF Cardinality(ord.idents) # Cardinality(with({"valid"})) THEN "error"
     ELSE IF ord.certificateSerial # 0 THEN "valid"
     ELSE IF ord.beganProcessing THEN "processing"
     ELSE "ready"

(***************************************************************************)
(* statusForOrder (sa/model.go): the order's status, computed from the     *)
(* order row, the authz2 rows still present for its authorization IDs and *)
(* the clock, with the code's early returns in the code's order.  "error" *)
(* stands for each InternalServerError the function can return.            *)
(***************************************************************************)
statusForOrder(o) ==
  LET ord == orders[o]
      present == ord.authzs \cap DOMAIN authzs
      with(S) == {a \in present : authzs[a].status \in S}
      expiredAuthzs == {a \in present : authzs[a].expires < now}
  IN IF ord.error THEN "invalid"
     ELSE IF ord.expires < now THEN "invalid"
     ELSE IF Cardinality(present) # Cardinality(ord.authzs) THEN "error"
     ELSE IF with({"invalid", "deactivated", "revoked"}) \cup expiredAuthzs # {}
          THEN "invalid"
     ELSE IF with({"pending"}) # {} THEN "pending"
     ELSE IF Cardinality(ord.idents) # Cardinality(with({"valid"})) THEN "error"
     ELSE IF ord.certificateSerial # 0 THEN "valid"
     ELSE IF ord.beganProcessing THEN "processing"
     ELSE "ready"

(***************************************************************************)
(* The replacementOrders row of a serial blocks a new replacement once it  *)
(* is replaced, or while the order recorded in it has not expired         *)
(* (replacementOrderModel's field comments).                              *)
(***************************************************************************)
ReplacementOrderExists(s) ==
  /\ replacementOrders[s] # None
  /\ replacementOrders[s].replaced \/ replacementOrders[s].orderExpires >= now

\* addReplacementOrder: update the serial's row in place, or insert one.
\* An update rewrites orderID and orderExpires and leaves replaced alone.
addReplacementOrder(ro, s, o, exp) ==
  IF ro[s] # None
  THEN [ro EXCEPT ![s].orderID = o, ![s].orderExpires = exp]
  ELSE [ro EXCEPT ![s] = [orderID |-> o, orderExpires |-> exp, replaced |-> FALSE]]

\* Mutant: the UPDATE has lost its WHERE orderID = ? clause.
setReplacementOrderFinalizedAnyRow(ro, o) ==
  LET rows == {s \in DOMAIN ro : ro[s] # None}
  IN IF rows = {} THEN ro
     ELSE [ro EXCEPT ![CHOOSE s \in rows : TRUE].replaced = TRUE]

\* setReplacementOrderFinalized: UPDATE ... SET replaced = true WHERE
\* orderID = ? LIMIT 1.  No matching row is not an error.
setReplacementOrderFinalized(ro, o) ==
  LET rows == {s \in DOMAIN ro : ro[s] # None /\ ro[s].orderID = o}
  IN IF rows = {} THEN ro
     ELSE [ro EXCEPT ![CHOOSE s \in rows : TRUE].replaced = TRUE]

\* Authorizations the RA may attach to a new order instead of creating one.
ReusableStatuses == IF NoPendingAuthzReuse THEN {"valid"} ELSE {"valid", "pending"}
Reusable(i) ==
  {a \in DOMAIN authzs : /\ authzs[a].ident = i
                         /\ authzs[a].status \in ReusableStatuses
                         /\ authzs[a].expires > now}

(***************************************************************************)
(* NewOrder, first step: the RA's checks before it writes.  With a        *)
(* "replaces" serial it asks the SA whether a replacement already exists   *)
(* and refuses (AlreadyReplaced) if so; the answer is used in a later     *)
(* transaction.  Identifier policy and rate limits are other modules.     *)
(***************************************************************************)
NewOrderCheck(w) ==
  /\ worker[w].pc = "idle"
  /\ \E idents \in SUBSET Idents \ {{}}, replaces \in {""} \cup ReplaceableSerials :
       /\ replaces # "" => ~ReplacementOrderExists(replaces)
       /\ worker' = [worker EXCEPT ![w] = [pc |-> "newOrder", order |-> 0,
                                           idents |-> idents, replaces |-> replaces]]
  /\ UNCHANGED <<abandoned, now, authzs, authzCount, orders, orderFqdnSets,
                 replacementOrders, precertificates>>

\* The new order's expiry: the earliest of its authorizations' expiries and
\* now + orderLifetime.
orderExpiry(reusedExpiries, fresh) ==
  Min(reusedExpiries \cup {now + PendingAuthzLifetime : i \in fresh}
                     \cup {now + OrderLifetime})

(***************************************************************************)
(* NewOrder, second step: one SA transaction (NewOrderAndAuthzs).  Each   *)
(* identifier reuses a live authorization of the account or gets a new    *)
(* pending one; the order expires at the earliest of its authorizations'  *)
(* expiries and now + orderLifetime; the orderFqdnSets row is added       *)
(* (addOrderFQDNSet) and, for a replacement, addReplacementOrder runs in  *)
(* the same transaction.                                                  *)
(***************************************************************************)
NewOrderCommit(w) ==
  LET req == worker[w]
      o == Cardinality(Existing) + 1
  IN
  /\ req.pc = "newOrder"
  /\ o \in OrderIds
  /\ \E reuse \in SUBSET req.idents :
     \E pick \in [reuse -> DOMAIN authzs] :
       LET fresh == req.idents \ reuse
           newIds == (authzCount + 1)..(authzCount + Cardinality(fresh))
       IN
       /\ \A i \in reuse : pick[i] \in Reusable(i)
       /\ \A i \in fresh : Reusable(i) = {}
       /\ newIds \subseteq AuthzIds
       /\ \E assign \in [fresh -> newIds] :
            /\ IsInjective(assign)
            /\ authzs' = [a \in DOMAIN authzs \cup newIds |->
                            IF a \in newIds
                            THEN [ident |-> CHOOSE i \in fresh : assign[i] = a,
                                  status |-> "pending",
                                  expires |-> now + PendingAuthzLifetime]
                            ELSE authzs[a]]
            /\ LET exp == orderExpiry({authzs[pick[i]].expires : i \in reuse}, fresh)
               IN
               /\ orders' = [orders EXCEPT ![o] =
                               [idents |-> req.idents,
                                authzs |-> Range(pick) \cup newIds,
                                expires |-> exp, error |-> FALSE,
                                beganProcessing |-> FALSE, certificateSerial |-> 0,
                                replaces |-> req.replaces]]
               /\ replacementOrders' =
                    IF req.replaces = "" THEN replacementOrders
                    ELSE addReplacementOrder(replacementOrders, req.replaces, o, exp)
       /\ authzCount' = authzCount + Cardinality(fresh)
  /\ orderFqdnSets' = orderFqdnSets \cup {o}
  /\ worker' = [worker EXCEPT ![w] = Idle]
  /\ UNCHANGED <<abandoned, now, precertificates>>

\* Mutant: the orderFqdnSets row outlives the rolled-back order insert.
NewOrderFailKeepsFqdnRow(w) ==
  /\ worker[w].pc = "newOrder"
  /\ worker' = [worker EXCEPT ![w] = Idle]
  /\ orderFqdnSets' = orderFqdnSets \cup {Cardinality(Existing) + 1}
  /\ UNCHANGED <<abandoned, now, authzs, authzCount, orders, replacementOrders,
                 precertificates>>

\* NewOrder, second step failing: the transaction rolls back, nothing is
\* written (also the only way out when a model bound is reached).
NewOrderFail(w) ==
  /\ worker[w].pc = "newOrder"
  /\ worker' = [worker EXCEPT ![w] = Idle]
  /\ UNCHANGED <<abandoned, now, authzs, authzCount, orders, orderFqdnSets,
                 replacementOrders, precertificates>>
(***************************************************************************)
(* PerformValidation: the VA's verdict on one challenge of a pending,     *)
(* unexpired authorization is stored in one SA transaction: valid, with   *)
(* expiry moved to now + validAuthzLifetime, or invalid.  (Which          *)
(* challenge was attempted is the business of AuthzModel.)               *)
(***************************************************************************)
PerformValidation(a) ==
  /\ a \in DOMAIN authzs
  /\ authzs[a].status = "pending"
  /\ authzs[a].expires >= now
  /\ \E ok \in BOOLEAN :
       authzs' = [authzs EXCEPT ![a] = [@ EXCEPT
                    !.status = IF ok THEN "valid" ELSE "invalid",
                    !.expires = IF ok THEN now + ValidAuthzLifetime ELSE @]]
  /\ UNCHANGED <<abandoned, now, authzCount, orders, orderFqdnSets, replacementOrders,
                 precertificates, worker>>

\* DeactivateAuthorization: the account gives up a pending or valid
\* authorization (a valid one may be deactivated after issuance, as the
\* comment of SelectAuthzsMatchingIssuance says).
DeactivateAuthorization(a) ==
  /\ a \in DOMAIN authzs
  /\ authzs[a].status \in {"pending", "valid"}
  /\ authzs' = [authzs EXCEPT ![a].status = "deactivated"]
  /\ UNCHANGED <<abandoned, now, authzCount, orders, orderFqdnSets, replacementOrders,
                 precertificates, worker>>

\* An administrative revocation that carries a valid authorization with it.
RevokeAuthorization(a) ==
  /\ a \in DOMAIN authzs
  /\ authzs[a].status = "valid"
  /\ authzs' = [authzs EXCEPT ![a].status = "revoked"]
  /\ UNCHANGED <<abandoned, now, authzCount, orders, orderFqdnSets, replacementOrders,
                 precertificates, worker>>

Tick ==
  /\ now < MaxTime
  /\ now' = now + 1
  /\ UNCHANGED <<abandoned, authzs, authzCount, orders, orderFqdnSets, replacementOrders,
                 precertificates, worker>>

\* Expired authorizations may be purged from the database (the comment at
\* the expiry check of statusForOrder).
PurgeAuthorization(a) ==
  /\ a \in DOMAIN authzs
  /\ authzs[a].expires < now
  /\ authzs' = [b \in DOMAIN authzs \ {a} |-> authzs[b]]
  /\ UNCHANGED <<abandoned, now, authzCount, orders, orderFqdnSets, replacementOrders,
                 precertificates, worker>>

(***************************************************************************)
(* FinalizeOrder, first step: the RA reads the order and goes on only if  *)
(* its computed status is ready (otherwise OrderNotReady, no change).     *)
(* The CSR is taken to name exactly the order's identifiers.              *)
(***************************************************************************)
FinalizeCheck(w) ==
  /\ worker[w].pc = "idle"
  /\ \E o \in Existing :
       /\ statusForOrder(o) = "ready"
       /\ worker' = [worker EXCEPT ![w] = [Idle EXCEPT !.pc = "finalize", !.order = o]]
  /\ UNCHANGED <<abandoned, now, authzs, authzCount, orders, orderFqdnSets,
                 replacementOrders, precertificates>>

\* Mutant: SetOrderProcessing writes beganProcessing without its condition.
SetOrderProcessingUnconditional(w) ==
  LET o == worker[w].order IN
  /\ worker[w].pc = "finalize"
  /\ orders' = [orders EXCEPT ![o].beganProcessing = TRUE]
  /\ worker' = [worker EXCEPT ![w].pc = "processing"]
  /\ UNCHANGED <<abandoned, now, authzs, authzCount, orderFqdnSets, replacementOrders,
                 precertificates>>

(***************************************************************************)
(* SetOrderProcessing: UPDATE orders SET beganProcessing = true WHERE     *)
(* id = ? AND beganProcessing = false.  The finalizer that changes no row *)
(* gets OrderNotReady; this is the only guard against two finalizations.  *)
(***************************************************************************)
SetOrderProcessing(w) ==
  LET o == worker[w].order IN
  /\ worker[w].pc = "finalize"
  /\ IF ~orders[o].beganProcessing
     THEN /\ orders' = [orders EXCEPT ![o].beganProcessing = TRUE]
          /\ worker' = [worker EXCEPT ![w].pc = "processing"]
     ELSE /\ worker' = [worker EXCEPT ![w] = Idle]
          /\ UNCHANGED orders
  /\ UNCHANGED <<abandoned, now, authzs, authzCount, orderFqdnSets, replacementOrders,
                 precertificates>>

\* Mutant: after the precertificate the handler returns without finalizing.
IssuePrecertificateThenStop(w) ==
  LET o == worker[w].order IN
  /\ worker[w].pc = "processing"
  /\ \/ /\ precertificates' = [precertificates EXCEPT ![o] = @ + 1]
        /\ worker' = [worker EXCEPT ![w] = Idle]
        /\ UNCHANGED orders
     \/ /\ orders' = [orders EXCEPT ![o].error = TRUE]
        /\ worker' = [worker EXCEPT ![w] = Idle]
        /\ UNCHANGED precertificates
  /\ UNCHANGED <<abandoned, now, authzs, authzCount, orderFqdnSets, replacementOrders>>

(***************************************************************************)
(* The CA signs a precertificate for the order, or fails; on failure the  *)
(* RA stores an error on the order (SetOrderError), which makes it        *)
(* invalid.  CT submission is folded into this step.                      *)
(***************************************************************************)
IssuePrecertificate(w) ==
  LET o == worker[w].order IN
  /\ worker[w].pc = "processing"
  /\ \/ /\ precertificates' = [precertificates EXCEPT ![o] = @ + 1]
        /\ worker' = [worker EXCEPT ![w].pc = "issued"]
        /\ UNCHANGED orders
     \/ /\ orders' = [orders EXCEPT ![o].error = TRUE]
        /\ worker' = [worker EXCEPT ![w] = Idle]
        /\ UNCHANGED precertificates
  /\ UNCHANGED <<abandoned, now, authzs, authzCount, orderFqdnSets, replacementOrders>>

(***************************************************************************)
(* FinalizeOrder in the SA, one transaction: set the certificate serial,  *)
(* deleteOrderFQDNSet (an InternalServerError, and a rollback, if no row  *)
(* is deleted) and setReplacementOrderFinalized.                          *)
(***************************************************************************)
FinalizeOrderSA(w) ==
  LET o == worker[w].order IN
  /\ worker[w].pc = "issued"
  /\ \/ /\ o \in orderFqdnSets
        /\ orders' = [orders EXCEPT ![o].certificateSerial = o]
        /\ orderFqdnSets' = orderFqdnSets \ {o}
        /\ replacementOrders' = setReplacementOrderFinalized(replacementOrders, o)
     \/ /\ o \notin orderFqdnSets
        /\ UNCHANGED <<orders, orderFqdnSets, replacementOrders>>
  /\ worker' = [worker EXCEPT ![w] = Idle]
  /\ UNCHANGED <<abandoned, now, authzs, authzCount, precertificates>>

(***************************************************************************)
(* The RA process dies in the middle of a request: its handler's state is *)
(* lost, the rows it already wrote stay.  Nothing in the RA or the SA     *)
(* resumes a request, and no code path clears beganProcessing.            *)
(***************************************************************************)
RACrash(w) ==
  /\ RACrashes
  /\ worker[w].pc # "idle"
  /\ worker' = [worker EXCEPT ![w] = Idle]
  /\ abandoned' = IF worker[w].pc \in {"processing", "issued"}
                  THEN abandoned \cup {worker[w].order} ELSE abandoned
  /\ UNCHANGED <<now, authzs, authzCount, orders, orderFqdnSets,
                 replacementOrders, precertificates>>

Init ==
  /\ now = 0
  /\ authzs = [a \in {} |-> None]
  /\ authzCount = 0
  /\ orders = [o \in OrderIds |-> None]
  /\ orderFqdnSets = {}
  /\ replacementOrders = [s \in ReplaceableSerials |-> None]
  /\ precertificates = [o \in OrderIds |-> 0]
  /\ worker = [w \in Workers |-> Idle]
  /\ abandoned = {}

Next ==
  \/ Tick
  \/ \E w \in Workers :
       \/ NewOrderCheck(w) \/ NewOrderCommit(w) \/ NewOrderFail(w)
       \/ FinalizeCheck(w) \/ SetOrderProcessing(w)
       \/ IssuePrecertificate(w) \/ FinalizeOrderSA(w) \/ RACrash(w)
  \/ \E a \in AuthzIds :
       \/ PerformValidation(a) \/ DeactivateAuthorization(a)
       \/ RevokeAuthorization(a) \/ PurgeAuthorization(a)

\* A handler that has begun a finalization runs it to its end: every call
\* it makes to the SA and the CA returns, at the latest at its deadline.
Fairness ==
  \A w \in Workers : /\ WF_vars(SetOrderProcessing(w))
                     /\ WF_vars(IssuePrecertificate(w))
                     /\ WF_vars(FinalizeOrderSA(w))

Spec == Init /\ [][Next]_vars /\ Fairness

\* The clock does not stop: time passes whatever the handlers do.
ClockSpec == Spec /\ WF_vars(Tick)

-----------------------------------------------------------------------------
TypeOK ==
  /\ now \in 0..MaxTime
  /\ DOMAIN authzs \subseteq AuthzIds /\ \A a \in DOMAIN authzs : authzs[a] \in AuthzRow
  /\ authzCount \in 0..MaxAuthzs
  /\ orders \in [OrderIds -> OrderRow \cup {None}]
  /\ orderFqdnSets \subseteq Existing
  /\ replacementOrders \in [ReplaceableSerials -> ReplacementRow \cup {None}]
  /\ precertificates \in [OrderIds -> Nat]
  /\ worker \in [Workers -> WorkerState]
  /\ abandoned \subseteq Existing

\* Two finalizations of one order, racing through FinalizeCheck and
\* SetOrderProcessing, never make the CA sign two precertificates for it.
AtMostOnePrecertificatePerOrder ==
  \A o \in OrderIds : precertificates[o] <= 1

\* statusForOrder never fails with an internal error on a reachable state:
\* purging expired authorizations never leaves a live order with fewer
\* authz2 rows than IDs, and a live order never lacks a valid authorization
\* without having a pending or failed one.
StatusNeverInternalError ==
  \A o \in Existing : statusForOrder(o) # "error"

\* The replaced flag of a replacementOrders row is set only once an order
\* that replaces that serial has its certificate.
ReplacedOnlyWhenIssued ==
  \A s \in ReplaceableSerials :
    replacementOrders[s] # None /\ replacementOrders[s].replaced =>
      \E o \in Existing : orders[o].replaces = s /\ orders[o].certificateSerial # 0

\* A serial is replaced by at most one issued order (the "accepted only once
\* per source serial" rule of the replacement check in NewOrder).
ReplacementAcceptedOnce ==
  \A s \in ReplaceableSerials :
    Cardinality({o \in Existing : orders[o].replaces = s
                                  /\ orders[o].certificateSerial # 0}) <= 1

\* The status a client sees moves only as the abstract OrderStatus allows.
ClientStatus ==
  [o \in OrderIds |-> IF orders[o] = None THEN "none" ELSE statusForOrder(o)]
AbstractOrders == INSTANCE OrderStatus WITH status <- ClientStatus
OrderStatusRefinement == AbstractOrders!Spec

\* A finalization that set beganProcessing is never abandoned by a handler
\* that keeps running: the order eventually gets its certificate serial or
\* its error, unless the process running the handler died.
FinalizationCompletes ==
  \A o \in OrderIds :
    (orders[o] # None /\ orders[o].beganProcessing)
      ~> (orders[o] # None /\ (orders[o].certificateSerial # 0 \/ orders[o].error
                                \/ o \in abandoned))

\* A finalization abandoned by an RA crash after SetOrderProcessing, or
\* after the precertificate, does not leave the order processing for
\* ever: once the order's expiry passes, statusForOrder reads it invalid
\* (its expiry check comes before the processing branch).
AbandonedFinalizationResolves ==
  \A o \in OrderIds :
    (orders[o] # None /\ orders[o].beganProcessing /\ orders[o].expires < MaxTime)
      ~> ClientStatus[o] \in {"valid", "invalid"}

=============================================================================
