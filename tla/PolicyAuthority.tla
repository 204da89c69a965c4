--------------------------- MODULE PolicyAuthority ---------------------------
(***************************************************************************)
(* The Policy Authority's blocklists and the calls that read them while   *)
(* a policy file is being (re)loaded (src/policy/pa.go).                  *)
(*                                                                         *)
(* The four tables domainBlocklist, fqdnBlocklist, wildcardFqdnBlocklist  *)
(* and ipPrefixBlocklist sit behind blocklistMu.  LoadIdentPolicyFile     *)
(* swaps all four under the write lock.  WillingToIssue takes the read    *)
(* lock once per helper: IdentifierTypeEnabled, then for a wildcard name  *)
(* checkWildcardBlocklist, then checkBlocklists, so a load can land       *)
(* between two helpers of the same identifier.  Each RLock-ed helper is   *)
(* one atomic step of a reader; the syntax checks of                      *)
(* WellFormedIdentifiers take no lock and form one step.                  *)
(*                                                                         *)
(* The history variables inForce (the policy whose tables are installed)  *)
(* and each reader's seen (every policy in force at some instant of its   *)
(* call) exist only to state the properties; no action reads them.        *)
(***************************************************************************)
EXTENDS DomainSyntax, FiniteSets

CONSTANTS
  Readers,          \* concurrent callers of WillingToIssue
  Requests,         \* identifier lists they may pass
  Policies,         \* policy files LoadIdentPolicyFile may read
  EnabledTypes,     \* enabledIdentifiers
  CanonicalIPs,     \* IP strings netip.ParseAddr accepts and prints back unchanged
  ReservedIPs,      \* those iana.IsReservedAddr rejects
  MaxLoads,         \* bound on calls of LoadIdentPolicyFile
  Unloaded          \* the nil tables before the first successful load

VARIABLES
  domainBlocklist, fqdnBlocklist, wildcardFqdnBlocklist, ipPrefixBlocklist,
  loads, reader, inForce

tables == <<domainBlocklist, fqdnBlocklist, wildcardFqdnBlocklist, ipPrefixBlocklist>>
vars == <<tables, loads, reader, inForce>>

Pcs == {"idle", "type", "wildcard", "blocklists", "done"}

----------------------------------------------------------------------------
(* ValidIP: the parse/round-trip test and iana.IsReservedAddr.            *)
ValidIP(ip) ==
  IF ip \notin CanonicalIPs THEN "errIPInvalid"
  ELSE IF ip \in ReservedIPs THEN "errReservedIP"
  ELSE "ok"

\* WellFormedIdentifiers: nil iff every identifier passes its syntax check.
WellFormedIdentifiers(idents) ==
  \A k \in DOMAIN idents :
    CASE idents[k].type = "dns" -> ValidDomain(idents[k].value) = "ok"
      [] idents[k].type = "ip"  -> ValidIP(idents[k].value) = "ok"
      [] OTHER                  -> FALSE

IsWildcard(ident) == ident.type = "dns" /\ Count(ident.value, "*") > 0

\* Mutant: the wildcard table keeps the whole exact entry, as if the
\* SplitN result's first part were used.
TablesOfWholeEntry(p) ==
  << p.highRisk \cup p.admin, p.exact, p.exact,
     {pre.contains : pre \in p.prefixes} >>

\* processIdentPolicy's tables for a policy; the wildcard table holds each
\* exact entry minus its first label (strings.SplitN(v, ".", 2)[1]).
TablesOf(p) ==
  << p.highRisk \cup p.admin,
     p.exact,
     {Join(Tail(Split(v))) : v \in p.exact},
     {pre.contains : pre \in p.prefixes} >>

\* LoadIdentPolicyFile's and processIdentPolicy's validation, in order.
LoadError(p) ==
  IF p.highRisk = {} THEN "no entries in HighRiskBlockedNames"
  ELSE IF p.exact = {} THEN "no entries in ExactBlockedNames"
  ELSE IF \E v \in p.exact : Len(Split(v)) < 2 THEN "malformed ExactBlockedNames entry"
  ELSE IF \E pre \in p.prefixes : ~pre.parses THEN "malformed AdminBlockedPrefixes entry"
  ELSE "ok"

\* checkWildcardBlocklist on a snapshot of wildcardFqdnBlocklist.
checkWildcardBlocklist(wildcard, domain) ==
  IF wildcard = Unloaded THEN "identifier policy not yet loaded"
  ELSE IF domain \in wildcard THEN "errPolicyForbidden"
  ELSE "ok"

\* checkBlocklists on a snapshot of the tables: every label-aligned suffix
\* of a DNS name against domainBlocklist, then the name against
\* fqdnBlocklist; an IP against every prefix.
checkBlocklists(t, ident) ==
  IF t[1] = Unloaded THEN "identifier policy not yet loaded"
  ELSE CASE ident.type = "dns" ->
              LET labels == Split(ident.value) IN
              IF \E i \in DOMAIN labels :
                   Join(SubSeq(labels, i, Len(labels))) \in t[1]
              THEN "errPolicyForbidden"
              ELSE IF ident.value \in t[2] THEN "errPolicyForbidden"
              ELSE "ok"
         [] ident.type = "ip" ->
              IF ident.value \notin CanonicalIPs THEN "errIPInvalid"
              ELSE IF \E pre \in t[4] : ident.value \in pre THEN "errPolicyForbidden"
              ELSE "ok"
         [] OTHER -> "errUnsupportedIdent"

----------------------------------------------------------------------------
TypeOK ==
  /\ loads \in 0..MaxLoads
  /\ inForce \in Policies \cup {Unloaded}
  /\ \A r \in Readers :
       /\ reader[r].pc \in Pcs
       /\ reader[r].idents \in Requests
       /\ reader[r].i \in 1..(Len(reader[r].idents) + 1)
       /\ reader[r].pc \in {"type", "wildcard", "blocklists"} =>
            reader[r].i \in DOMAIN reader[r].idents
       /\ reader[r].subErrors \subseteq DOMAIN reader[r].idents
       /\ reader[r].verdict \in {"none", "ok", "rejected"}
       /\ reader[r].seen \subseteq Policies \cup {Unloaded}

Init ==
  /\ domainBlocklist = Unloaded
  /\ fqdnBlocklist = Unloaded
  /\ wildcardFqdnBlocklist = Unloaded
  /\ ipPrefixBlocklist = Unloaded
  /\ loads = 0
  /\ inForce = Unloaded
  /\ \E req \in Requests :
       reader = [r \in Readers |->
                  [pc |-> "idle", idents |-> req, i |-> 1, subErrors |-> {},
                   verdict |-> "none", seen |-> {}]]

\* LoadIdentPolicyFile(f): on success every table is replaced under the
\* write lock; on error nothing changes.
LoadIdentPolicyFile(p) ==
  /\ loads < MaxLoads
  /\ loads' = loads + 1
  /\ IF LoadError(p) = "ok"
       THEN /\ domainBlocklist' = TablesOf(p)[1]
            /\ fqdnBlocklist' = TablesOf(p)[2]
            /\ wildcardFqdnBlocklist' = TablesOf(p)[3]
            /\ ipPrefixBlocklist' = TablesOf(p)[4]
            /\ inForce' = p
            /\ reader' = [r \in Readers |->
                           IF reader[r].pc \in {"idle", "done"} THEN reader[r]
                           ELSE [reader[r] EXCEPT !.seen = @ \cup {p}]]
       ELSE UNCHANGED <<tables, inForce, reader>>

\* WillingToIssue begins: WellFormedIdentifiers takes no lock; an error
\* returns at once.
Start(r, idents) ==
  /\ reader[r].pc \in {"idle", "done"}
  /\ reader' = [reader EXCEPT ![r] =
                 [pc |-> IF WellFormedIdentifiers(idents) THEN "type" ELSE "done",
                  idents |-> idents, i |-> 1, subErrors |-> {},
                  verdict |-> IF WellFormedIdentifiers(idents) THEN "none" ELSE "rejected",
                  seen |-> {inForce}]]
  /\ UNCHANGED <<tables, loads, inForce>>

\* Mutant: the loop's end test is off by one.
AdvanceLastOffByOne(rd, rejected) ==
  LET errs == IF rejected THEN rd.subErrors \cup {rd.i} ELSE rd.subErrors
      last == rd.i > Len(rd.idents)
  IN  [rd EXCEPT !.i = @ + 1, !.subErrors = errs,
                 !.pc = IF last THEN "done" ELSE "type",
                 !.verdict = IF ~last THEN "none"
                             ELSE IF errs = {} THEN "ok" ELSE "rejected"]

\* Leave identifier i, rejected or not, for the next one or the verdict of
\* combineSubErrors.
Advance(rd, rejected) ==
  LET errs == IF rejected THEN rd.subErrors \cup {rd.i} ELSE rd.subErrors
      last == rd.i = Len(rd.idents)
  IN  [rd EXCEPT !.i = @ + 1, !.subErrors = errs,
                 !.pc = IF last THEN "done" ELSE "type",
                 !.verdict = IF ~last THEN "none"
                             ELSE IF errs = {} THEN "ok" ELSE "rejected"]

Current(r) == reader[r].idents[reader[r].i]

\* pa.IdentifierTypeEnabled under its own RLock.
TypeCheck(r) ==
  /\ reader[r].pc = "type"
  /\ reader' = [reader EXCEPT ![r] =
                 IF Current(r).type \notin EnabledTypes THEN Advance(@, TRUE)
                 ELSE [@ EXCEPT !.pc = IF IsWildcard(Current(r)) THEN "wildcard"
                                       ELSE "blocklists"]]
  /\ UNCHANGED <<tables, loads, inForce>>

\* pa.checkWildcardBlocklist(baseDomain) under its own RLock.
CheckWildcard(r) ==
  /\ reader[r].pc = "wildcard"
  /\ LET err == checkWildcardBlocklist(wildcardFqdnBlocklist,
                                       BaseDomain(Current(r).value))
     IN reader' = [reader EXCEPT ![r] =
                    IF err # "ok" THEN Advance(@, TRUE)
                    ELSE [@ EXCEPT !.pc = "blocklists"]]
  /\ UNCHANGED <<tables, loads, inForce>>

\* pa.checkBlocklists(ident) under its own RLock.
CheckBlocklists(r) ==
  /\ reader[r].pc = "blocklists"
  /\ reader' = [reader EXCEPT ![r] =
                 Advance(@, checkBlocklists(tables, Current(r)) # "ok")]
  /\ UNCHANGED <<tables, loads, inForce>>

Next ==
  \/ \E p \in Policies : LoadIdentPolicyFile(p)
  \/ \E r \in Readers :
       \/ \E idents \in Requests : Start(r, idents)
       \/ TypeCheck(r)
       \/ CheckWildcard(r)
       \/ CheckBlocklists(r)

Spec == Init /\ [][Next]_vars

----------------------------------------------------------------------------
(***************************************************************************)
(* The specification's blocklist semantics (section 4.2 and laws 3 and 4), *)
(* written without the code's tables: a DNS name is refused when it is an  *)
(* exact entry; when it is a wildcard "*.base" and some exact entry is one *)
(* label followed by base; or when a high-risk or admin entry equals it    *)
(* or is a label-aligned suffix of it.  An IP is refused when a prefix     *)
(* contains it.  Nothing is permitted before a policy is loaded.           *)
(***************************************************************************)
Forbidden(p, ident) ==
  \/ p = Unloaded
  \/ ident.type \notin EnabledTypes
  \/ /\ ident.type = "dns"
     /\ LET x == ident.value IN
        \/ x \in p.exact
        \/ /\ Count(x, "*") > 0
           /\ \E e \in p.exact :
                /\ IsSuffix(<<".">> \o BaseDomain(x), e)
                /\ Count(e, ".") = Count(BaseDomain(x), ".") + 1
        \/ \E h \in p.highRisk \cup p.admin : x = h \/ IsSuffix(<<".">> \o h, x)
  \/ /\ ident.type = "ip"
     /\ \E pre \in p.prefixes : ident.value \in pre.contains

(* WillingToIssue returns nil for an identifier only if some one policy,  *)
(* in force at some instant of the call, permits it.  The code reads the  *)
(* tables under a fresh RLock in checkWildcardBlocklist and again in      *)
(* checkBlocklists, and the specification promises that a load is atomic  *)
(* for readers.                                                           *)
VerdictFromOnePolicy ==
  \A r \in Readers :
    reader[r].verdict = "ok" =>
      \A k \in DOMAIN reader[r].idents :
        \E p \in reader[r].seen : ~Forbidden(p, reader[r].idents[k])
=============================================================================
