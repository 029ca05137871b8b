---------------------------- MODULE Authorization ----------------------------
(***************************************************************************)
(* Who may talk to a scroll: the tokens the daemon issues and checks       *)
(* (core/services/authorizer_service.go), the public routes' check of the  *)
(* owner (adapters/http/handlers/auth.go), the development server's        *)
(* (druid-dev/adapters/cli/root.go), and the identity of a worker's pod    *)
(* (kubernetes/workload_identity.go, adapters/cli/daemon.go).              *)
(*                                                                         *)
(* A token is [key, sub, runtime, exp]: the key that signed it, its        *)
(* subject and runtime ("" without the claim), and the second it expires   *)
(* in, Never without one.  An authorizer is [issuers, user, runtimeKeys]:  *)
(* the sequence of key sets of its JWKS URLs as last fetched, the one user *)
(* it is for, and its own keys, none of them in a verifier.                *)
(***************************************************************************)
EXTENDS Naturals, FiniteSets, Sequences, SequencesExt

CONSTANTS Never, QueryTokenTTL   \* no expiry; five minutes, in the clock's unit

Refused == [ok |-> FALSE, known |-> FALSE, sub |-> ""]
Anonymous == [ok |-> TRUE, known |-> FALSE, sub |-> ""]
As(token) == [ok |-> TRUE, known |-> TRUE, sub |-> token.sub]

\* The URLs as they were given, without the blank ones and the repeated ones.
NormalizeURLs(urls) ==
    LET Keep(i) == urls[i] # "" /\ ~\E j \in 1 .. i - 1 : urls[j] = urls[i]
        kept == SelectSeq([i \in DOMAIN urls |-> i], Keep)
    IN  [j \in DOMAIN kept |-> urls[kept[j]]]

\* jwt.Parse checks the signature and the expiry, if there is one.
Parses(token, keys, now) == token.key \in keys /\ (token.exp = Never \/ now < token.exp)
ParseJWT(auth, token, now) == \E i \in DOMAIN auth.issuers : Parses(token, auth.issuers[i], now)

\* "tokens" is the set of the token in the Authorization header.
CheckHeader(auth, tokens, now) ==
    IF auth.issuers = <<>> THEN Anonymous
    ELSE IF \E t \in tokens : ParseJWT(auth, t, now) /\ auth.user \in {"", t.sub}
    THEN As(CHOOSE t \in tokens : TRUE)
    ELSE Refused

\* A daemon checks with its own key, a verifier with the daemon's JWKS; an
\* expiry is required.
CheckQuery(auth, runtime, tokens, now) ==
    LET Accepted(t) ==
            /\ IF auth.runtimeKeys # {} THEN Parses(t, auth.runtimeKeys, now)
               ELSE ParseJWT(auth, t, now)
            /\ runtime \in {"", t.runtime}
            /\ t.exp # Never
    IN  IF \E t \in tokens : Accepted(t) THEN As(CHOOSE t \in tokens : TRUE) ELSE Refused

GenerateQueryToken(auth, runtime, owner, now) ==
    [key |-> CHOOSE k \in auth.runtimeKeys : TRUE, sub |-> owner, runtime |-> runtime,
     exp |-> now + QueryTokenTTL]

\* The public keys of the daemon that is running: each start makes one.
JWKS(auth) == auth.runtimeKeys

-----------------------------------------------------------------------------
(* The routes                                                              *)

\* PublicAuth of a scroll, "auths" being the set of the authorizer; the owner
\* "" is a scroll anyone may use.
PublicAuth(auths, allowAnyone, tokens, owner, now) ==
    IF auths = {} THEN allowAnyone
    ELSE LET who == CheckHeader(CHOOSE a \in auths : TRUE, tokens, now)
         IN  IF ~who.known THEN who.ok /\ allowAnyone
             ELSE who.sub # "" /\ owner \in {"", who.sub}

\* PublicQueryAuth of a console's websocket.
PublicQueryAuth(auths, allowAnyone, runtime, tokens, now) ==
    IF auths = {} THEN allowAnyone
    ELSE CheckQuery(CHOOSE a \in auths : TRUE, runtime, tokens, now).ok

\* CreateDaemonToken: for whoever asks, else for the owner.
CreateDaemonToken(auth, runtime, owner, who, now) ==
    GenerateQueryToken(auth, runtime, IF who.sub # "" THEN who.sub ELSE owner, now)

\* authMiddleware of druid-dev: [user, runtime] are the sets of its two
\* authorizers.  Only a reader gets by with a runtime token, and a user who
\* is not the owner is not asked for one.
DevAuth(dev, owner, id, write, headers, queries, now) ==
    LET who == IF dev.user = {} THEN Refused ELSE CheckHeader(CHOOSE a \in dev.user : TRUE, headers, now)
        reads == dev.runtime # {} /\ CheckQuery(CHOOSE a \in dev.runtime : TRUE, id, queries, now).ok
    IN  IF dev.user = {} /\ dev.runtime = {} THEN TRUE
        ELSE IF who.known THEN owner \in {"", who.sub}
        ELSE ~write /\ reads

-----------------------------------------------------------------------------
(* Workers                                                                 *)

\* AuthenticateWorkload of a token bound to the pod with this name and uid,
\* "pods" being the ones of the cluster; "runtime" is the set of the label.
Workload(bound, pods, operator) ==
    LET live == {p \in pods : p.name = bound.name /\ p.uid = bound.uid /\ p.account = bound.account}
    IN  IF live = {} THEN [kind |-> "refused", runtime |-> {}]
        ELSE LET pod == CHOOSE p \in live : TRUE
             IN  IF pod.account = "druid-runtime-worker"
                 THEN IF pod.managed /\ pod.worker /\ pod.runtime # {}
                      THEN [kind |-> "worker", runtime |-> pod.runtime]
                      ELSE [kind |-> "refused", runtime |-> {}]
                 ELSE IF operator # "" /\ pod.account = operator
                 THEN [kind |-> "operator", runtime |-> pod.runtime]
                 ELSE [kind |-> "refused", runtime |-> {}]

\* workloadIdentityMiddleware: a worker may use the routes of the runtime its
\* pod is labelled with.  "tokens" is the set of the token that was sent; an
\* unsafe daemon does without.
CallbackAllowed(tokens, allowUnsafe, pods, operator, route) ==
    \/ allowUnsafe /\ tokens = {}
    \/ \E bound \in tokens :
           LET identity == Workload(bound, pods, operator)
           IN  \/ identity.kind = "operator"
               \/ identity.kind = "worker" /\ identity.runtime = {route}
=============================================================================
