---------------------------- MODULE AcmeRotation ----------------------------
(***************************************************************************)
(* src/tls/acme_rotation.ts for one service: checkOnce() calls of the      *)
(* renewal manager (its timer, CertLifecycleManager and the renewal route  *)
(* may overlap), the certificate and the key on disk, and the reloader     *)
(* that watches them.  A pair is known by the check that obtained it; the  *)
(* pair the service started with is First.                                 *)
(*                                                                         *)
(* Days stand for the clock.  Alerts, metrics and the account key are left *)
(* out.                                                                    *)
(***************************************************************************)
EXTENDS Integers

CONSTANTS
  Checks,            \* calls of checkOnce()
  First,             \* the pair on disk at the start
  renewBeforeDays,
  Validity,          \* days a new certificate is valid
  MaxDay             \* bound

ASSUME AcmeAssumption ==
  First \notin Checks /\ {renewBeforeDays, Validity, MaxDay} \subseteq Nat

Pairs == Checks \cup {First}

VARIABLES
  today,
  certFile, keyFile,   \* the pair each file belongs to
  expiry,              \* day each pair expires
  check,               \* each call: pc, and the outcome of its two renames
  method,              \* of the issuer: "http-01" or "dns-01"
  challenge,           \* calls whose challenge is published
  debounce,            \* the reload timer is set
  served,              \* pair of the secure context
  process_,            \* up, down, in the bootstrap, or failed in it
  torn                 \* history: renames of two calls overlapped, one failed, or the
                       \* process died between them

disk == <<certFile, keyFile>>
acmeVars == <<today, disk, expiry, check, method, challenge, debounce, served, process_, torn>>

\* "renamed": the file is in place, but the chmod after it failed.
Renames == {"none", "pending", "done", "renamed", "failed"}
Checking == {"issue", "authorize", "write"}

AcmeTypeOK ==
  /\ today \in 0..MaxDay
  /\ {certFile, keyFile, served} \subseteq Pairs
  /\ expiry \in [Pairs -> 0..(MaxDay + Validity)]
  /\ check \in [Checks -> [pc : {"idle", "skipped", "renewed", "failed", "dead"} \cup Checking,
                           cert : Renames, key : Renames]]
  /\ challenge \subseteq Checks /\ method \in {"http-01", "dns-01"}
  /\ debounce \in BOOLEAN /\ torn \in BOOLEAN
  /\ process_ \in {"up", "down", "starting", "unstartable"}

AcmeInit ==
  /\ today = 0
  /\ certFile = First /\ keyFile = First /\ served = First
  /\ expiry = [p \in Pairs |-> IF p = First THEN Validity ELSE 0]
  /\ check = [c \in Checks |-> [pc |-> "idle", cert |-> "none", key |-> "none"]]
  /\ method \in {"http-01", "dns-01"}
  /\ challenge = {} /\ debounce = FALSE /\ process_ = "up" /\ torn = FALSE

-----------------------------------------------------------------------------
Alive == process_ \in {"up", "starting"}
CheckGoto(c, label) == check' = [check EXCEPT ![c].pc = label]

Midnight ==
  /\ today < MaxDay
  /\ today' = today + 1
  /\ UNCHANGED <<disk, expiry, check, method, challenge, debounce, served, process_, torn>>

\* readStatus() looks at the certificate only.
shouldRenew == expiry[certFile] - today < renewBeforeDays

\* checkOnce() has no guard against another call.
checkOnce(c) ==
  /\ process_ = "up" /\ check[c].pc = "idle"
  /\ CheckGoto(c, IF shouldRenew THEN "issue" ELSE "skipped")
  /\ UNCHANGED <<today, disk, expiry, method, challenge, debounce, served, process_, torn>>

\* HTTP-01 keeps a file per token; DNS-01 has one record per domain, which the last
\* call sets and any call removes.
published(c) == IF method = "http-01" THEN challenge \cup {c} ELSE {c}
withdrawn(c) == IF method = "http-01" THEN challenge \ {c} ELSE {}

\* challengeCreateFn.
createChallenge(c) ==
  /\ Alive /\ check[c].pc = "issue"
  /\ challenge' = published(c)
  /\ CheckGoto(c, "authorize")
  /\ UNCHANGED <<today, disk, expiry, method, debounce, served, process_, torn>>

\* The authority answers, and challengeRemoveFn runs; then writeAtomic() begins.
issueCertificate(c) ==
  /\ Alive /\ check[c].pc = "authorize"
  /\ challenge' = withdrawn(c)
  /\ \/ /\ check' = [check EXCEPT ![c] = [pc |-> "write", cert |-> "pending", key |-> "pending"]]
        /\ expiry' = [expiry EXCEPT ![c] = today + Validity]
        /\ torn' = (torn \/ \E d \in Checks : "pending" \in {check[d].cert, check[d].key})
     \/ CheckGoto(c, "failed") /\ UNCHANGED <<expiry, torn>>
  /\ UNCHANGED <<today, disk, method, debounce, served, process_>>

\* atomicWriteFile() of one of the two files, which run side by side; each rename
\* is seen by the watcher, which starts the debounce over.  The chmod that follows may
\* fail, and the call with it, though the file is in place.
renameKey(c) ==
  /\ Alive /\ check[c].key = "pending"
  /\ \/ /\ keyFile' = c
        /\ \E end \in {"done", "renamed"} : check' = [check EXCEPT ![c].key = end]
        /\ debounce' = (process_ = "up") /\ UNCHANGED torn
     \/ /\ check' = [check EXCEPT ![c].key = "failed"]
        /\ torn' = TRUE /\ UNCHANGED <<keyFile, debounce>>
  /\ UNCHANGED <<today, certFile, expiry, method, challenge, served, process_>>

renameCert(c) ==
  /\ Alive /\ check[c].cert = "pending"
  /\ \/ /\ certFile' = c
        /\ \E end \in {"done", "renamed"} : check' = [check EXCEPT ![c].cert = end]
        /\ debounce' = (process_ = "up") /\ UNCHANGED torn
     \/ /\ check' = [check EXCEPT ![c].cert = "failed"]
        /\ torn' = TRUE /\ UNCHANGED <<certFile, debounce>>
  /\ UNCHANGED <<today, keyFile, expiry, method, challenge, served, process_>>

\* Promise.all: renewed when both are done, failed as soon as one is; the other
\* rename goes on.
writeAtomic(c) ==
  /\ Alive /\ check[c].pc = "write"
  /\ \/ check[c].cert = "done" /\ check[c].key = "done" /\ CheckGoto(c, "renewed")
     \/ {check[c].cert, check[c].key} \cap {"renamed", "failed"} # {} /\ CheckGoto(c, "failed")
  /\ UNCHANGED <<today, disk, expiry, method, challenge, debounce, served, process_, torn>>

\* Every call ends with the process, whose renames are made or not.
Die ==
  /\ check' = [c \in Checks |->
       IF check[c].pc \in Checking \/ "pending" \in {check[c].cert, check[c].key}
       THEN [pc |-> "dead", cert |-> "none", key |-> "none"] ELSE check[c]]
  /\ torn' = (torn \/ \E c \in Checks : "pending" \in {check[c].cert, check[c].key})
  /\ debounce' = FALSE
  /\ process_' = "down"
  /\ UNCHANGED <<today, disk, expiry, method, challenge, served>>

\* Fault: the reloader takes whatever is on disk.
loadSecureContext_Unchecked == TRUE

\* createSecureContext() throws on a key that is not the certificate's.
loadSecureContext == certFile = keyFile

\* The timer fires.  On an error the context stays, but 'error' is emitted, which
\* ends a process that has no listener for it; the bootstraps install none.
scheduleReload ==
  /\ process_ = "up" /\ debounce
  /\ IF loadSecureContext
     THEN /\ served' = certFile /\ debounce' = FALSE
          /\ UNCHANGED <<today, disk, expiry, check, method, challenge, process_, torn>>
     ELSE Die

Kill == Alive /\ Die

\* The bootstrap runs a check to its end, then loadInitial(), which throws on a
\* torn pair; watching begins after it.
bootstrapTls(c) ==
  /\ process_ = "down" /\ check[c].pc = "idle"
  /\ process_' = "starting"
  /\ CheckGoto(c, IF shouldRenew THEN "issue" ELSE "skipped")
  /\ UNCHANGED <<today, disk, expiry, method, challenge, debounce, served, torn>>

loadInitial ==
  /\ process_ = "starting" /\ \A c \in Checks : check[c].pc \notin Checking
  /\ process_' = IF loadSecureContext THEN "up" ELSE "unstartable"
  /\ served' = IF loadSecureContext THEN certFile ELSE served
  /\ UNCHANGED <<today, disk, expiry, check, method, challenge, debounce, torn>>

-----------------------------------------------------------------------------
CheckStep(c) ==
  createChallenge(c) \/ issueCertificate(c) \/ renameKey(c) \/ renameCert(c) \/ writeAtomic(c)

AcmeNext ==
  \/ \E c \in Checks : checkOnce(c) \/ CheckStep(c)
  \/ \E c \in Checks : bootstrapTls(c)
  \/ Midnight \/ scheduleReload \/ Kill \/ loadInitial

\* The timer fires, the authority and the file system answer.
AcmeFairness ==
  /\ WF_acmeVars(scheduleReload)
  /\ \A c \in Checks : WF_acmeVars(CheckStep(c))

-----------------------------------------------------------------------------
Writing(c) == "pending" \in {check[c].cert, check[c].key}

\* The certificate and the key on disk belong together, except while one call is
\* between its two renames; a pair is torn for longer only when two calls wrote at
\* once, a rename failed, or the process died in between.
PairOnDisk == certFile # keyFile => torn \/ \E c \in Checks : Writing(c)

\* Whatever is renewed, fails or crashes, what is served is one whole pair that was
\* on disk: no half of a renewal is ever served, and a challenge is published only
\* while its call awaits the authority or died awaiting it.
ServesWholePair ==
  /\ served # First => "failed" \notin {check[served].cert, check[served].key}
  /\ \A c \in challenge : check[c].pc \in {"authorize", "dead"}

\* A renewed pair is served at last: when both files belong to a call, the reload
\* follows, unless the files change again or the process goes down.
RenewedIsServed ==
  \A c \in Checks :
    (certFile = c /\ keyFile = c) ~> (served = c \/ certFile # c \/ keyFile # c \/ process_ # "up")
=============================================================================
