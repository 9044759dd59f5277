---------------------------- MODULE Certificates ----------------------------
(***************************************************************************)
(* The worker renews the intermediate CA an hour-long timer finds close to *)
(* its end, and every service reloads its own certificate, key and trusted *)
(* CAs from files that cert-manager replaces under it.                     *)
(*                                                                         *)
(* A certificate and its key carry the number of the generation they were  *)
(* made in: the two halves of a pair fit when the numbers agree, and a     *)
(* file's modification time is told apart by the generation written last.  *)
(***************************************************************************)
EXTENDS Naturals, Sequences, FiniteSets

CONSTANTS Validity,     \* how long a CA lives, in checks of the timer
          Threshold,    \* RenewalThresholdDays, in the same unit
          MaxTime,      \* the clock stops here
          MaxCrashes,   \* restarts of the worker
          MaxFailures,  \* writes of a CA file that fail
          MaxSwaps      \* replacements of a service's files

(* A renewed CA lives for a year, RenewalThresholdDays is a month. *)
ASSUME CertificatesAssumption ==
    /\ Validity \in Nat /\ Threshold \in Nat /\ Threshold < Validity
    /\ MaxTime \in Nat /\ MaxCrashes \in Nat /\ MaxFailures \in Nat
    /\ MaxSwaps \in Nat

VARIABLES
    now, ends,          \* the clock; the expiry of each CA generation
    source,             \* where the manager found its CA at start-up
    caCert, caKey,      \* the CA files
    cert, key,          \* the manager's currentCert and currentKey
    renewal,            \* the step of CheckAndRotateCA
    checked,            \* the timer's check of this hour is done
    starting,           \* no check was made since the worker started
    announced,          \* ops.ca_rotated.v1 events published
    crashes, failures,
    tlsCert, tlsKey,    \* the files of one service, from the secret volume
    bundle,             \* its trusted CAs
    pair,               \* DynamicCertReloader
    pool,               \* DynamicCAPoolReloader
    load,               \* the handshake that is reloading the pair
    read,               \* the handshake that is reloading the pool
    swaps

managerVars == <<now, ends, source, caCert, caKey, cert, key, renewal, checked,
                 starting, announced, crashes, failures>>
reloaderVars == <<tlsCert, tlsKey, bundle, pair, pool, load, read, swaps>>
certificateVars == <<managerVars, reloaderVars>>

NoReload == [step |-> "idle", certMod |-> 0, keyMod |-> 0, cert |-> 0, moved |-> FALSE]
AtRest == [step |-> "idle", mod |-> 0]

CertificatesTypeOK ==
    /\ now \in Nat /\ ends \in Seq(Nat) /\ source \in {"file", "secret"}
    /\ {caCert, caKey, cert, key} \subseteq DOMAIN ends
    /\ renewal \in {"idle", "cert", "key", "secret"}
    /\ checked \in BOOLEAN /\ starting \in BOOLEAN /\ announced \in Nat
    /\ pair \in [cert: Nat, key: Nat, certMod: Nat, keyMod: Nat]
    /\ pool \in [content: Nat, mod: Nat]
    /\ load \in [step: {"idle", "statKey", "readCert", "readKey", "failed"},
                 certMod: Nat, keyMod: Nat, cert: Nat, moved: BOOLEAN]
    /\ read \in [step: {"idle", "read"}, mod: Nat]

(* NewServerTLSConfig loads the pair and the bundle that are there. *)
ReloaderInit ==
    /\ tlsCert = 1 /\ tlsKey = 1 /\ bundle = 1
    /\ pair = [cert |-> 1, key |-> 1, certMod |-> 1, keyMod |-> 1]
    /\ pool = [content |-> 1, mod |-> 1]
    /\ load = NoReload /\ read = AtRest
    /\ swaps = 0

(* The manager starts with a CA that has one hour to go. *)
CertificatesInit ==
    /\ now = 0 /\ ends = <<Threshold + 1>>
    /\ source \in {"file", "secret"}
    /\ caCert = 1 /\ caKey = 1 /\ cert = 1 /\ key = 1
    /\ renewal = "idle" /\ checked = FALSE
    /\ starting = TRUE /\ announced = 0
    /\ crashes = 0 /\ failures = 0
    /\ ReloaderInit

-----------------------------------------------------------------------------
(* The Kubernetes API refuses the manager's PUT, whose data is PEM text    *)
(* where base64 is asked for, and the manager does not look at the status: *)
(* the secret keeps the CA it was installed with.                          *)
SecretGeneration == 1
syncKubeSecret == TRUE

loadKubeSecret == cert' = SecretGeneration /\ key' = SecretGeneration

(* initCertificates: the certificate and the key are parsed one by one and *)
(* never compared.                                                         *)
initCertificates ==
    IF source = "file" THEN cert' = caCert /\ key' = caKey ELSE loadKubeSecret

NeedsRotation(g) == ends[g] <= now + Threshold

(* GetCAStatus and the decision of CheckAndRotateCA. *)
CheckCA ==
    /\ renewal = "idle" /\ ~checked
    /\ ~NeedsRotation(cert)
    /\ checked' = TRUE /\ starting' = FALSE
    /\ UNCHANGED <<now, ends, source, caCert, caKey, cert, key, renewal,
                   announced, crashes, failures, reloaderVars>>

(* generateCAKeyPair: no parent certificate is ever passed, so that the    *)
(* renewed CA signs itself.                                                *)
GenerateCA ==
    /\ renewal = "idle" /\ ~checked
    /\ NeedsRotation(cert)
    /\ ends' = Append(ends, now + Validity)
    /\ renewal' = IF source = "file" THEN "cert" ELSE "secret"
    /\ UNCHANGED <<now, source, caCert, caKey, cert, key, checked, starting,
                   announced, crashes, failures, reloaderVars>>

(* A failed write of a CA file is logged. *)
WriteFails(next) ==
    /\ failures < MaxFailures
    /\ failures' = failures + 1
    /\ renewal' = next
    /\ UNCHANGED <<caCert, caKey>>

(* Persisting the renewed pair: the certificate first, then the key. *)
PersistCert ==
    /\ renewal = "cert"
    /\ \/ /\ caCert' = Len(ends) /\ renewal' = "key"
          /\ UNCHANGED <<caKey, failures>>
       \/ WriteFails("key")
    /\ UNCHANGED <<now, ends, source, cert, key, checked, starting, announced,
                   crashes, reloaderVars>>

PersistKey ==
    /\ renewal = "key"
    /\ \/ /\ caKey' = Len(ends) /\ renewal' = "secret"
          /\ UNCHANGED <<caCert, failures>>
       \/ WriteFails("secret")
    /\ UNCHANGED <<now, ends, source, cert, key, checked, starting, announced,
                   crashes, reloaderVars>>

(* The renewed pair becomes the manager's.  Only the check made when the   *)
(* worker starts announces it; the timer's do not.                         *)
AdoptCA ==
    /\ renewal = "secret"
    /\ syncKubeSecret
    /\ cert' = Len(ends) /\ key' = Len(ends)
    /\ renewal' = "idle" /\ checked' = TRUE
    /\ announced' = IF starting THEN announced + 1 ELSE announced
    /\ starting' = FALSE
    /\ UNCHANGED <<now, ends, source, caCert, caKey, crashes, failures,
                   reloaderVars>>

(* An hour passes: one check per hour. *)
Hour ==
    /\ checked /\ now < MaxTime
    /\ now' = now + 1 /\ checked' = FALSE
    /\ UNCHANGED <<ends, source, caCert, caKey, cert, key, renewal, starting,
                   announced, crashes, failures, reloaderVars>>

(* The worker dies, at any step, and checks when it is back. *)
WorkerCrash ==
    /\ crashes < MaxCrashes
    /\ crashes' = crashes + 1
    /\ renewal' = "idle" /\ checked' = FALSE /\ starting' = TRUE
    /\ initCertificates
    /\ UNCHANGED <<now, ends, source, caCert, caKey, announced, failures,
                   reloaderVars>>

Manager == \/ CheckCA \/ GenerateCA \/ PersistCert \/ PersistKey \/ AdoptCA
           \/ Hour \/ WorkerCrash

-----------------------------------------------------------------------------
(* The kubelet swaps the directory of a secret: both files at once. *)
SwapPair ==
    /\ swaps < MaxSwaps
    /\ swaps' = swaps + 1
    /\ tlsCert' = tlsCert + 1 /\ tlsKey' = tlsKey + 1
    /\ load' = IF load.step \in {"idle", "failed"} THEN load
               ELSE [load EXCEPT !.moved = TRUE]
    /\ UNCHANGED <<managerVars, bundle, pair, pool, read>>

SwapBundle ==
    /\ swaps < MaxSwaps
    /\ swaps' = swaps + 1 /\ bundle' = bundle + 1
    /\ UNCHANGED <<managerVars, tlsCert, tlsKey, pair, pool, load, read>>

Loads(next) ==
    /\ load' = next
    /\ UNCHANGED <<managerVars, tlsCert, tlsKey, bundle, pair, pool, read, swaps>>

(* ReloadIfNeeded of a handshake, under the write lock: the two files are  *)
(* looked at one after the other ...                                       *)
StatCert == /\ load.step \in {"idle", "failed"}
            /\ Loads([NoReload EXCEPT !.step = "statKey", !.certMod = tlsCert])

(* ... a pair whose times are the recorded ones is served from memory ...  *)
Unchanged(certMod, keyMod) ==
    certMod = pair.certMod /\ keyMod = pair.keyMod

StatKey ==
    /\ load.step = "statKey"
    /\ Loads(IF Unchanged(load.certMod, tlsKey) THEN NoReload
             ELSE [load EXCEPT !.step = "readCert", !.keyMod = tlsKey])

(* ... and otherwise read, one file after the other. *)
ReadCert ==
    /\ load.step = "readCert"
    /\ Loads([load EXCEPT !.step = "readKey", !.cert = tlsCert])

(* The times of the cached pair are those seen before it was read. *)
Cached(c, k, l) ==
    [cert |-> c, key |-> k, certMod |-> l.certMod, keyMod |-> l.keyMod]

(* Mutant: the halves are not compared. *)
ReadKeyUnchecked ==
    /\ load.step = "readKey"
    /\ pair' = Cached(load.cert, tlsKey, load) /\ load' = NoReload
    /\ UNCHANGED <<managerVars, tlsCert, tlsKey, bundle, pool, read, swaps>>

(* LoadX509KeyPair refuses halves that do not fit; the handshake fails and *)
(* the next one tries again.                                               *)
ReadKey ==
    /\ load.step = "readKey"
    /\ IF load.cert = tlsKey
       THEN /\ pair' = Cached(load.cert, tlsKey, load)
            /\ load' = NoReload
       ELSE /\ load' = [load EXCEPT !.step = "failed"]
            /\ UNCHANGED pair
    /\ UNCHANGED <<managerVars, tlsCert, tlsKey, bundle, pool, read, swaps>>

(* The pool of trusted CAs: looked at, then read. *)
StatPool ==
    /\ read = AtRest /\ bundle # pool.mod
    /\ read' = [step |-> "read", mod |-> bundle]
    /\ UNCHANGED <<managerVars, tlsCert, tlsKey, bundle, pair, pool, load, swaps>>

ReadPool ==
    /\ read.step = "read"
    /\ pool' = [content |-> bundle, mod |-> read.mod]
    /\ read' = AtRest
    /\ UNCHANGED <<managerVars, tlsCert, tlsKey, bundle, pair, load, swaps>>

(* The callbacks of a handshake, on either side, reload pair and pool. *)
Reloader == \/ SwapPair \/ SwapBundle \/ StatCert \/ StatKey \/ ReadCert
            \/ ReadKey \/ StatPool \/ ReadPool

CertificatesNext == Manager \/ Reloader

CertificatesSpec == CertificatesInit /\ [][CertificatesNext]_certificateVars

-----------------------------------------------------------------------------
(* CheckAndRotateCA writes two files: they disagree only between the       *)
(* writes, after a crash there, or after one write failed; and the manager *)
(* holds a key that is not its certificate's only if it started from such  *)
(* files.                                                                  *)
TearsExplained ==
    /\ caCert # caKey => renewal = "key" \/ crashes + failures > 0
    /\ cert # key => source = "file" /\ crashes > 0

(* The manager never enters an hour with a CA inside the threshold, and    *)
(* makes a CA while another one is still far from its end only because a   *)
(* crash or a failed write lost the other; it announces at most one        *)
(* renewal each time it starts.                                            *)
RenewalsExplained ==
    /\ checked => ~NeedsRotation(cert)
    /\ Cardinality({g \in DOMAIN ends : ~NeedsRotation(g)}) > 1 =>
           crashes + failures > 0
    /\ announced <= crashes + (IF starting THEN 0 ELSE 1)

(* ReloadIfNeeded: what a service presents is a pair that fits; files      *)
(* whose times are the recorded ones are the files it read, so that a swap *)
(* during a reload is noticed by the next handshake; and a handshake fails *)
(* only when the files moved under it.                                     *)
ReloadSound ==
    /\ pair.cert = pair.key
    /\ Unchanged(tlsCert, tlsKey) => pair.cert = tlsCert
    /\ pool.mod = bundle => pool.content = bundle
    /\ load.step = "failed" => load.moved

(* CheckAndRotateCA and ReloadIfNeeded: torn pairs, lost renewals and      *)
(* failed handshakes happen for these reasons only.                        *)
CertificatesExplained ==
    /\ CertificatesTypeOK
    /\ TearsExplained /\ RenewalsExplained /\ ReloadSound
=============================================================================
