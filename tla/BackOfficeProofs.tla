-------------------------- MODULE BackOfficeProofs --------------------------
(***************************************************************************)
(* Theorems about what the staff keeps running.                            *)
(*                                                                         *)
(* The certificates, for any life of a CA longer than the threshold, any   *)
(* number of crashes, failed writes and swaps: what the files and the      *)
(* manager hold is not enough, CertificateInv adds which generation each   *)
(* step of a renewal has got to and how old the times a reload has seen    *)
(* may be.                                                                 *)
(*                                                                         *)
(* The facilities, for any serials, log entries and jobs: FleetInv says    *)
(* who still has a log that is stored and not marked, and how far the      *)
(* event of a job has come.                                                *)
(*                                                                         *)
(* The help desk, for any number of tickets and failing calls: TicketInv   *)
(* links tickets and issues both ways and accounts for every closing and   *)
(* every copied comment.                                                   *)
(*                                                                         *)
(* The accounts, for any number of requests: AccountInv says at each step  *)
(* of a closure what it has paid and still carries, and of an erasure      *)
(* which tables are behind it.                                             *)
(***************************************************************************)
EXTENDS Tickets, Certificates, AccountLifecycle, Facilities,
        SumTheorems, FiniteSetTheorems, TLAPS

-----------------------------------------------------------------------------
(***************************************************************************)
(* The CA of the worker.                                                   *)
(***************************************************************************)
USE CertificatesAssumption

(* A renewal under way belongs to this hour, whose check is not done, and  *)
(* the generation made last is the one it is about.                        *)
RenewalUnderWay ==
    renewal # "idle" => /\ ~checked
                        /\ ends[Len(ends)] = now + Validity

(* Without a crash and a failed write the manager has the generation made  *)
(* last, or is about to have it, and every other one is used up; the files *)
(* differ only between the two writes.                                     *)
NothingLost ==
    crashes + failures = 0 =>
        /\ cert = (IF renewal = "idle" THEN Len(ends) ELSE Len(ends) - 1)
        /\ \A g \in 1..(Len(ends) - 1) : NeedsRotation(g)
        /\ IF renewal = "key" THEN caCert = Len(ends) ELSE caCert = caKey

(* A reload sees times no later than what it reads, and reads no later     *)
(* than what is there; if nothing moved, what it has read is there.        *)
ReloadOrdered ==
    /\ load.step \in {"statKey", "readCert", "readKey"} => load.certMod <= tlsCert
    /\ load.step \in {"readCert", "readKey"} =>
           load.certMod <= load.keyMod /\ load.keyMod <= tlsCert
    /\ load.step = "readKey" => /\ load.keyMod <= load.cert /\ load.cert <= tlsCert
                                /\ ~load.moved => load.cert = tlsCert
    /\ pair.certMod <= pair.keyMod /\ pair.keyMod <= pair.cert /\ pair.cert <= tlsCert
    /\ read.step = "read" => read.mod <= bundle
    /\ pool.mod <= pool.content /\ pool.content <= bundle

(* The manager's part of the invariant, and the reloader's. *)
ManagerInv ==
    /\ now \in Nat /\ ends \in Seq(Nat) /\ source \in {"file", "secret"}
    /\ {caCert, caKey, cert, key} \subseteq DOMAIN ends
    /\ renewal \in {"idle", "cert", "key", "secret"}
    /\ checked \in BOOLEAN /\ starting \in BOOLEAN /\ announced \in Nat
    /\ crashes \in Nat /\ failures \in Nat
    /\ TearsExplained
    /\ checked => ~NeedsRotation(cert)
    /\ announced <= crashes + (IF starting THEN 0 ELSE 1)
    /\ RenewalUnderWay /\ NothingLost

ReloaderInv ==
    /\ pair \in [cert: Nat, key: Nat, certMod: Nat, keyMod: Nat]
    /\ pool \in [content: Nat, mod: Nat]
    /\ load \in [step: {"idle", "statKey", "readCert", "readKey", "failed"},
                 certMod: Nat, keyMod: Nat, cert: Nat, moved: BOOLEAN]
    /\ read \in [step: {"idle", "read"}, mod: Nat]
    /\ swaps \in Nat /\ tlsCert \in Nat /\ bundle \in Nat /\ tlsKey = tlsCert
    /\ pair.cert = pair.key
    /\ load.step = "failed" => load.moved
    /\ ReloadOrdered

CertificateInv == ManagerInv /\ ReloaderInv

(* What the types say of the parts of a reload. *)
LEMMA ReloadParts ==
  ASSUME ReloaderInv
  PROVE  /\ pair.cert \in Nat /\ pair.key \in Nat /\ pair.certMod \in Nat /\ pair.keyMod \in Nat
         /\ pool.content \in Nat /\ pool.mod \in Nat /\ read.mod \in Nat
         /\ load.certMod \in Nat /\ load.keyMod \in Nat /\ load.cert \in Nat
         /\ load.moved \in BOOLEAN
         /\ tlsCert \in Nat /\ tlsKey = tlsCert /\ bundle \in Nat
  BY DEF ReloaderInv

(* What they say of the generations. *)
LEMMA GenerationParts ==
  ASSUME ManagerInv
  PROVE  /\ now \in Nat /\ ends \in Seq(Nat) /\ Len(ends) \in Nat \ {0}
         /\ DOMAIN ends = 1..Len(ends)
         /\ \A g \in 1..Len(ends) : ends[g] \in Nat
         /\ cert \in 1..Len(ends) /\ key \in 1..Len(ends)
         /\ caCert \in 1..Len(ends) /\ caKey \in 1..Len(ends)
         /\ crashes \in Nat /\ failures \in Nat /\ announced \in Nat
<1>1. /\ ends \in Seq(Nat) /\ cert \in DOMAIN ends /\ key \in DOMAIN ends
      /\ caCert \in DOMAIN ends /\ caKey \in DOMAIN ends
  BY DEF ManagerInv
<1>2. Len(ends) \in Nat /\ DOMAIN ends = 1..Len(ends)
  BY <1>1
<1>3. \A g \in 1..Len(ends) : ends[g] \in Nat
  BY <1>1
<1> QED BY <1>1, <1>2, <1>3 DEF ManagerInv

(* The invariant says more than the property. *)
LEMMA CertificateInvSuffices == CertificateInv => CertificatesExplained
<1> SUFFICES ASSUME CertificateInv PROVE CertificatesExplained
  OBVIOUS
<1>1. ManagerInv /\ ReloaderInv /\ CertificatesTypeOK /\ TearsExplained
  BY DEF CertificateInv, ManagerInv, ReloaderInv, CertificatesTypeOK
<1>2. ReloadSound
  <2>1. /\ pair.cert = pair.key
        /\ load.step = "failed" => load.moved
        /\ pair.certMod <= pair.keyMod /\ pair.keyMod <= pair.cert /\ pair.cert <= tlsCert
        /\ pool.mod <= pool.content /\ pool.content <= bundle
    BY <1>1 DEF ReloaderInv, ReloadOrdered
  <2>2. /\ Unchanged(tlsCert, tlsKey) => pair.cert = tlsCert
        /\ pool.mod = bundle => pool.content = bundle
    BY <1>1, <2>1, ReloadParts DEF Unchanged
  <2> QED BY <2>1, <2>2, Zenon DEF ReloadSound
<1>3. ASSUME crashes + failures = 0
      PROVE  Cardinality({g \in DOMAIN ends : ~NeedsRotation(g)}) <= 1
  <2>1. \A g \in 1..(Len(ends) - 1) : NeedsRotation(g)
    BY <1>1, <1>3 DEF ManagerInv, NothingLost
  <2>2. {g \in DOMAIN ends : ~NeedsRotation(g)} \subseteq {Len(ends)}
    BY <1>1, <2>1, GenerationParts
  <2>3. IsFiniteSet({Len(ends)}) /\ Cardinality({Len(ends)}) = 1
    BY FS_Singleton
  <2>4. Cardinality({g \in DOMAIN ends : ~NeedsRotation(g)}) <= Cardinality({Len(ends)})
    BY <2>2, <2>3, FS_Subset
  <2> QED BY <2>3, <2>4
<1>4. IsFiniteSet({g \in DOMAIN ends : ~NeedsRotation(g)})
  <2>1. DOMAIN ends = 1..Len(ends) /\ Len(ends) \in Nat
    BY <1>1, GenerationParts
  <2>2. IsFiniteSet(1..Len(ends))
    BY <2>1, FS_Interval
  <2> QED BY <2>1, <2>2, FS_Subset
<1>5. Cardinality({g \in DOMAIN ends : ~NeedsRotation(g)}) \in Nat
  BY <1>4, FS_CardinalityType
<1>6. RenewalsExplained
  BY <1>1, <1>3, <1>5, GenerationParts DEF ManagerInv, RenewalsExplained
<1> QED BY <1>1, <1>2, <1>6 DEF CertificatesExplained

LEMMA CertificateInitInv == CertificatesInit => CertificateInv
<1> SUFFICES ASSUME CertificatesInit PROVE CertificateInv
  OBVIOUS
<1>1. /\ ends = <<Threshold + 1>> /\ ends \in Seq(Nat) /\ DOMAIN ends = {1}
      /\ Len(ends) = 1 /\ ends[1] = Threshold + 1
  BY DEF CertificatesInit
<1>2. RenewalUnderWay /\ NothingLost
  BY <1>1 DEF CertificatesInit, RenewalUnderWay, NothingLost
<1>3. /\ now = 0 /\ source \in {"file", "secret"} /\ caCert = 1 /\ caKey = 1
      /\ cert = 1 /\ key = 1 /\ renewal = "idle" /\ checked = FALSE /\ starting = TRUE
      /\ announced = 0 /\ crashes = 0 /\ failures = 0
  BY DEF CertificatesInit
<1>4. ManagerInv
  <2>1. {caCert, caKey, cert, key} \subseteq DOMAIN ends
    BY <1>1, <1>3
  <2>2. announced <= crashes + (IF starting THEN 0 ELSE 1)
    BY <1>3
  <2> QED BY <1>1, <1>2, <1>3, <2>1, <2>2 DEF ManagerInv, TearsExplained
<1>5. ReloaderInv
  BY DEF CertificatesInit, ReloaderInit, NoReload, AtRest, ReloaderInv, ReloadOrdered
<1> QED BY <1>4, <1>5 DEF CertificateInv

(* A step that leaves the manager, or the reloader, alone. *)
LEMMA ManagerRests ==
  ASSUME ManagerInv, UNCHANGED managerVars PROVE ManagerInv'
  BY DEF ManagerInv, managerVars, TearsExplained, NeedsRotation, RenewalUnderWay, NothingLost

LEMMA ReloaderRests ==
  ASSUME ReloaderInv, UNCHANGED reloaderVars PROVE ReloaderInv'
  BY DEF ReloaderInv, reloaderVars, ReloadOrdered

(* The timer finds nothing to do. *)
LEMMA CheckCAKeeps ==
  ASSUME ManagerInv, CheckCA PROVE ManagerInv'
<1>1. /\ renewal = "idle" /\ ~NeedsRotation(cert) /\ checked' = TRUE /\ starting' = FALSE
      /\ UNCHANGED <<now, ends, source, caCert, caKey, cert, key, renewal, announced, crashes,
                     failures>>
  BY DEF CheckCA
<1>2. TearsExplained' /\ RenewalUnderWay' /\ NothingLost' /\ ~NeedsRotation(cert)'
  BY <1>1 DEF ManagerInv, TearsExplained, RenewalUnderWay, NothingLost, NeedsRotation
<1>3. announced' <= crashes' + (IF starting' THEN 0 ELSE 1)
  BY <1>1, GenerationParts DEF ManagerInv
<1> QED BY <1>1, <1>2, <1>3 DEF ManagerInv

(* A generation is made: the ones before it are used up. *)
LEMMA GenerateCAKeeps ==
  ASSUME ManagerInv, GenerateCA PROVE ManagerInv'
<1>1. /\ ends' = Append(ends, now + Validity) /\ renewal = "idle" /\ ~checked
      /\ renewal' \in {"cert", "secret"} /\ NeedsRotation(cert)
      /\ UNCHANGED <<now, source, caCert, caKey, cert, key, checked, starting, announced,
                     crashes, failures>>
  BY DEF GenerateCA
<1>2. /\ ends' \in Seq(Nat) /\ Len(ends') = Len(ends) + 1 /\ DOMAIN ends' = 1..(Len(ends) + 1)
      /\ ends'[Len(ends) + 1] = now + Validity
      /\ \A g \in 1..Len(ends) : ends'[g] = ends[g]
  BY <1>1, GenerationParts
<1>3. NothingLost'
  <2> SUFFICES ASSUME crashes + failures = 0
               PROVE  /\ cert = Len(ends')- 1
                      /\ \A g \in 1..(Len(ends') - 1) : ends'[g] <= now + Threshold
                      /\ caCert = caKey
    BY <1>1, <1>2 DEF NothingLost, NeedsRotation
  <2>1. /\ cert = Len(ends) /\ caCert = caKey
        /\ \A g \in 1..(Len(ends) - 1) : NeedsRotation(g)
    BY <1>1 DEF ManagerInv, NothingLost
  <2>2. \A g \in 1..Len(ends) : NeedsRotation(g)
    BY <1>1, <2>1, GenerationParts
  <2> QED BY <1>1, <1>2, <2>1, <2>2, GenerationParts DEF NeedsRotation
<1>4. RenewalUnderWay'
  BY <1>1, <1>2 DEF RenewalUnderWay
<1>5. TearsExplained'
  BY <1>1 DEF ManagerInv, TearsExplained
<1> QED BY <1>1, <1>2, <1>3, <1>4, <1>5, GenerationParts DEF ManagerInv

(* The renewed pair is written. *)
LEMMA PersistKeeps ==
  ASSUME ManagerInv, PersistCert \/ PersistKey PROVE ManagerInv'
<1>1. /\ renewal \in {"cert", "key"} /\ renewal' \in {"key", "secret"}
      /\ caCert' \in {caCert, Len(ends)} /\ caKey' \in {caKey, Len(ends)}
      /\ failures' \in {failures, failures + 1}
      /\ UNCHANGED <<now, ends, source, cert, key, checked, starting, announced, crashes>>
  BY DEF PersistCert, PersistKey, WriteFails
<1>2. {caCert', caKey', cert', key'} \subseteq DOMAIN ends' /\ failures' \in Nat
  <2>1. Len(ends) \in 1..Len(ends) /\ DOMAIN ends = 1..Len(ends) /\ failures \in Nat
    BY GenerationParts
  <2>2. {caCert, caKey, cert, key} \subseteq DOMAIN ends
    BY DEF ManagerInv
  <2> QED BY <1>1, <2>1, <2>2
<1>3. crashes + failures' = 0 => /\ failures' = failures
                                 /\ IF renewal' = "key" THEN caCert' = Len(ends) ELSE caCert' = caKey'
  <2> SUFFICES ASSUME crashes + failures' = 0
               PROVE  /\ failures' = failures
                      /\ IF renewal' = "key" THEN caCert' = Len(ends) ELSE caCert' = caKey'
    OBVIOUS
  <2>1. crashes \in Nat /\ failures \in Nat
    BY GenerationParts
  <2>2. failures' = failures /\ crashes + failures = 0
    <3>1. failures' = failures \/ failures' = failures + 1
      BY <1>1
    <3> QED BY <2>1, <3>1
  <2>3. CASE PersistCert
    BY <2>1, <2>2, <2>3 DEF PersistCert, WriteFails
  <2>4. CASE PersistKey
    <3>1. renewal = "key" /\ caKey' = Len(ends) /\ renewal' = "secret" /\ UNCHANGED caCert
      BY <2>1, <2>2, <2>4 DEF PersistKey, WriteFails
    <3>2. caCert = Len(ends)
      BY <2>2, <3>1 DEF ManagerInv, NothingLost
    <3> QED BY <2>2, <3>1, <3>2
  <2> QED BY <2>3, <2>4
<1>4. NothingLost'
  BY <1>1, <1>3 DEF ManagerInv, NothingLost, NeedsRotation
<1>5. TearsExplained'
  <2>1. crashes \in Nat /\ failures' \in Nat
    BY <1>2, GenerationParts
  <2>2. caCert' # caKey' => renewal' = "key" \/ crashes' + failures' > 0
    <3>1. crashes' = crashes
      BY <1>1
    <3>2. PICK m \in Nat, n \in Nat : crashes = m /\ failures' = n
      BY <2>1
    <3>3. m + n = 0 \/ m + n > 0
      OBVIOUS
    <3> QED BY <1>3, <3>1, <3>2, <3>3
  <2> QED BY <1>1, <2>2 DEF ManagerInv, TearsExplained
<1>6. RenewalUnderWay' /\ (checked => ~NeedsRotation(cert))'
  BY <1>1 DEF ManagerInv, RenewalUnderWay, NeedsRotation
<1> QED BY <1>1, <1>2, <1>4, <1>5, <1>6 DEF ManagerInv

(* It is adopted: it was made this hour and lives beyond the threshold. *)
LEMMA AdoptCAKeeps ==
  ASSUME ManagerInv, AdoptCA PROVE ManagerInv'
<1>1. /\ renewal = "secret" /\ cert' = Len(ends) /\ key' = Len(ends) /\ renewal' = "idle"
      /\ checked' = TRUE /\ starting' = FALSE
      /\ announced' = IF starting THEN announced + 1 ELSE announced
      /\ UNCHANGED <<now, ends, source, caCert, caKey, crashes, failures>>
  BY DEF AdoptCA
<1>2. ends[Len(ends)] = now + Validity
  BY <1>1 DEF ManagerInv, RenewalUnderWay
<1>3. ~NeedsRotation(cert)'
  BY <1>1, <1>2, GenerationParts DEF NeedsRotation
<1>4. announced' \in Nat /\ announced' <= crashes' + (IF starting' THEN 0 ELSE 1)
  BY <1>1, GenerationParts DEF ManagerInv
<1>5. NothingLost'
  BY <1>1 DEF ManagerInv, NothingLost, NeedsRotation
<1>6. TearsExplained' /\ RenewalUnderWay'
  BY <1>1 DEF ManagerInv, TearsExplained, RenewalUnderWay
<1>7. {caCert', caKey', cert', key'} \subseteq DOMAIN ends'
  BY <1>1, GenerationParts
<1> QED BY <1>1, <1>3, <1>4, <1>5, <1>6, <1>7 DEF ManagerInv

(* Time only uses generations up. *)
LEMMA HourKeeps ==
  ASSUME ManagerInv, Hour PROVE ManagerInv'
<1>1. /\ checked /\ now' = now + 1 /\ checked' = FALSE
      /\ UNCHANGED <<ends, source, caCert, caKey, cert, key, renewal, starting, announced, crashes,
                     failures>>
  BY DEF Hour
<1>2. renewal = "idle"
  BY <1>1 DEF ManagerInv, RenewalUnderWay
<1>3. \A g \in 1..(Len(ends) - 1) : NeedsRotation(g) => NeedsRotation(g)'
  <2>1. now \in Nat /\ \A g \in 1..(Len(ends) - 1) : ends[g] \in Nat
    BY GenerationParts
  <2> QED BY <1>1, <2>1 DEF NeedsRotation
<1>4. NothingLost'
  BY <1>1, <1>3 DEF ManagerInv, NothingLost
<1>5. TearsExplained' /\ RenewalUnderWay'
  BY <1>1, <1>2 DEF ManagerInv, TearsExplained, RenewalUnderWay
<1>6. now' \in Nat
  BY <1>1, GenerationParts
<1> QED BY <1>1, <1>4, <1>5, <1>6 DEF ManagerInv

(* The worker starts again from the files, or from the secret. *)
LEMMA WorkerCrashKeeps ==
  ASSUME ManagerInv, WorkerCrash PROVE ManagerInv'
<1>1. /\ crashes' = crashes + 1 /\ renewal' = "idle" /\ checked' = FALSE /\ starting' = TRUE
      /\ \/ source = "file" /\ cert' = caCert /\ key' = caKey
         \/ source # "file" /\ cert' = 1 /\ key' = 1
      /\ UNCHANGED <<now, ends, source, caCert, caKey, announced, failures>>
  BY DEF WorkerCrash, initCertificates, loadKubeSecret, SecretGeneration
<1>2. {caCert', caKey', cert', key'} \subseteq DOMAIN ends'
  <2>1. 1 \in DOMAIN ends
    BY GenerationParts
  <2> QED BY <1>1, <2>1 DEF ManagerInv
<1>3. crashes' \in Nat /\ crashes' > 0 /\ crashes' + failures' > 0
  BY <1>1, GenerationParts
<1>4. announced' <= crashes' + (IF starting' THEN 0 ELSE 1)
  BY <1>1, GenerationParts DEF ManagerInv
<1>5. TearsExplained' /\ RenewalUnderWay' /\ NothingLost'
  BY <1>1, <1>3, GenerationParts DEF ManagerInv, TearsExplained, RenewalUnderWay, NothingLost
<1> QED BY <1>1, <1>2, <1>3, <1>4, <1>5 DEF ManagerInv

LEMMA ManagerKeeps ==
  ASSUME ManagerInv, Manager PROVE ManagerInv'
  BY CheckCAKeeps, GenerateCAKeeps, PersistKeeps, AdoptCAKeeps, HourKeeps, WorkerCrashKeeps
     DEF Manager

(* The files of a service are swapped: what is there gets newer. *)
LEMMA SwapKeeps ==
  ASSUME ReloaderInv, SwapPair \/ SwapBundle PROVE ReloaderInv'
<1>1. CASE SwapPair
  <2>1. /\ swaps' = swaps + 1 /\ tlsCert' = tlsCert + 1 /\ tlsKey' = tlsKey + 1
        /\ UNCHANGED <<bundle, pair, pool, read>>
    BY <1>1 DEF SwapPair
  <2>2. /\ load' \in [step: {"idle", "statKey", "readCert", "readKey", "failed"},
                      certMod: Nat, keyMod: Nat, cert: Nat, moved: BOOLEAN]
        /\ load'.step = load.step /\ load'.certMod = load.certMod
        /\ load'.keyMod = load.keyMod /\ load'.cert = load.cert
        /\ load'.step \in {"statKey", "readCert", "readKey"} => load'.moved = TRUE
        /\ load'.step \in {"idle", "failed"} => load'.moved = load.moved
    BY <1>1 DEF SwapPair, ReloaderInv
  <2>3. ReloadOrdered'
    BY <2>1, <2>2, ReloadParts DEF ReloaderInv, ReloadOrdered
  <2>4. load'.step = "failed" => load'.moved
    BY <2>2, Zenon DEF ReloaderInv
  <2> QED BY <2>1, <2>2, <2>3, <2>4 DEF ReloaderInv
<1>2. CASE SwapBundle
  <2>1. /\ swaps' = swaps + 1 /\ bundle' = bundle + 1
        /\ UNCHANGED <<tlsCert, tlsKey, pair, pool, load, read>>
    BY <1>2 DEF SwapBundle
  <2>2. ReloadOrdered'
    BY <2>1, ReloadParts DEF ReloaderInv, ReloadOrdered
  <2> QED BY <2>1, <2>2 DEF ReloaderInv
<1> QED BY <1>1, <1>2

(* A handshake looks at the files ... *)
LEMMA StatKeeps ==
  ASSUME ReloaderInv, StatCert \/ StatKey PROVE ReloaderInv'
<1>1. UNCHANGED <<tlsCert, tlsKey, bundle, pair, pool, read, swaps>>
  BY DEF StatCert, StatKey, Loads
<1>2. \/ load' = NoReload
      \/ load' = [step |-> "statKey", certMod |-> tlsCert, keyMod |-> 0, cert |-> 0,
                  moved |-> FALSE]
      \/ load.step = "statKey" /\ load' = [load EXCEPT !.step = "readCert", !.keyMod = tlsKey]
  BY DEF StatCert, StatKey, Loads, NoReload
<1>3. /\ load' \in [step: {"idle", "statKey", "readCert", "readKey", "failed"},
                    certMod: Nat, keyMod: Nat, cert: Nat, moved: BOOLEAN]
      /\ load'.step \in {"idle", "statKey", "readCert"}
      /\ load'.step \in {"statKey", "readCert"} => load'.certMod <= tlsCert
      /\ load'.step = "readCert" => load'.keyMod = tlsCert
  <2>1. CASE load' = NoReload
    BY <2>1 DEF NoReload
  <2>2. CASE load' = [step |-> "statKey", certMod |-> tlsCert, keyMod |-> 0, cert |-> 0,
                      moved |-> FALSE]
    BY <2>2, ReloadParts
  <2>3. CASE load.step = "statKey" /\ load' = [load EXCEPT !.step = "readCert", !.keyMod = tlsKey]
    BY <2>3, ReloadParts DEF ReloaderInv, ReloadOrdered
  <2> QED BY <1>2, <2>1, <2>2, <2>3
<1>4. ReloadOrdered'
  BY <1>1, <1>3, ReloadParts DEF ReloaderInv, ReloadOrdered
<1> QED BY <1>1, <1>3, <1>4 DEF ReloaderInv

(* ... and reads them. *)
LEMMA ReadKeeps ==
  ASSUME ReloaderInv, ReadCert \/ ReadKey PROVE ReloaderInv'
<1>1. UNCHANGED <<tlsCert, tlsKey, bundle, pool, read, swaps>>
  BY DEF ReadCert, ReadKey, Loads
<1>2. CASE ReadCert
  <2>1. load.step = "readCert" /\ load' = [load EXCEPT !.step = "readKey", !.cert = tlsCert]
    BY <1>2 DEF ReadCert, Loads
  <2>2. UNCHANGED pair
    BY <1>2 DEF ReadCert, Loads
  <2>3. /\ load' \in [step: {"idle", "statKey", "readCert", "readKey", "failed"},
                      certMod: Nat, keyMod: Nat, cert: Nat, moved: BOOLEAN]
        /\ load'.step = "readKey" /\ load'.cert = tlsCert
        /\ load'.certMod = load.certMod /\ load'.keyMod = load.keyMod
    BY <2>1, ReloadParts DEF ReloaderInv
  <2>4. ReloadOrdered'
    BY <1>1, <2>1, <2>2, <2>3, ReloadParts DEF ReloaderInv, ReloadOrdered
  <2> QED BY <1>1, <2>2, <2>3, <2>4 DEF ReloaderInv
<1>3. CASE ReadKey /\ load.cert = tlsKey
  <2>1. /\ load.step = "readKey" /\ load' = NoReload
        /\ pair' = [cert |-> load.cert, key |-> tlsKey, certMod |-> load.certMod,
                    keyMod |-> load.keyMod]
    BY <1>3 DEF ReadKey, Cached
  <2>2. /\ pair' \in [cert: Nat, key: Nat, certMod: Nat, keyMod: Nat]
        /\ pair'.cert = load.cert /\ pair'.key = load.cert
        /\ pair'.certMod = load.certMod /\ pair'.keyMod = load.keyMod
    BY <1>3, <2>1, ReloadParts
  <2>3. /\ load' \in [step: {"idle", "statKey", "readCert", "readKey", "failed"},
                      certMod: Nat, keyMod: Nat, cert: Nat, moved: BOOLEAN]
        /\ load'.step = "idle"
    BY <2>1 DEF NoReload
  <2>4. ReloadOrdered'
    BY <1>1, <2>1, <2>2, <2>3, ReloadParts DEF ReloaderInv, ReloadOrdered
  <2> QED BY <1>1, <2>2, <2>3, <2>4 DEF ReloaderInv
<1>4. CASE ReadKey /\ load.cert # tlsKey
  <2>1. load.step = "readKey" /\ load' = [load EXCEPT !.step = "failed"] /\ UNCHANGED pair
    BY <1>4 DEF ReadKey
  <2>2. load.moved = TRUE
    <3>1. load.moved \in BOOLEAN /\ (~load.moved => load.cert = tlsCert)
      BY <2>1, ReloadParts DEF ReloaderInv, ReloadOrdered
    <3> QED BY <1>4, <3>1, ReloadParts
  <2>3. /\ load' \in [step: {"idle", "statKey", "readCert", "readKey", "failed"},
                      certMod: Nat, keyMod: Nat, cert: Nat, moved: BOOLEAN]
        /\ load'.step = "failed" /\ load'.moved = TRUE
    BY <2>1, <2>2 DEF ReloaderInv
  <2>4. ReloadOrdered'
    BY <1>1, <2>1, <2>3, ReloadParts DEF ReloaderInv, ReloadOrdered
  <2> QED BY <1>1, <2>1, <2>3, <2>4 DEF ReloaderInv
<1> QED BY <1>2, <1>3, <1>4

(* So does the pool of trusted CAs. *)
LEMMA PoolKeeps ==
  ASSUME ReloaderInv, StatPool \/ ReadPool PROVE ReloaderInv'
<1>1. UNCHANGED <<tlsCert, tlsKey, bundle, pair, load, swaps>>
  BY DEF StatPool, ReadPool
<1>2. /\ read' \in [step: {"idle", "read"}, mod: Nat]
      /\ read'.step = "read" => read'.mod <= bundle
  BY ReloadParts DEF StatPool, ReadPool, AtRest
<1>3. /\ pool' \in [content: Nat, mod: Nat]
      /\ pool'.mod <= pool'.content /\ pool'.content <= bundle
  BY ReloadParts DEF StatPool, ReadPool, ReloaderInv, ReloadOrdered
<1>4. ReloadOrdered'
  BY <1>1, <1>2, <1>3 DEF ReloaderInv, ReloadOrdered
<1> QED BY <1>1, <1>2, <1>3, <1>4 DEF ReloaderInv

LEMMA ReloaderKeeps ==
  ASSUME ReloaderInv, Reloader PROVE ReloaderInv'
  BY SwapKeeps, StatKeeps, ReadKeeps, PoolKeeps DEF Reloader

(* CheckAndRotateCA and ReloadIfNeeded: whatever crashes, failed writes    *)
(* and swaps come in between, torn CA files, a key that does not fit, a    *)
(* CA made too early, an unnoticed swap and a failed handshake have one of *)
(* the accepted reasons.                                                   *)
THEOREM CertificatesAreExplained == CertificatesSpec => []CertificatesExplained
<1>1. CertificateInv /\ [CertificatesNext]_certificateVars => CertificateInv'
  <2> SUFFICES ASSUME ManagerInv, ReloaderInv, [CertificatesNext]_certificateVars
               PROVE  ManagerInv' /\ ReloaderInv'
    BY DEF CertificateInv
  <2>1. CASE Manager
    <3>1. UNCHANGED reloaderVars
      BY <2>1 DEF Manager, CheckCA, GenerateCA, PersistCert, PersistKey, AdoptCA, Hour, WorkerCrash
    <3> QED BY <2>1, <3>1, ManagerKeeps, ReloaderRests
  <2>2. CASE Reloader
    <3>1. UNCHANGED managerVars
      BY <2>2 DEF Reloader, SwapPair, SwapBundle, StatCert, StatKey, ReadCert, ReadKey, StatPool,
                  ReadPool, Loads
    <3> QED BY <2>2, <3>1, ReloaderKeeps, ManagerRests
  <2>3. CASE UNCHANGED certificateVars
    BY <2>3, ManagerRests, ReloaderRests DEF certificateVars
  <2> QED BY <2>1, <2>2, <2>3 DEF CertificatesNext
<1> QED BY <1>1, CertificateInitInv, CertificateInvSuffices, PTL DEF CertificatesSpec

-----------------------------------------------------------------------------
(***************************************************************************)
(* The hardware of the habitats.                                           *)
(***************************************************************************)
HIDE CertificatesAssumption
USE FacilitiesAssumption

Answers == {"answer", "closed"}

(* What is always known of a log: one the phone has not written is nowhere,*)
(* one in an answered batch is stored, and over PostgreSQL none is.        *)
LogsTraced ==
    /\ \A e \in Entries :
          /\ phone[e] = "none" => logs[e] = 0
          /\ phone[e] = "synced" => logs[e] > 0
          /\ fleet = "pgx" => logs[e] = 0
    /\ \A s \in Syncs : \A e \in sync[s].batch :
          /\ phone[e] # "none"
          /\ sync[s].step = "answered" => logs[e] > 0

(* While every answer arrives, a stored log is synced or about to be. *)
LogsAnswered ==
    faults \cap Answers = {} =>
        \A e \in Entries : phone[e] = "unsynced" /\ logs[e] > 0 =>
            \E s \in Syncs : sync[s].step = "answered" /\ e \in sync[s].batch

(* While, besides, no two synchronisations overlap, a log is in one batch  *)
(* at most, is marked once, and is not stored before its batch is posted.  *)
LogsOnce ==
    ~overlapped /\ faults \cap Answers = {} =>
        /\ \A e \in Entries : logs[e] <= 1
        /\ \A s \in Syncs : \A e \in sync[s].batch :
              /\ phone[e] = "unsynced"
              /\ sync[s].step \in {"post", "failed"} => logs[e] = 0
              /\ \A t \in Syncs \ {s} : e \notin sync[t].batch

(* A job and its event. *)
JobsTraced ==
    /\ \A j \in 1..MaxJobs :
          /\ event[j] # "none" <=> j <= Len(jobs)
          /\ event[j] = "lost" => "publish" \in faults
          /\ event[j] = "none" => completions[j] = 0
          /\ event[j] = "done" => completions[j] > 0
          /\ fleet = "none" => event[j] \notin {"updated", "done"} /\ completions[j] = 0
          /\ "worker" \notin faults => IF event[j] = "done" THEN completions[j] <= 1
                                                            ELSE completions[j] = 0
    /\ \A j \in DOMAIN jobs :
          /\ fleet = "pgx" =>
                /\ jobs[j].status \in {"pending", "completed"} /\ jobs[j].asset \in assets
                /\ event[j] \in {"updated", "done"} => jobs[j].status = "completed"
                /\ event[j] = "lost" => jobs[j].status = "pending"
          /\ fleet = "none" => jobs[j].status = "queued"

LogInv ==
    /\ fleet \in {"pgx", "map", "none"}
    /\ phone \in [Entries -> {"none", "unsynced", "synced"}]
    /\ sync \in [Syncs -> [step: {"idle", "post", "answered", "failed"},
                           batch: SUBSET Entries]]
    /\ logs \in [Entries \cup {"desk"} -> Nat]
    /\ overlapped \in BOOLEAN
    /\ LogsTraced /\ LogsAnswered /\ LogsOnce

JobInv ==
    /\ assets \subseteq Serials \cup {Seeded}
    /\ releases \subseteq Versions \cup {Seeded}
    /\ fleet = "pgx" => releases = {Seeded}
    /\ jobs \in Seq(Job) /\ Len(jobs) <= MaxJobs
    /\ event \in [1..MaxJobs -> {"none", "queued", "updated", "lost", "done"}]
    /\ completions \in [1..MaxJobs -> Nat]
    /\ JobsTraced

FleetInv == LogInv /\ JobInv /\ samples \in [Zones -> Nat]

LEMMA FleetInitInv == FacilitiesInit => FleetInv
<1> SUFFICES ASSUME FacilitiesInit PROVE FleetInv
  OBVIOUS
<1>1. LogInv
  <2>1. /\ \A e \in Entries : phone[e] = "none" /\ logs[e] = 0
        /\ \A s \in Syncs : sync[s].batch = {} /\ sync[s].step = "idle"
    BY DEF FacilitiesInit, Idle
  <2>2. LogsTraced /\ LogsAnswered /\ LogsOnce
    BY <2>1 DEF LogsTraced, LogsAnswered, LogsOnce
  <2>3. /\ sync \in [Syncs -> [step: {"idle", "post", "answered", "failed"},
                               batch: SUBSET Entries]]
        /\ phone \in [Entries -> {"none", "unsynced", "synced"}]
        /\ logs \in [Entries \cup {"desk"} -> Nat]
    BY DEF FacilitiesInit, Idle
  <2> QED BY <2>2, <2>3 DEF FacilitiesInit, LogInv
<1>2. jobs = <<>> /\ jobs \in Seq(Job) /\ Len(jobs) = 0 /\ DOMAIN jobs = {}
  BY DEF FacilitiesInit
<1>3. JobInv
  <2>1. \A j \in 1..MaxJobs : event[j] = "none" /\ completions[j] = 0 /\ ~(j <= Len(jobs))
    BY <1>2 DEF FacilitiesInit
  <2>2. JobsTraced
    BY <1>2, <2>1 DEF JobsTraced
  <2> QED BY <1>2, <2>2 DEF FacilitiesInit, JobInv
<1> QED BY <1>1, <1>3 DEF FleetInv, FacilitiesInit

(* A stream ends within what was asked for. *)
LEMMA StreamEnds ==
  ASSUME samples \in [Zones -> Nat], NEW z \in Zones, NEW n \in Int
  PROVE  StreamEnvironmentalTelemetry(z, n) <= SampleCount(n)
<1>1. samples[z] \in Nat /\ SampleCount(n) \in Nat /\ SampleCount(n) > 0 /\ SampleCount(n) <= 100
  BY DEF SampleCount, Least
<1> DEFINE c == SampleCount(n)
<1>2. c \in Nat /\ c > 0 /\ c <= 100
  BY <1>1
<1>3. StreamEnvironmentalTelemetry(z, n) =
          IF fleet = "pgx" THEN LatestRows(z, c) ELSE MapLatest(z, c)
  BY DEF StreamEnvironmentalTelemetry
<1> HIDE DEF c
<1>4. LatestRows(z, c) <= c /\ MapLatest(z, c) <= c
  BY <1>1, <1>2 DEF LatestRows, MapLatest, Least
<1> QED BY <1>3, <1>4 DEF c

(* The invariant says more than the property. *)
LEMMA FleetInvSuffices == FleetInv => FleetExplained
<1> SUFFICES ASSUME FleetInv PROVE FleetExplained
  OBVIOUS
<1>1. FacilitiesTypeOK
  BY DEF FleetInv, LogInv, JobInv, FacilitiesTypeOK
<1>2. LogsExplained
  <2> SUFFICES ASSUME NEW e \in Entries
               PROVE  /\ phone[e] = "synced" => logs[e] > 0
                      /\ logs[e] > 1 => overlapped \/ faults \cap {"answer", "closed"} # {}
                      /\ phone[e] = "unsynced" /\ logs[e] > 0 =>
                            \/ \E s \in Syncs : sync[s].step = "answered" /\ e \in sync[s].batch
                            \/ faults \cap {"answer", "closed"} # {}
                      /\ fleet = "pgx" => phone[e] # "synced" /\ logs[e] = 0
    BY DEF LogsExplained
  <2>1. logs[e] \in Nat
    BY DEF FleetInv, LogInv
  <2>2. phone[e] = "synced" => logs[e] > 0
    BY DEF FleetInv, LogInv, LogsTraced
  <2>3. logs[e] > 1 => overlapped \/ faults \cap {"answer", "closed"} # {}
    BY <2>1 DEF FleetInv, LogInv, LogsOnce, Answers
  <2>4. phone[e] = "unsynced" /\ logs[e] > 0 =>
            \/ \E s \in Syncs : sync[s].step = "answered" /\ e \in sync[s].batch
            \/ faults \cap {"answer", "closed"} # {}
    BY DEF FleetInv, LogInv, LogsAnswered, Answers
  <2>5. fleet = "pgx" => phone[e] # "synced" /\ logs[e] = 0
    BY <2>1 DEF FleetInv, LogInv, LogsTraced
  <2> QED BY <2>2, <2>3, <2>4, <2>5
<1>3. /\ jobs \in Seq(Job) /\ Len(jobs) \in Nat /\ DOMAIN jobs = 1..Len(jobs)
      /\ Len(jobs) <= MaxJobs
  BY DEF FleetInv, JobInv
<1>4. \A j \in DOMAIN jobs : /\ j \in 1..MaxJobs /\ event[j] # "none" /\ completions[j] \in Nat
                             /\ event[j] \in {"none", "queued", "updated", "lost", "done"}
                             /\ jobs[j] \in Job
  BY <1>3 DEF FleetInv, JobInv, JobsTraced
<1>5. RolloutsExplained
  BY <1>3, <1>4 DEF FleetInv, JobInv, JobsTraced, RolloutsExplained
<1>6. FleetListed
  <2>1. ASSUME fleet = "pgx", NEW a \in Serials, "completed" \in PortalListOTAJobs(a)
        PROVE  GetAsset(a) /\ \E j \in DOMAIN jobs :
                     jobs[j].asset = a /\ event[j] \in {"queued", "updated", "done"}
    <3>1. a # "" /\ "completed" \in JobRows(a)
      BY <2>1 DEF PortalListOTAJobs, RPCListOTAJobs, ServiceJobs
    <3>2. PICK j \in DOMAIN jobs : jobs[j].asset = a /\ jobs[j].status = "completed"
      BY <3>1 DEF JobRows
    <3>3. jobs[j].asset \in assets /\ event[j] # "lost"
      BY <2>1, <3>2 DEF FleetInv, JobInv, JobsTraced
    <3> QED BY <1>4, <2>1, <3>1, <3>2, <3>3 DEF GetAsset, AssetRow
  <2>2. ASSUME NEW z \in Zones, NEW n \in {-1, 0, 1, 6, 101}
        PROVE  StreamEnvironmentalTelemetry(z, n) <= SampleCount(n)
    BY <2>2, StreamEnds DEF FleetInv
  <2>3. fleet = "pgx" => /\ PortalListAssets = assets
                         /\ PortalListFirmware = {"error"} /\ releases = {Seeded}
                         /\ ListMaintenanceLogs("desk") = logs["desk"]
    BY DEF FleetInv, JobInv, PortalListAssets, RPCListAssets, ListAssets, AssetRows,
           PortalListFirmware, RPCListFirmware, ServiceReleases, ListMaintenanceLogs, LogRows
  <2> QED BY <2>1, <2>2, <2>3 DEF FleetListed
<1> QED BY <1>1, <1>2, <1>5, <1>6 DEF FleetExplained


(* A step that leaves the phone's logs alone. *)
LEMMA LogRests ==
  ASSUME LogInv, UNCHANGED <<fleet, phone, sync, overlapped>>, faults \subseteq faults',
         logs' \in [Entries \cup {"desk"} -> Nat], \A e \in Entries : logs'[e] = logs[e]
  PROVE  LogInv'
<1>1. \A s \in Syncs : sync[s].batch \subseteq Entries
  BY DEF LogInv
<1>2. LogsTraced'
  BY <1>1 DEF LogInv, LogsTraced
<1>3. LogsAnswered'
  BY DEF LogInv, LogsAnswered
<1>4. LogsOnce'
  BY <1>1 DEF LogInv, LogsOnce
<1> QED BY <1>2, <1>3, <1>4 DEF LogInv

(* A step that leaves the rollouts alone. *)
LEMMA JobRests ==
  ASSUME JobInv, UNCHANGED <<fleet, releases, jobs, event, completions>>,
         faults \subseteq faults', assets' \subseteq Serials \cup {Seeded},
         fleet = "pgx" => assets \subseteq assets'
  PROVE  JobInv'
<1>1. JobsTraced'
  BY DEF JobInv, JobsTraced
<1> QED BY <1>1 DEF JobInv

(* Every fault is kept. *)
LEMMA FaultKept == ASSUME NEW f, Fault(f) PROVE faults \subseteq faults' /\ f \in faults'
  BY DEF Fault

(* A new asset. *)
LEMMA CreateAssetKeeps ==
  ASSUME FleetInv, NEW f \in AssetForm, CreateAsset(f) PROVE FleetInv'
<1>1. UNCHANGED <<fleet, releases, jobs, event, completions, phone, sync, logs, overlapped,
                  samples, faults>>
  BY DEF CreateAsset, otaVars, logVars
<1>2. f.serial \in Serials
  BY DEF CreateAsset, ValidAsset, AssetForm
<1>3. /\ assets' \subseteq assets \cup {f.serial}
      /\ fleet = "pgx" => assets \subseteq assets'
  BY DEF CreateAsset, BLLCreateAsset, RPCCreateAsset, InsertAsset, MapAsset
<1>4. JobInv'
  BY <1>1, <1>2, <1>3, JobRests DEF FleetInv, JobInv
<1>5. LogInv'
  BY <1>1, LogRests DEF FleetInv, LogInv
<1> QED BY <1>1, <1>4, <1>5 DEF FleetInv

(* The portal's release: the table takes none. *)
LEMMA CreateFirmwareKeeps ==
  ASSUME FleetInv, NEW v \in Versions, NEW url, NEW id, CreateFirmware(v, url, id)
  PROVE  FleetInv'
<1>1. UNCHANGED <<fleet, assets, jobs, event, completions, phone, sync, logs, overlapped,
                  samples, faults>>
  BY DEF CreateFirmware, logVars
<1>2. fleet # "pgx" /\ releases' = releases \cup {v}
  BY DEF CreateFirmware, RPCCreateFirmware, InsertRelease, MapRelease, PortalStatus
<1>3. JobsTraced'
  BY <1>1 DEF FleetInv, JobInv, JobsTraced
<1>4. JobInv'
  BY <1>1, <1>2, <1>3 DEF FleetInv, JobInv
<1>5. LogInv'
  BY <1>1, LogRests DEF FleetInv, LogInv
<1> QED BY <1>1, <1>4, <1>5 DEF FleetInv

LEMMA IngestKeeps ==
  ASSUME FleetInv, NEW z \in Zones, IngestEnvironmentalTelemetry(z) PROVE FleetInv'
<1>1. UNCHANGED <<fleet, assets, releases, jobs, event, completions, phone, sync, logs, overlapped,
                  faults>>
  BY DEF IngestEnvironmentalTelemetry, otaVars, logVars
<1>2. samples' = [samples EXCEPT ![z] = @ + 1]
  BY DEF IngestEnvironmentalTelemetry, Ingest, RecordTelemetry, MapTelemetry
<1>3. samples' \in [Zones -> Nat]
  BY <1>2 DEF FleetInv
<1> QED BY <1>1, <1>3, LogRests, JobRests DEF FleetInv, LogInv, JobInv

(* What a batch of the phone stores: PostgreSQL nothing, the map all. *)
LEMMA BatchStores ==
  ASSUME NEW B \in SUBSET Entries, fleet \in {"pgx", "map", "none"}
  PROVE  SyncLogs(ToJSON(B)) = IF fleet = "map" THEN B ELSE {}
<1> DEFINE lines == ToJSON(B)
<1>0. \A e \in B : /\ Line(e, Seeded, "name").asset = Seeded
                     /\ Line(e, Seeded, "name").technician = "name"
                     /\ Line(e, Seeded, "name").entry = e
  BY DEF Line
<1>1. \A l \in lines : l.asset = Seeded /\ l.asset # "" /\ l.technician = "name"
  <2> SUFFICES ASSUME NEW l \in lines
               PROVE  l.asset = Seeded /\ l.asset # "" /\ l.technician = "name"
    OBVIOUS
  <2>1. PICK e \in B : l = Line(e, Seeded, "name")
    BY DEF ToJSON
  <2>2. Seeded # ""
    BY DEF Seeded
  <2> QED BY <1>0, <2>1, <2>2
<1>2. {l.entry : l \in lines} = B
  <2>1. \A l \in lines : l.entry \in B
    BY <1>0 DEF ToJSON
  <2>2. \A e \in B : \E l \in lines : l.entry = e
    BY <1>0 DEF ToJSON
  <2> HIDE DEF lines
  <2> QED BY <2>1, <2>2
<1>3. lines = {} <=> B = {}
  BY DEF ToJSON
<1> HIDE DEF lines
<1>4. SyncLogs(lines) = IF fleet = "map" THEN B ELSE {}
  BY <1>1, <1>2, <1>3 DEF SyncLogs, BLLSyncOfflineLogs, RPCSyncOfflineLogs, SyncMaintenanceLogs,
     BatchInsert, MapInsert
<1> QED BY <1>4 DEF lines

LEMMA DeskStores ==
  ASSUME NEW a PROVE SyncLogs({Line("desk", a, "id")}) \subseteq {"desk"}
<1> DEFINE lines == {Line("desk", a, "id")}
<1>1. {l.entry : l \in lines} = {"desk"}
  BY DEF Line
<1> HIDE DEF lines
<1>2. SyncLogs(lines) \subseteq {"desk"}
  BY <1>1 DEF SyncLogs, BLLSyncOfflineLogs, RPCSyncOfflineLogs, SyncMaintenanceLogs,
     BatchInsert, MapInsert
<1> QED BY <1>2 DEF lines

(* A log typed at a desk is not the phone's. *)
LEMMA DeskLogKeeps ==
  ASSUME FleetInv, NEW a \in Serials \cup {Seeded}, DeskLog(a) PROVE FleetInv'
<1>1. UNCHANGED <<fleet, assets, releases, jobs, event, completions, phone, sync, overlapped,
                  samples, faults>>
  BY DEF DeskLog, otaVars
<1>2. PICK S : S \subseteq {"desk"}
              /\ logs' = [e \in DOMAIN logs |-> IF e \in S THEN logs[e] + 1 ELSE logs[e]]
  BY DeskStores DEF DeskLog, Stored
<1>3. logs' \in [Entries \cup {"desk"} -> Nat] /\ \A e \in Entries : logs'[e] = logs[e]
  <2>1. DOMAIN logs = Entries \cup {"desk"} /\ \A e \in DOMAIN logs : logs[e] \in Nat
    BY DEF FleetInv, LogInv
  <2>2. \A e \in Entries : e \notin S
    BY <1>2
  <2> QED BY <1>2, <2>1, <2>2
<1> QED BY <1>1, <1>3, LogRests, JobRests DEF FleetInv, JobInv


(* The phone: a log is written ... *)
LEMMA SaveLogKeeps ==
  ASSUME FleetInv, NEW e \in Entries, SaveLog(e) PROVE FleetInv'
<1>1. /\ phone[e] = "none" /\ phone' = [phone EXCEPT ![e] = "unsynced"]
      /\ UNCHANGED <<fleet, assets, releases, jobs, event, completions, sync, logs, overlapped,
                     samples, faults>>
  BY DEF SaveLog, otaVars
<1>2. /\ phone' \in [Entries -> {"none", "unsynced", "synced"}]
      /\ phone'[e] = "unsynced" /\ \A d \in Entries \ {e} : phone'[d] = phone[d]
  BY <1>1 DEF FleetInv, LogInv
<1>3. logs[e] = 0 /\ \A s \in Syncs : e \notin sync[s].batch /\ sync[s].batch \subseteq Entries
  BY <1>1 DEF FleetInv, LogInv, LogsTraced
<1>4. LogsTraced'
  BY <1>1, <1>2, <1>3 DEF FleetInv, LogInv, LogsTraced
<1>5. LogsAnswered'
  BY <1>1, <1>2, <1>3 DEF FleetInv, LogInv, LogsAnswered
<1>6. LogsOnce'
  BY <1>1, <1>2, <1>3 DEF FleetInv, LogInv, LogsOnce
<1>7. LogInv'
  BY <1>1, <1>2, <1>4, <1>5, <1>6 DEF FleetInv, LogInv
<1> QED BY <1>1, <1>7, JobRests DEF FleetInv, JobInv

(* ... a synchronisation starts ... *)
LEMMA SyncPendingLogsKeeps ==
  ASSUME FleetInv, NEW s \in Syncs, SyncPendingLogs(s) PROVE FleetInv'
<1>1. /\ sync[s].batch = {} /\ sync' = [sync EXCEPT ![s] = [step |-> "post", batch |-> UnsyncedLogs]]
      /\ overlapped' = (overlapped \/ \E t \in Syncs : sync[t].batch \cap UnsyncedLogs # {})
      /\ UNCHANGED <<fleet, assets, releases, jobs, event, completions, phone, logs,
                     samples, faults>>
  BY DEF SyncPendingLogs, otaVars, Idle
<1>2. UnsyncedLogs \in SUBSET Entries /\ \A e \in UnsyncedLogs : phone[e] = "unsynced"
  BY DEF UnsyncedLogs
<1>3. /\ sync' \in [Syncs -> [step: {"idle", "post", "answered", "failed"}, batch: SUBSET Entries]]
      /\ sync'[s].step = "post" /\ sync'[s].batch = UnsyncedLogs
      /\ \A t \in Syncs \ {s} : sync'[t] = sync[t]
  BY <1>1, <1>2 DEF FleetInv, LogInv
<1>4. LogsTraced'
  BY <1>1, <1>2, <1>3 DEF FleetInv, LogInv, LogsTraced
<1>5. LogsAnswered'
  BY <1>1, <1>3 DEF FleetInv, LogInv, LogsAnswered
<1>6. LogsOnce'
  <2> SUFFICES ASSUME ~overlapped', faults \cap Answers = {}
               PROVE  /\ \A e \in Entries : logs[e] <= 1
                      /\ \A t \in Syncs : \A e \in sync'[t].batch :
                            /\ phone[e] = "unsynced"
                            /\ sync'[t].step \in {"post", "failed"} => logs[e] = 0
                            /\ \A u \in Syncs \ {t} : e \notin sync'[u].batch
    BY <1>1 DEF LogsOnce
  <2>1. ~overlapped /\ \A t \in Syncs : sync[t].batch \cap UnsyncedLogs = {}
    BY <1>1
  <2>2. /\ \A e \in Entries : logs[e] <= 1
        /\ \A t \in Syncs : \A e \in sync[t].batch :
              /\ phone[e] = "unsynced"
              /\ sync[t].step \in {"post", "failed"} => logs[e] = 0
              /\ \A u \in Syncs \ {t} : e \notin sync[u].batch
    BY <2>1 DEF FleetInv, LogInv, LogsOnce
  <2>3. \A e \in UnsyncedLogs : logs[e] = 0
    <3> SUFFICES ASSUME NEW e \in UnsyncedLogs, logs[e] # 0 PROVE FALSE
      OBVIOUS
    <3>1. logs[e] \in Nat /\ logs[e] > 0
      BY <1>2 DEF FleetInv, LogInv
    <3>2. PICK t \in Syncs : e \in sync[t].batch
      BY <1>2, <3>1 DEF FleetInv, LogInv, LogsAnswered
    <3> QED BY <2>1, <3>2
  <2> QED BY <1>2, <1>3, <2>1, <2>2, <2>3
<1>7. overlapped' \in BOOLEAN
  BY <1>1
<1>8. LogInv'
  BY <1>1, <1>3, <1>4, <1>5, <1>6, <1>7 DEF FleetInv, LogInv
<1> QED BY <1>1, <1>8, JobRests DEF FleetInv, JobInv

(* ... its batch is stored, whether the answer arrives or not ... *)
LEMMA PostLogsKeeps ==
  ASSUME FleetInv, NEW s \in Syncs, PostLogs(s) PROVE FleetInv'
<1> DEFINE B == IF fleet = "map" THEN sync[s].batch ELSE {}
<1>1. /\ sync[s].step = "post" /\ sync[s].batch \in SUBSET Entries
      /\ logs' = [e \in DOMAIN logs |-> IF e \in B THEN logs[e] + 1 ELSE logs[e]]
      /\ UNCHANGED <<fleet, assets, releases, jobs, event, completions, phone, overlapped, samples>>
  BY BatchStores DEF PostLogs, Stored, otaVars, FleetInv, LogInv
<1>2. PICK v \in {"answered", "failed"} :
         /\ sync' = [sync EXCEPT ![s].step = v]
         /\ \/ faults' = faults /\ (v = "failed" <=> B = {})
            \/ v = "failed" /\ Fault("answer")
  BY BatchStores DEF PostLogs, FleetInv, LogInv
<1>3. /\ sync' \in [Syncs -> [step: {"idle", "post", "answered", "failed"}, batch: SUBSET Entries]]
      /\ sync'[s].step = v /\ sync'[s].batch = sync[s].batch
      /\ \A t \in Syncs \ {s} : sync'[t] = sync[t]
  BY <1>2 DEF FleetInv, LogInv
<1>4. /\ faults \subseteq faults'
      /\ faults' \cap Answers = {} => faults \cap Answers = {} /\ (v = "failed" <=> B = {})
  BY <1>2, FaultKept DEF Answers
<1> DEFINE C == B
<1>5. /\ C \subseteq sync[s].batch /\ (C # {} => C = sync[s].batch)
      /\ fleet = "pgx" => C = {}
  OBVIOUS
<1>6. /\ logs' \in [Entries \cup {"desk"} -> Nat]
      /\ \A e \in Entries : /\ logs[e] \in Nat
                            /\ e \in C => logs'[e] = logs[e] + 1
                            /\ e \notin C => logs'[e] = logs[e]
  BY <1>1 DEF FleetInv, LogInv
<1>7. v = "answered" => C # {}
  BY <1>2, FaultKept
<1>8. faults' \cap Answers = {} => (v = "failed" <=> C = {})
  BY <1>4
<1> HIDE DEF B, C
<1>9. \A t \in Syncs : sync[t].batch \subseteq Entries /\ sync'[t].batch = sync[t].batch
  BY <1>3 DEF FleetInv, LogInv
<1>10. LogsTraced'
  <2> SUFFICES /\ \A e \in Entries : /\ phone[e] = "none" => logs'[e] = 0
                                     /\ phone[e] = "synced" => logs'[e] > 0
                                     /\ fleet = "pgx" => logs'[e] = 0
               /\ \A t \in Syncs : \A e \in sync[t].batch :
                      phone[e] # "none" /\ (sync'[t].step = "answered" => logs'[e] > 0)
    BY <1>1, <1>9 DEF LogsTraced
  <2>1. \A e \in C : phone[e] # "none"
    BY <1>5 DEF FleetInv, LogInv, LogsTraced
  <2>2. \A e \in Entries : /\ phone[e] = "none" => logs'[e] = 0
                           /\ phone[e] = "synced" => logs'[e] > 0
                           /\ fleet = "pgx" => logs'[e] = 0
    BY <1>5, <1>6, <2>1 DEF FleetInv, LogInv, LogsTraced
  <2>3. \A t \in Syncs : \A e \in sync[t].batch :
           phone[e] # "none" /\ (sync'[t].step = "answered" => logs'[e] > 0)
    BY <1>3, <1>5, <1>6, <1>7, <1>9 DEF FleetInv, LogInv, LogsTraced
  <2> QED BY <2>2, <2>3
<1>11. LogsAnswered'
  <2> SUFFICES ASSUME faults' \cap Answers = {}, NEW e \in Entries, phone[e] = "unsynced", logs'[e] > 0
               PROVE  \E t \in Syncs : sync'[t].step = "answered" /\ e \in sync'[t].batch
    BY <1>1 DEF LogsAnswered
  <2>1. CASE e \in C
    BY <1>2, <1>3, <1>5, <1>8, <2>1
  <2>2. CASE e \notin C
    <3>1. PICK t \in Syncs : sync[t].step = "answered" /\ e \in sync[t].batch
      BY <1>4, <1>6, <2>2 DEF FleetInv, LogInv, LogsAnswered
    <3>2. t # s
      BY <1>1, <3>1
    <3> QED BY <1>3, <3>1, <3>2
  <2> QED BY <2>1, <2>2
<1>12. LogsOnce'
  <2> SUFFICES ASSUME ~overlapped, faults' \cap Answers = {}
               PROVE  /\ \A e \in Entries : logs'[e] <= 1
                      /\ \A t \in Syncs : \A e \in sync[t].batch :
                            /\ phone[e] = "unsynced"
                            /\ sync'[t].step \in {"post", "failed"} => logs'[e] = 0
                            /\ \A u \in Syncs \ {t} : e \notin sync[u].batch
    BY <1>1, <1>9 DEF LogsOnce
  <2>1. /\ \A e \in Entries : logs[e] <= 1
        /\ \A t \in Syncs : \A e \in sync[t].batch :
              /\ phone[e] = "unsynced"
              /\ sync[t].step \in {"post", "failed"} => logs[e] = 0
              /\ \A u \in Syncs \ {t} : e \notin sync[u].batch
    BY <1>4 DEF FleetInv, LogInv, LogsOnce
  <2>2. \A e \in C : logs[e] = 0 /\ \A u \in Syncs \ {s} : e \notin sync[u].batch
    BY <1>1, <1>5, <2>1
  <2>3. \A e \in Entries : logs'[e] <= 1
    BY <1>6, <2>1, <2>2
  <2>4. \A t \in Syncs : \A e \in sync[t].batch :
            sync'[t].step \in {"post", "failed"} => logs'[e] = 0
    BY <1>1, <1>2, <1>3, <1>5, <1>6, <1>8, <1>9, <2>1, <2>2
  <2> QED BY <2>1, <2>3, <2>4
<1>13. LogInv'
  BY <1>1, <1>3, <1>6, <1>10, <1>11, <1>12 DEF FleetInv, LogInv
<1> QED BY <1>1, <1>4, <1>13, JobRests DEF FleetInv, JobInv

(* ... and the logs of an answered batch are marked. *)
LEMMA MarkAsSyncedKeeps ==
  ASSUME FleetInv, NEW s \in Syncs, MarkAsSynced(s) PROVE FleetInv'
<1>1. /\ phone' = [e \in Entries |-> IF e \in sync[s].batch /\ sync[s].step = "answered"
                                     THEN "synced" ELSE phone[e]]
      /\ sync' = [sync EXCEPT ![s] = Idle]
      /\ UNCHANGED <<fleet, assets, releases, jobs, event, completions, logs, overlapped,
                     samples, faults>>
  BY DEF MarkAsSynced, otaVars
<1>2. /\ sync' \in [Syncs -> [step: {"idle", "post", "answered", "failed"}, batch: SUBSET Entries]]
      /\ sync'[s].step = "idle" /\ sync'[s].batch = {}
      /\ \A t \in Syncs \ {s} : sync'[t] = sync[t]
  BY <1>1 DEF FleetInv, LogInv, Idle
<1>3. phone' \in [Entries -> {"none", "unsynced", "synced"}]
  BY <1>1 DEF FleetInv, LogInv
<1>4. \A t \in Syncs : sync[t].batch \subseteq Entries
  BY DEF FleetInv, LogInv
<1>5. LogsTraced'
  BY <1>1, <1>2, <1>4 DEF FleetInv, LogInv, LogsTraced
<1>6. LogsAnswered'
  BY <1>1, <1>2 DEF FleetInv, LogInv, LogsAnswered
<1>7. LogsOnce'
  BY <1>1, <1>2, <1>4 DEF FleetInv, LogInv, LogsOnce
<1>8. LogInv'
  BY <1>1, <1>2, <1>3, <1>5, <1>6, <1>7 DEF FleetInv, LogInv
<1> QED BY <1>1, <1>8, JobRests DEF FleetInv, JobInv

(* The app is closed. *)
LEMMA CloseAppKeeps ==
  ASSUME FleetInv, CloseApp PROVE FleetInv'
<1>1. /\ sync' = [s \in Syncs |-> Idle] /\ Fault("closed")
      /\ UNCHANGED <<fleet, assets, releases, jobs, event, completions, phone, logs, overlapped,
                     samples>>
  BY DEF CloseApp, otaVars
<1>2. /\ sync' \in [Syncs -> [step: {"idle", "post", "answered", "failed"}, batch: SUBSET Entries]]
      /\ \A s \in Syncs : sync'[s].step = "idle" /\ sync'[s].batch = {}
  BY <1>1 DEF Idle
<1>3. faults \subseteq faults' /\ faults' \cap Answers # {}
  BY <1>1, FaultKept DEF Answers
<1>4. LogsTraced'
  BY <1>1, <1>2 DEF FleetInv, LogInv, LogsTraced
<1>5. LogsAnswered' /\ LogsOnce'
  BY <1>3 DEF LogsAnswered, LogsOnce
<1>6. LogInv'
  BY <1>1, <1>2, <1>4, <1>5 DEF FleetInv, LogInv
<1> QED BY <1>1, <1>3, <1>6, JobRests DEF FleetInv, JobInv


(* The jobs of a rollout: one for each asset, of the release and status it  *)
(* was triggered with.                                                     *)
LEMMA NewJobsAre ==
  ASSUME NEW A \in SUBSET (Serials \cup {Seeded}), NEW v \in Versions \cup {Seeded},
         NEW st \in {"queued", "pending"}
  PROVE  /\ NewJobs(A, v, st) \in Seq(Job)
         /\ \A i \in 1..Len(NewJobs(A, v, st)) :
               NewJobs(A, v, st)[i].asset \in A /\ NewJobs(A, v, st)[i].status = st
<1>1. IsFiniteSet(A)
  BY FS_Subset, FS_AddElement
<1> DEFINE n == Cardinality(A)  order == SetToSeq(A)
<1>2. n \in Nat /\ ExistsBijection(1..n, A)
  BY <1>1, FS_CardinalityType
<1>3. \E f \in [1..n -> A] : IsInjective(f)
  BY <1>2 DEF ExistsBijection, Bijection, Injection, IsInjective
<1>4. order \in [1..n -> A]
  BY <1>3 DEF SetToSeq
<1> HIDE DEF n, order
<1> DEFINE new == [i \in DOMAIN order |-> [asset |-> order[i], release |-> v, status |-> st]]
<1>5. new \in [1..n -> Job]
  BY <1>4 DEF Job
<1>6. new \in Seq(Job) /\ Len(new) = n
  BY <1>2, <1>5
<1>7. \A i \in 1..n : new[i].asset \in A /\ new[i].status = st
  BY <1>4
<1>8. NewJobs(A, v, st) = new
  BY DEF NewJobs, order
<1> HIDE DEF new
<1> QED BY <1>6, <1>7, <1>8

(* A rollout: the new jobs are appended, each with its event. *)
LEMMA TriggerOTAKeeps ==
  ASSUME FleetInv, NEW A \in SUBSET (Serials \cup {Seeded}), NEW v \in Versions \cup {Seeded},
         TriggerOTA(A, v)
  PROVE  FleetInv'
<1>1. UNCHANGED <<fleet, assets, releases, completions, phone, sync, logs, overlapped, samples>>
  BY DEF TriggerOTA, logVars
<1> DEFINE new == IF fleet = "none" THEN MadeUpJobs(A, v) ELSE RPCCreateOTAJob(A, v)
<1>2. /\ new # <<>> /\ Len(jobs) + Len(new) <= MaxJobs /\ jobs' = jobs \o new
      /\ \E L \in SUBSET ((Len(jobs) + 1)..(Len(jobs) + Len(new))) :
            /\ event' = [j \in 1..MaxJobs |->
                            IF j \in L THEN "lost"
                            ELSE IF j \in (Len(jobs) + 1)..(Len(jobs) + Len(new)) THEN "queued"
                            ELSE event[j]]
            /\ IF L = {} THEN UNCHANGED faults ELSE Fault("publish")
  BY DEF TriggerOTA, TriggerOTARollout
<1>3. /\ new \in Seq(Job)
      /\ \A i \in 1..Len(new) :
            /\ fleet = "pgx" => new[i].status = "pending" /\ new[i].asset \in assets
            /\ fleet = "none" => new[i].status = "queued"
  <2>1. fleet \in {"pgx", "map", "none"}
    BY DEF FleetInv, LogInv
  <2>2. CASE fleet = "none"
    BY <2>2, NewJobsAre DEF MadeUpJobs
  <2>3. CASE fleet = "map"
    BY <2>3, NewJobsAre DEF RPCCreateOTAJob, TriggerOTAUpdate, MapJobs
  <2>4. CASE fleet = "pgx"
    <3>1. A \subseteq assets /\ new = NewJobs(A, v, "pending")
      BY <1>2, <2>4 DEF RPCCreateOTAJob, TriggerOTAUpdate, InsertJobs
    <3>2. /\ NewJobs(A, v, "pending") \in Seq(Job)
          /\ \A i \in 1..Len(NewJobs(A, v, "pending")) :
                /\ NewJobs(A, v, "pending")[i].asset \in A
                /\ NewJobs(A, v, "pending")[i].status = "pending"
      BY NewJobsAre
    <3> HIDE DEF new
    <3> QED BY <2>4, <3>1, <3>2
  <2> QED BY <2>1, <2>2, <2>3, <2>4
<1> HIDE DEF new
<1> DEFINE old == Len(jobs)  all == Len(jobs) + Len(new)
<1>4. /\ jobs \in Seq(Job) /\ old \in Nat /\ Len(new) \in Nat /\ all \in Nat
      /\ DOMAIN jobs = 1..old
  BY <1>3 DEF FleetInv, JobInv
<1>5. /\ jobs' \in Seq(Job) /\ Len(jobs') = all /\ DOMAIN jobs' = 1..all
      /\ \A j \in 1..old : jobs'[j] = jobs[j]
      /\ \A j \in (old + 1)..all : j - old \in 1..Len(new) /\ jobs'[j] = new[j - old]
  BY <1>2, <1>3, <1>4
<1>6. PICK L \in SUBSET ((old + 1)..all) :
            /\ event' = [j \in 1..MaxJobs |-> IF j \in L THEN "lost"
                                              ELSE IF j \in (old + 1)..all THEN "queued"
                                              ELSE event[j]]
            /\ IF L = {} THEN UNCHANGED faults ELSE Fault("publish")
  BY <1>2
<1>7. faults \subseteq faults' /\ (L # {} => "publish" \in faults') /\ all <= MaxJobs
  <2>1. CASE L = {}
    BY <1>2, <1>6, <2>1
  <2>2. CASE L # {}
    BY <1>2, <1>6, <2>2, FaultKept
  <2> QED BY <2>1, <2>2
<1>8. /\ event' \in [1..MaxJobs -> {"none", "queued", "updated", "lost", "done"}]
      /\ \A j \in 1..MaxJobs :
            /\ j \in (old + 1)..all => event'[j] \in {"lost", "queued"}
            /\ j \notin (old + 1)..all => event'[j] = event[j]
            /\ event'[j] = "lost" => event[j] = "lost" \/ L # {}
  BY <1>6 DEF FleetInv, JobInv
<1> HIDE DEF old, all
<1>9. \A j \in 1..MaxJobs :
          /\ event'[j] # "none" <=> j <= Len(jobs')
          /\ event'[j] = "lost" => "publish" \in faults'
          /\ event'[j] = "none" => completions'[j] = 0
          /\ event'[j] = "done" => completions'[j] > 0
          /\ fleet' = "none" => event'[j] \notin {"updated", "done"} /\ completions'[j] = 0
          /\ "worker" \notin faults' => IF event'[j] = "done" THEN completions'[j] <= 1
                                                             ELSE completions'[j] = 0
  <2> SUFFICES ASSUME NEW j \in 1..MaxJobs
      PROVE /\ event'[j] # "none" <=> j <= Len(jobs')
            /\ event'[j] = "lost" => "publish" \in faults'
            /\ event'[j] = "none" => completions'[j] = 0
            /\ event'[j] = "done" => completions'[j] > 0
            /\ fleet' = "none" => event'[j] \notin {"updated", "done"} /\ completions'[j] = 0
            /\ "worker" \notin faults' => IF event'[j] = "done" THEN completions'[j] <= 1
                                                               ELSE completions'[j] = 0
    OBVIOUS
  <2>1. /\ event[j] # "none" <=> j <= old
        /\ event[j] = "lost" => "publish" \in faults
        /\ event[j] = "none" => completions[j] = 0
        /\ event[j] = "done" => completions[j] > 0
        /\ fleet = "none" => event[j] \notin {"updated", "done"} /\ completions[j] = 0
        /\ "worker" \notin faults => IF event[j] = "done" THEN completions[j] <= 1
                                                          ELSE completions[j] = 0
    BY DEF FleetInv, JobInv, JobsTraced, old
  <2>2. completions[j] \in Nat /\ j \in Int
    BY DEF FleetInv, JobInv
  <2>3. CASE j \in (old + 1)..all
    <3>1. event[j] = "none" /\ completions[j] = 0 /\ j <= all
      BY <1>4, <2>1, <2>2, <2>3
    <3>2. event'[j] \in {"lost", "queued"} /\ (event'[j] = "lost" => L # {})
      BY <1>8, <2>3, <3>1
    <3> QED BY <1>1, <1>5, <1>7, <3>1, <3>2
  <2>4. CASE j \notin (old + 1)..all
    <3>1. event'[j] = event[j] /\ (j <= all <=> j <= old)
      BY <1>4, <1>8, <2>2, <2>4 DEF old, all
    <3> QED BY <1>1, <1>5, <1>7, <2>1, <3>1
  <2> QED BY <2>3, <2>4
<1>10. \A j \in DOMAIN jobs' :
          /\ fleet' = "pgx" =>
                /\ jobs'[j].status \in {"pending", "completed"} /\ jobs'[j].asset \in assets'
                /\ event'[j] \in {"updated", "done"} => jobs'[j].status = "completed"
                /\ event'[j] = "lost" => jobs'[j].status = "pending"
          /\ fleet' = "none" => jobs'[j].status = "queued"
  <2> SUFFICES ASSUME NEW j \in 1..all
      PROVE /\ fleet = "pgx" =>
                /\ jobs'[j].status \in {"pending", "completed"} /\ jobs'[j].asset \in assets
                /\ event'[j] \in {"updated", "done"} => jobs'[j].status = "completed"
                /\ event'[j] = "lost" => jobs'[j].status = "pending"
            /\ fleet = "none" => jobs'[j].status = "queued"
    BY <1>1, <1>5
  <2>1. j \in 1..MaxJobs
    BY <1>2, <1>4, <1>7 DEF FleetInv, JobInv
  <2>2. CASE j \in (old + 1)..all
    <3>1. jobs'[j] = new[j - old] /\ j - old \in 1..Len(new)
      BY <1>5, <2>2
    <3>2. event'[j] \in {"lost", "queued"}
      BY <1>8, <2>1, <2>2
    <3> QED BY <1>3, <3>1, <3>2
  <2>3. CASE j \notin (old + 1)..all
    <3>1. j \in 1..old /\ j \in DOMAIN jobs
      BY <1>4, <2>3 DEF all
    <3>2. event'[j] = event[j] /\ jobs'[j] = jobs[j]
      BY <1>5, <1>8, <2>1, <2>3, <3>1
    <3> QED BY <3>1, <3>2 DEF FleetInv, JobInv, JobsTraced
  <2> QED BY <2>2, <2>3
<1>11. JobsTraced'
  BY <1>9, <1>10 DEF JobsTraced
<1>12. JobInv'
  BY <1>1, <1>5, <1>7, <1>8, <1>11 DEF FleetInv, JobInv
<1>13. LogInv'
  BY <1>1, <1>7, LogRests DEF FleetInv, LogInv
<1> QED BY <1>1, <1>12, <1>13 DEF FleetInv

(* A completed job changes its status only. *)
LEMMA CompletedJob ==
  ASSUME NEW js \in Seq(Job), NEW k \in 1..Len(js)
  PROVE  LET all == [js EXCEPT ![k].status = "completed"]
         IN /\ all \in Seq(Job) /\ Len(all) = Len(js) /\ DOMAIN all = DOMAIN js
            /\ all[k].asset = js[k].asset /\ all[k].status = "completed"
            /\ \A j \in 1..Len(js) : j # k => all[j] = js[j]
<1> DEFINE updated == [js[k] EXCEPT !.status = "completed"]
<1>1. js[k] \in Job
  OBVIOUS
<1>2. updated \in Job /\ updated.asset = js[k].asset /\ updated.status = "completed"
  BY <1>1 DEF Job
<1> HIDE DEF updated
<1> DEFINE all == [js EXCEPT ![k] = updated]
<1>3. /\ all \in Seq(Job) /\ Len(all) = Len(js) /\ DOMAIN all = DOMAIN js
      /\ all[k] = updated /\ \A j \in 1..Len(js) : j # k => all[j] = js[j]
  BY <1>2
<1>4. all = [js EXCEPT ![k].status = "completed"]
  BY DEF updated
<1> HIDE DEF all
<1> QED BY <1>2, <1>3, <1>4

(* The worker completes a job, the one of its event over PostgreSQL, or    *)
(* fails and leaves the event queued.                                      *)
LEMMA HandleOTATriggeredKeeps ==
  ASSUME FleetInv, NEW j \in 1..MaxJobs, HandleOTATriggered(j) PROVE FleetInv'
<1>1. UNCHANGED <<fleet, assets, releases, completions, phone, sync, logs, overlapped, samples>>
  BY DEF HandleOTATriggered, logVars
<1>2. event[j] = "queued"
  BY DEF HandleOTATriggered
<1>3. faults \subseteq faults' /\ LogInv'
  <2>1. faults \subseteq faults'
    BY FaultKept DEF HandleOTATriggered
  <2> QED BY <1>1, <2>1, LogRests DEF FleetInv, LogInv
<1>4. CASE Fault("update") /\ UNCHANGED <<jobs, event>>
  <2>1. JobInv'
    BY <1>1, <1>3, <1>4, JobRests DEF FleetInv, JobInv
  <2> QED BY <1>1, <1>3, <2>1 DEF FleetInv
<1>5. CASE BLLUpdateOTAJobStatus(j) /\ UNCHANGED faults /\ event' = [event EXCEPT ![j] = "updated"]
  <2>1. /\ event \in [1..MaxJobs -> {"none", "queued", "updated", "lost", "done"}]
        /\ completions \in [1..MaxJobs -> Nat]
        /\ jobs \in Seq(Job) /\ Len(jobs) \in Nat /\ DOMAIN jobs = 1..Len(jobs)
        /\ Len(jobs) <= MaxJobs
    BY DEF FleetInv, JobInv
  <2>2. j \in 1..Len(jobs)
    <3>1. event[j] # "none" <=> j <= Len(jobs)
      BY DEF FleetInv, JobInv, JobsTraced
    <3> QED BY <1>2, <2>1, <3>1
  <2>3. PICK k \in 1..Len(jobs) :
            /\ fleet # "none" /\ (fleet = "pgx" => k = j)
            /\ jobs' = [jobs EXCEPT ![k].status = "completed"]
    <3>1. fleet # "none" /\ RPCUpdateOTAJobStatus(j)
      BY <1>5 DEF BLLUpdateOTAJobStatus
    <3>2. CASE fleet = "pgx"
      BY <2>2, <3>1, <3>2 DEF RPCUpdateOTAJobStatus, UpdateJobRow
    <3>3. CASE fleet # "pgx"
      BY <2>1, <3>1, <3>3 DEF RPCUpdateOTAJobStatus, UpdateMapJob
    <3> QED BY <3>2, <3>3
  <2>4. /\ jobs' \in Seq(Job) /\ Len(jobs') = Len(jobs) /\ DOMAIN jobs' = 1..Len(jobs)
        /\ jobs'[k].asset = jobs[k].asset /\ jobs'[k].status = "completed"
        /\ \A i \in 1..Len(jobs) : i # k => jobs'[i] = jobs[i]
    BY <2>1, <2>3, CompletedJob
  <2>5. /\ event' \in [1..MaxJobs -> {"none", "queued", "updated", "lost", "done"}]
        /\ event'[j] = "updated" /\ \A i \in 1..MaxJobs : i # j => event'[i] = event[i]
    BY <1>5, <2>1
  <2>6. JobsTraced'
    <3>1. ASSUME NEW i \in 1..MaxJobs
          PROVE  /\ event'[i] # "none" <=> i <= Len(jobs')
                 /\ event'[i] = "lost" => "publish" \in faults'
                 /\ event'[i] = "none" => completions'[i] = 0
                 /\ event'[i] = "done" => completions'[i] > 0
                 /\ fleet' = "none" => event'[i] \notin {"updated", "done"} /\ completions'[i] = 0
                 /\ "worker" \notin faults' => IF event'[i] = "done" THEN completions'[i] <= 1
                                                                   ELSE completions'[i] = 0
      <4>1. CASE i = j
        BY <1>1, <1>2, <1>5, <2>2, <2>3, <2>4, <2>5, <4>1 DEF FleetInv, JobInv, JobsTraced
      <4>2. CASE i # j
        BY <1>1, <1>5, <2>4, <2>5, <4>2 DEF FleetInv, JobInv, JobsTraced
      <4> QED BY <4>1, <4>2
    <3>2. ASSUME NEW i \in 1..Len(jobs)
          PROVE  /\ fleet = "pgx" =>
                    /\ jobs'[i].status \in {"pending", "completed"} /\ jobs'[i].asset \in assets
                    /\ event'[i] \in {"updated", "done"} => jobs'[i].status = "completed"
                    /\ event'[i] = "lost" => jobs'[i].status = "pending"
                 /\ fleet = "none" => jobs'[i].status = "queued"
      <4>0. i \in 1..MaxJobs /\ i \in DOMAIN jobs
        BY <2>1
      <4>1. CASE fleet = "pgx" /\ i = j
        BY <2>3, <2>4, <2>5, <4>0, <4>1 DEF FleetInv, JobInv, JobsTraced
      <4>2. CASE fleet = "pgx" /\ i # j
        BY <2>3, <2>4, <2>5, <4>0, <4>2 DEF FleetInv, JobInv, JobsTraced
      <4> QED BY <2>3, <4>1, <4>2
    <3> QED BY <1>1, <2>4, <3>1, <3>2 DEF JobsTraced
  <2>7. JobInv'
    BY <1>1, <2>1, <2>4, <2>5, <2>6 DEF FleetInv, JobInv
  <2> QED BY <1>1, <1>3, <2>7 DEF FleetInv
<1> QED BY <1>4, <1>5 DEF HandleOTATriggered

(* The completion is published, perhaps twice when the worker stops. *)
LEMMA CompleteOTAKeeps ==
  ASSUME FleetInv, NEW j \in 1..MaxJobs, CompleteOTA(j) PROVE FleetInv'
<1>1. /\ UNCHANGED <<fleet, assets, releases, jobs, phone, sync, logs, overlapped, samples>>
      /\ event[j] = "updated"
  BY DEF CompleteOTA, logVars
<1>2. /\ event \in [1..MaxJobs -> {"none", "queued", "updated", "lost", "done"}]
      /\ completions \in [1..MaxJobs -> Nat] /\ completions[j] \in Nat
  BY DEF FleetInv, JobInv
<1>3. PICK n \in {0, 1}, to \in {"done", "queued"} :
          /\ event' = [event EXCEPT ![j] = to]
          /\ completions' = [completions EXCEPT ![j] = @ + n]
          /\ faults \subseteq faults'
          /\ to = "done" => n = 1
          /\ to = "queued" => "worker" \in faults'
  BY FaultKept DEF CompleteOTA
<1>4. /\ event' \in [1..MaxJobs -> {"none", "queued", "updated", "lost", "done"}]
      /\ event'[j] = to /\ \A i \in 1..MaxJobs : i # j => event'[i] = event[i]
  BY <1>2, <1>3
<1>5. /\ completions' \in [1..MaxJobs -> Nat] /\ completions'[j] = completions[j] + n
      /\ \A i \in 1..MaxJobs : i # j => completions'[i] = completions[i]
  BY <1>2, <1>3
<1>6. LogInv'
  BY <1>1, <1>3, LogRests DEF FleetInv, LogInv
<1>7. JobsTraced'
  <2>1. ASSUME NEW i \in 1..MaxJobs
        PROVE  /\ event'[i] # "none" <=> i <= Len(jobs')
               /\ event'[i] = "lost" => "publish" \in faults'
               /\ event'[i] = "none" => completions'[i] = 0
               /\ event'[i] = "done" => completions'[i] > 0
               /\ fleet' = "none" => event'[i] \notin {"updated", "done"} /\ completions'[i] = 0
               /\ "worker" \notin faults' => IF event'[i] = "done" THEN completions'[i] <= 1
                                                                 ELSE completions'[i] = 0
    <3>1. CASE i = j
      <4>1. /\ j <= Len(jobs) /\ fleet # "none"
            /\ "worker" \notin faults => completions[j] = 0
        BY <1>1 DEF FleetInv, JobInv, JobsTraced
      <4> QED BY <1>1, <1>2, <1>3, <1>4, <1>5, <3>1, <4>1
    <3>2. CASE i # j
      BY <1>1, <1>3, <1>4, <1>5, <3>2 DEF FleetInv, JobInv, JobsTraced
    <3> QED BY <3>1, <3>2
  <2>2. ASSUME NEW i \in DOMAIN jobs
        PROVE  /\ fleet = "pgx" =>
                  /\ jobs[i].status \in {"pending", "completed"} /\ jobs[i].asset \in assets
                  /\ event'[i] \in {"updated", "done"} => jobs[i].status = "completed"
                  /\ event'[i] = "lost" => jobs[i].status = "pending"
               /\ fleet = "none" => jobs[i].status = "queued"
    <3>1. i \in 1..MaxJobs
      BY DEF FleetInv, JobInv
    <3> QED BY <1>1, <1>3, <1>4, <3>1 DEF FleetInv, JobInv, JobsTraced
  <2> QED BY <1>1, <2>1, <2>2 DEF JobsTraced
<1>8. JobInv'
  BY <1>1, <1>4, <1>5, <1>7 DEF FleetInv, JobInv
<1> QED BY <1>1, <1>6, <1>8 DEF FleetInv

(* Every step of the facilities service and of the phone keeps it. *)
LEMMA FleetKeeps == ASSUME FleetInv, [FacilitiesNext]_fleetVars PROVE FleetInv'
<1>1. CASE UNCHANGED fleetVars
  <2>1. UNCHANGED <<fleet, assets, releases, jobs, event, completions, phone, sync, logs,
                    overlapped, samples, faults>>
    BY <1>1 DEF fleetVars, otaVars, logVars
  <2> QED BY <2>1, LogRests, JobRests DEF FleetInv, LogInv, JobInv
<1>2. CASE FacilitiesNext
  BY <1>2, ZenonT(60), CreateAssetKeeps, SaveLogKeeps, SyncPendingLogsKeeps, PostLogsKeeps,
     MarkAsSyncedKeeps, CloseAppKeeps, DeskLogKeeps, CreateFirmwareKeeps, TriggerOTAKeeps,
     HandleOTATriggeredKeeps, CompleteOTAKeeps, IngestKeeps DEF FacilitiesNext
<1> QED BY <1>1, <1>2

(* Logs are stored twice or never, rollouts get stuck, and the portal's    *)
(* lists show something else than what is stored, for the listed reasons   *)
(* only: SyncEngine, HandleOTATriggered and the facilities service.        *)
THEOREM FleetIsExplained == FacilitiesSpec => []FleetExplained
<1>1. FacilitiesInit => FleetInv
  BY FleetInitInv
<1>2. FleetInv /\ [FacilitiesNext]_fleetVars => FleetInv'
  BY FleetKeeps
<1> QED BY <1>1, <1>2, FleetInvSuffices, PTL DEF FacilitiesSpec

-----------------------------------------------------------------------------
(***************************************************************************)
(* The help desk.                                                          *)
(***************************************************************************)
HIDE FacilitiesAssumption
USE TicketsAssumption

Issue == [ticket: Tickets, closed: BOOLEAN, copies: Nat]
Draft == [step: {"none", "insert", "created", "refused"}, repo: Repos, index: Nat,
          valid: BOOLEAN, urgent: BOOLEAN, mine: BOOLEAN]
TicketRow == [state: States \cup Asked \cup {"none"}, repo: Repos, index: Nat, mine: BOOLEAN]

TicketTypes ==
    /\ backend \in {"pgx", "mock"}
    /\ draft \in [Tickets -> Draft]
    /\ row \in [Tickets -> TicketRow]
    /\ opened \in Seq(Tickets)
    /\ issues \in [Repos -> Seq(Issue)]
    /\ syncing \subseteq Tickets
    /\ writing \in [Tickets -> [step: {"none", "insert"}, internal: BOOLEAN]]
    /\ stored \in [Tickets -> [public: Nat, internal: Nat]]
    /\ shown \in [Watches -> SUBSET Tickets]
    /\ lost \subseteq Calls \X Tickets
    /\ reopened \subseteq Tickets

(* A ticket has a row once it is created, and is then listed; until then   *)
(* nobody comments on it.                                                  *)
RowsKept ==
    /\ \A t \in Tickets :
          /\ row[t].state = "none" => row[t] = NoRow
          /\ draft[t].step = "created" <=> row[t].state # "none"
          /\ row[t].state # "none" => \E i \in DOMAIN opened : opened[i] = t
          /\ row[t].state = "none" => stored[t].public = 0 /\ writing[t].step = "none"
    /\ \A i \in DOMAIN opened : row[opened[i]].state # "none"

(* The issue of a row, and of a creation under way, is the ticket's. *)
IssuesLinked ==
    \A t \in Tickets :
        /\ row[t].index # 0 => /\ row[t].index \in DOMAIN issues[row[t].repo]
                               /\ issues[row[t].repo][row[t].index].ticket = t
        /\ draft[t].step = "insert" /\ draft[t].index # 0 =>
              /\ draft[t].index \in DOMAIN issues[draft[t].repo]
              /\ LET issue == issues[draft[t].repo][draft[t].index]
                 IN issue.ticket = t /\ issue.closed = FALSE /\ issue.copies = 0

(* An issue is its ticket's, or left behind for a reason. *)
IssuesOwned ==
    \A p \in Repos : \A i \in DOMAIN issues[p] :
        LET t == issues[p][i].ticket
        IN \/ row[t].state # "none" /\ row[t].repo = p /\ row[t].index = i
           \/ draft[t].step = "insert" /\ draft[t].repo = p /\ draft[t].index = i
           \/ /\ draft[t].step = "refused"
              /\ \/ draft[t].valid = FALSE \/ CallFailed("row", t)
                 \/ \E u \in Tickets \ {t} : row[u].index = i /\ row[u].repo # p

(* What closing leaves. *)
ClosingsTraced ==
    \A t \in Tickets :
        /\ t \in syncing => row[t].index # 0 /\ (row[t].state = "closed" \/ t \in reopened)
        /\ row[t].index # 0 /\ row[t].state = "closed" /\ IssueOf(t).closed = FALSE =>
               t \in syncing \/ CallFailed("sync", t)
        /\ row[t].index # 0 /\ IssueOf(t).closed = TRUE /\ row[t].state # "closed" =>
               t \in reopened

Flying(t) == IF writing[t].step = "insert" /\ writing[t].internal = FALSE THEN 1 ELSE 0
CopiesTraced ==
    \A t \in Tickets : row[t].index # 0 =>
        /\ IssueOf(t).copies > stored[t].public + Flying(t) => CallFailed("comment", t)
        /\ IssueOf(t).copies < stored[t].public + Flying(t) => CallFailed("copy", t)

TicketInv ==
    /\ TicketTypes /\ RowsKept /\ IssuesLinked /\ IssuesOwned /\ ClosingsTraced /\ CopiesTraced

LEMMA TicketInitInv == TicketsInit => TicketInv
<1> SUFFICES ASSUME TicketsInit PROVE TicketInv
  OBVIOUS
<1>1. /\ \A t \in Tickets : /\ row[t].state = "none" /\ row[t] = NoRow /\ row[t].index = 0
                            /\ draft[t].step = "none"
                            /\ stored[t].public = 0 /\ writing[t].step = "none"
      /\ opened = <<>> /\ \A p \in Repos : DOMAIN issues[p] = {}
      /\ syncing = {}
  BY DEF TicketsInit, NoRow, Untold, Silent
<1>2. TicketTypes
  BY DEF TicketsInit, TicketTypes, NoRow, Untold, Silent, Draft, TicketRow, Repos, States
<1>3. RowsKept /\ IssuesLinked /\ IssuesOwned /\ ClosingsTraced /\ CopiesTraced
  BY <1>1 DEF RowsKept, IssuesLinked, IssuesOwned, ClosingsTraced, CopiesTraced
<1> QED BY <1>2, <1>3 DEF TicketInv

(* The rows are the tickets that have one. *)
LEMMA RowsAre ==
  ASSUME TicketInv
  PROVE  /\ TicketRows = {t \in Tickets : row[t].state # "none"}
         /\ \A t \in Tickets : HasRow(t) <=> row[t].state # "none"
<1>1. opened \in Seq(Tickets) /\ \A i \in DOMAIN opened : opened[i] \in Tickets
  BY DEF TicketInv, TicketTypes
<1>2. TicketRows = {t \in Tickets : row[t].state # "none"}
  BY <1>1 DEF TicketInv, RowsKept, TicketRows, Range
<1>3. NoRow.state = "none"
  BY DEF NoRow
<1>4. \A t \in Tickets : HasRow(t) <=> row[t].state # "none"
  BY <1>3 DEF TicketInv, RowsKept, HasRow
<1> QED BY <1>2, <1>4

(* A smaller set of rows is cut no earlier. *)
LEMMA PageGrows ==
  ASSUME NEW S \in SUBSET Tickets, NEW T \in SUBSET S
  PROVE  Page(S) \cap T \subseteq Page(T)
<1> SUFFICES ASSUME NEW t \in Page(S), t \in T, backend = "pgx"
             PROVE  Cardinality(T \cap Newer(t)) < PageSize
  BY DEF Page
<1>1. IsFiniteSet(S \cap Newer(t))
  BY FS_Subset
<1>2. /\ Cardinality(T \cap Newer(t)) <= Cardinality(S \cap Newer(t))
      /\ Cardinality(T \cap Newer(t)) \in Nat /\ Cardinality(S \cap Newer(t)) \in Nat
  BY <1>1, FS_Subset, FS_CardinalityType
<1>3. Cardinality(S \cap Newer(t)) < PageSize
  BY DEF Page
<1> QED BY <1>2, <1>3

LEMMA TicketInvSuffices == TicketInv => TicketsExplained
<1> SUFFICES ASSUME TicketInv PROVE TicketsExplained
  OBVIOUS
<1>0. \A t \in Tickets : HasRow(t) <=> row[t].state # "none"
  BY RowsAre
<1>1. TicketsTypeOK
  <2>1. \A i \in DOMAIN opened : row[opened[i]] # NoRow
    BY DEF TicketInv, RowsKept, NoRow
  <2>2. \A p \in Repos : \A i \in DOMAIN issues[p] : issues[p][i] \in Issue
    BY DEF TicketInv, TicketTypes
  <2> QED BY <2>1, <2>2 DEF TicketInv, TicketTypes, TicketsTypeOK, Draft, TicketRow, Issue
<1>2. \A t \in Tickets : row[t].index # 0 =>
          IssueOf(t) \in Issue /\ IssueOf(t).ticket = t /\ IssueOf(t).closed \in BOOLEAN
  <2> SUFFICES ASSUME NEW t \in Tickets, row[t].index # 0
               PROVE  IssueOf(t) \in Issue /\ IssueOf(t).ticket = t
    BY DEF Issue
  <2>1. row[t].index \in DOMAIN issues[row[t].repo] /\ row[t].repo \in Repos
    BY DEF TicketInv, TicketTypes, TicketRow, IssuesLinked
  <2> QED BY <2>1 DEF TicketInv, TicketTypes, IssuesLinked, IssueOf
<1>3. IssueAgrees
  <2> SUFFICES ASSUME NEW t \in Tickets, row[t].index # 0
               PROVE  /\ IssueOf(t).ticket = t
                      /\ row[t].state = "closed" /\ ~IssueOf(t).closed =>
                             t \in syncing \/ CallFailed("sync", t)
                      /\ IssueOf(t).closed /\ row[t].state # "closed" => t \in reopened
    BY DEF IssueAgrees
  <2>1. IssueOf(t).ticket = t /\ IssueOf(t).closed \in BOOLEAN
    BY <1>2
  <2>2. /\ row[t].state = "closed" /\ IssueOf(t).closed = FALSE =>
               t \in syncing \/ CallFailed("sync", t)
        /\ IssueOf(t).closed = TRUE /\ row[t].state # "closed" => t \in reopened
    BY DEF TicketInv, ClosingsTraced
  <2>3. CASE IssueOf(t).closed = TRUE
    BY <2>1, <2>2, <2>3, Zenon
  <2>4. CASE IssueOf(t).closed = FALSE
    BY <2>1, <2>2, <2>4, Zenon
  <2> QED BY <2>1, <2>3, <2>4
<1>4. OrphansExplained
  <2> SUFFICES ASSUME NEW p \in Repos, NEW i \in DOMAIN issues[p]
               PROVE  LET t == issues[p][i].ticket
                      IN \/ HasRow(t) /\ row[t].repo = p /\ row[t].index = i
                         \/ draft[t].step = "insert"
                         \/ /\ draft[t].step = "refused"
                            /\ \/ ~draft[t].valid \/ CallFailed("row", t)
                               \/ \E u \in Tickets \ {t} : row[u].index = i /\ row[u].repo # p
    BY DEF OrphansExplained
  <2> DEFINE t == issues[p][i].ticket
  <2>1. t \in Tickets
    <3>1. issues[p][i] \in Issue
      BY DEF TicketInv, TicketTypes
    <3> QED BY <3>1 DEF Issue
  <2>2. \/ row[t].state # "none" /\ row[t].repo = p /\ row[t].index = i
        \/ draft[t].step = "insert"
        \/ /\ draft[t].step = "refused"
           /\ \/ draft[t].valid = FALSE \/ CallFailed("row", t)
              \/ \E u \in Tickets \ {t} : row[u].index = i /\ row[u].repo # p
    BY DEF TicketInv, IssuesOwned
  <2> HIDE DEF t
  <2>3. HasRow(t) <=> row[t].state # "none"
    BY <1>0, <2>1
  <2>4. draft[t].valid = FALSE => ~draft[t].valid
    OBVIOUS
  <2>5. \/ HasRow(t) /\ row[t].repo = p /\ row[t].index = i
        \/ draft[t].step = "insert"
        \/ /\ draft[t].step = "refused"
           /\ \/ ~draft[t].valid \/ CallFailed("row", t)
              \/ \E u \in Tickets \ {t} : row[u].index = i /\ row[u].repo # p
    BY <2>2, <2>3, <2>4, Zenon
  <2> QED BY <2>5 DEF t
<1>5. CopiesExplained
  <2> SUFFICES ASSUME NEW t \in Tickets, row[t].index # 0
               PROVE  LET flying == IF writing[t] = [step |-> "insert", internal |-> FALSE]
                                    THEN 1 ELSE 0
                          seen == ListTicketComments(t, FALSE) + flying
                      IN /\ IssueOf(t).copies > seen => CallFailed("comment", t)
                         /\ IssueOf(t).copies < seen => CallFailed("copy", t)
    BY DEF CopiesExplained
  <2>1. writing[t] \in [step: {"none", "insert"}, internal: BOOLEAN] /\ stored[t].public \in Nat
    BY DEF TicketInv, TicketTypes
  <2>2. writing[t] = [step |-> "insert", internal |-> FALSE] <=>
            writing[t].step = "insert" /\ writing[t].internal = FALSE
    <3>1. writing[t] = [step |-> writing[t].step, internal |-> writing[t].internal]
      BY <2>1
    <3>2. ASSUME writing[t] = [step |-> "insert", internal |-> FALSE]
          PROVE  writing[t].step = "insert" /\ writing[t].internal = FALSE
      BY <3>2
    <3> QED BY <3>1, <3>2
  <2>3. ListTicketComments(t, FALSE) = stored[t].public
    BY <2>1 DEF ListTicketComments
  <2>4. /\ IssueOf(t).copies > stored[t].public + Flying(t) => CallFailed("comment", t)
        /\ IssueOf(t).copies < stored[t].public + Flying(t) => CallFailed("copy", t)
    BY DEF TicketInv, CopiesTraced
  <2> QED BY <2>2, <2>3, <2>4 DEF Flying
<1>6. PagesExplained
  <2>1. PortalListTickets("", "open") = WatchListTickets("", "open")
    BY DEF PortalListTickets, WatchListTickets, ListTickets
  <2>2. /\ TicketRows = {t \in Tickets : row[t].state # "none"} /\ TicketRows \subseteq Tickets
        /\ ListTickets("", "open") = {t \in Page(TicketRows) : row[t].state = "open"}
    BY RowsAre DEF ListTickets, ListITTickets
  <2>3. WatchListTickets("", "open") \subseteq GetPendingAlerts
    <3>1. {t \in Page(TicketRows) : row[t].state = "open"} \subseteq
              Page({t \in TicketRows : row[t].state = "open"})
      <4> DEFINE S == TicketRows  T == {t \in TicketRows : row[t].state = "open"}
      <4>1. Page(S) \cap T \subseteq Page(T)
        BY <2>2, PageGrows
      <4>2. Page(S) \subseteq S
        BY DEF Page
      <4> QED BY <4>1, <4>2
    <3> QED BY <2>2, <3>1 DEF WatchListTickets, GetPendingAlerts, ListOpenITTickets
  <2>4. ASSUME NEW t \in Tickets, row[t].state = "open", t \notin ListTickets("", "open")
        PROVE  backend = "pgx" /\ Cardinality(Newer(t)) >= PageSize
    <3>1. t \in TicketRows /\ t \notin Page(TicketRows)
      BY <2>2, <2>4
    <3>2. backend = "pgx" /\ ~(Cardinality(TicketRows \cap Newer(t)) < PageSize)
      BY <3>1 DEF Page
    <3>3. TicketRows \cap Newer(t) = Newer(t)
      BY DEF TicketRows, Range, Newer
    <3>4. Cardinality(Newer(t)) \in Nat
      BY <2>2, <3>3, FS_Subset, FS_CardinalityType
    <3> QED BY <3>2, <3>3, <3>4
  <2>5. ASSUME NEW t \in Tickets, row[t].mine, t \notin BLLListCustomerTickets(TRUE)
        PROVE  backend = "pgx" /\ Cardinality({u \in Newer(t) : row[u].mine}) >= PageSize
    <3> DEFINE S == {u \in TicketRows : row[u].mine}
    <3>1. NoRow.mine = FALSE
      BY DEF NoRow
    <3>2. row[t].state # "none"
      BY <2>5, <3>1 DEF TicketInv, RowsKept
    <3>3. t \in S /\ t \notin Page(S)
      BY <2>2, <2>5, <3>2 DEF BLLListCustomerTickets, ListCustomerTickets, ListITTicketsByCustomer
    <3>4. backend = "pgx" /\ ~(Cardinality(S \cap Newer(t)) < PageSize)
      BY <3>3 DEF Page
    <3> DEFINE N == {u \in Newer(t) : row[u].mine}
    <3>5. S \cap Newer(t) = N
      BY DEF TicketRows, Range, Newer
    <3>6. Cardinality(N) \in Nat
      BY <2>2, <3>5, FS_Subset, FS_CardinalityType
    <3>7. ~(Cardinality(N) < PageSize)
      BY <3>4, <3>5
    <3> HIDE DEF N
    <3>8. Cardinality(N) >= PageSize
      BY <3>6, <3>7
    <3> QED BY <3>4, <3>8 DEF N
  <2> QED BY <2>1, <2>3, <2>4, <2>5 DEF PagesExplained
<1> QED BY <1>1, <1>3, <1>4, <1>5, <1>6 DEF TicketsExplained

(* Every row, draft and issue is one. *)
LEMMA TicketFields ==
  ASSUME TicketInv
  PROVE  /\ \A t \in Tickets :
               /\ draft[t] \in Draft /\ row[t] \in TicketRow
               /\ row[t].repo \in Repos /\ row[t].index \in Nat
               /\ draft[t].repo \in Repos /\ draft[t].index \in Nat
               /\ writing[t] \in [step: {"none", "insert"}, internal: BOOLEAN]
               /\ stored[t] \in [public: Nat, internal: Nat]
               /\ stored[t].public \in Nat /\ stored[t].internal \in Nat
         /\ \A p \in Repos : /\ issues[p] \in Seq(Issue) /\ Len(issues[p]) \in Nat
                             /\ DOMAIN issues[p] = 1..Len(issues[p])
                             /\ \A i \in DOMAIN issues[p] : /\ issues[p][i] \in Issue
                                                            /\ issues[p][i].ticket \in Tickets
                                                            /\ issues[p][i].copies \in Nat
<1>1. /\ \A t \in Tickets : draft[t] \in Draft /\ row[t] \in TicketRow
      /\ \A t \in Tickets : /\ writing[t] \in [step: {"none", "insert"}, internal: BOOLEAN]
                            /\ stored[t] \in [public: Nat, internal: Nat]
      /\ \A p \in Repos : /\ issues[p] \in Seq(Issue) /\ Len(issues[p]) \in Nat
                          /\ DOMAIN issues[p] = 1..Len(issues[p])
                          /\ \A i \in DOMAIN issues[p] : issues[p][i] \in Issue
  BY DEF TicketInv, TicketTypes
<1>2. \A t \in Tickets : /\ row[t].repo \in Repos /\ row[t].index \in Nat
                         /\ draft[t].repo \in Repos /\ draft[t].index \in Nat
                         /\ stored[t].public \in Nat /\ stored[t].internal \in Nat
  BY <1>1 DEF Draft, TicketRow
<1>3. \A p \in Repos : \A i \in DOMAIN issues[p] :
          issues[p][i].ticket \in Tickets /\ issues[p][i].copies \in Nat
  <2> SUFFICES ASSUME NEW p \in Repos, NEW i \in DOMAIN issues[p]
               PROVE  issues[p][i].ticket \in Tickets /\ issues[p][i].copies \in Nat
    OBVIOUS
  <2>1. issues[p][i] \in Issue
    BY <1>1
  <2> QED BY <2>1 DEF Issue
<1> QED BY <1>1, <1>2, <1>3

(* Two tickets do not have the same issue. *)
LEMMA IssuesApart ==
  ASSUME TicketInv, NEW t \in Tickets, NEW u \in Tickets, t # u,
         row[t].index # 0, row[u].index # 0, row[t].repo = row[u].repo
  PROVE  row[t].index # row[u].index
  BY DEF TicketInv, IssuesLinked

(* A written state leaves the rest of the row, and the other rows, alone. *)
LEMMA WrittenRow ==
  ASSUME TicketInv, NEW t \in Tickets, row[t].state # "none",
         NEW s \in (States \cup Asked) \ {"none"}, Written(t, s)
  PROVE  /\ row' \in [Tickets -> TicketRow]
         /\ row'[t].state = s /\ row'[t].repo = row[t].repo /\ row'[t].index = row[t].index
         /\ \A u \in Tickets : u # t => row'[u] = row[u]
         /\ reopened \subseteq reopened' /\ reopened' \subseteq Tickets
         /\ row[t].state = "closed" /\ s # "closed" => t \in reopened'
<1> DEFINE new == [row[t] EXCEPT !.state = s]
<1>1. row[t] \in TicketRow
  BY TicketFields
<1>2. /\ new \in TicketRow /\ new.state = s /\ new.repo = row[t].repo /\ new.index = row[t].index
  BY <1>1 DEF TicketRow
<1>3. row' = [row EXCEPT ![t] = new]
  BY DEF Written
<1> HIDE DEF new
<1>4. /\ row' \in [Tickets -> TicketRow] /\ row'[t] = new
      /\ \A u \in Tickets : u # t => row'[u] = row[u]
  BY <1>2, <1>3 DEF TicketInv, TicketTypes
<1>5. /\ reopened \subseteq reopened' /\ reopened' \subseteq Tickets
      /\ row[t].state = "closed" /\ s # "closed" => t \in reopened'
  BY DEF Written, TicketInv, TicketTypes
<1> QED BY <1>2, <1>4, <1>5

(* A state written to a row that exists, with the closing passed on. *)
LEMMA WrittenKeeps ==
  ASSUME TicketInv, NEW t \in Tickets, row[t].state # "none",
         NEW s \in (States \cup Asked) \ {"none"}, Written(t, s),
         UNCHANGED <<backend, draft, opened, issues, writing, stored, shown, lost>>,
         syncing \subseteq syncing', syncing' \subseteq syncing \cup {t},
         t \in syncing' \ syncing => s = "closed" /\ row[t].index # 0,
         s = "closed" /\ row[t].state # "closed" /\ row[t].index # 0 => t \in syncing'
  PROVE  TicketInv'
<1>1. /\ row' \in [Tickets -> TicketRow]
      /\ row'[t].state = s /\ row'[t].repo = row[t].repo /\ row'[t].index = row[t].index
      /\ \A u \in Tickets : u # t => row'[u] = row[u]
      /\ reopened \subseteq reopened' /\ reopened' \subseteq Tickets
      /\ row[t].state = "closed" /\ s # "closed" => t \in reopened'
  BY WrittenRow
<1>2. \A u \in Tickets : /\ row'[u].index = row[u].index /\ row'[u].repo = row[u].repo
                         /\ row'[u].state = "none" <=> row[u].state = "none"
  BY <1>1
<1>3. TicketTypes'
  BY <1>1 DEF TicketInv, TicketTypes
<1>4. RowsKept'
  <2>1. \A u \in Tickets : row'[u].state = "none" => row'[u] = NoRow
    BY <1>1 DEF TicketInv, RowsKept
  <2>2. \A i \in DOMAIN opened : opened[i] \in Tickets /\ row'[opened[i]].state # "none"
    <3>1. \A i \in DOMAIN opened : opened[i] \in Tickets /\ row[opened[i]].state # "none"
      BY DEF TicketInv, TicketTypes, RowsKept
    <3> QED BY <1>2, <3>1
  <2> QED BY <1>2, <2>1, <2>2 DEF TicketInv, RowsKept
<1>5. IssuesLinked'
  BY <1>2 DEF TicketInv, IssuesLinked
<1>6. IssuesOwned'
  <2>1. \A p \in Repos : \A i \in DOMAIN issues[p] : issues[p][i].ticket \in Tickets
    BY TicketFields
  <2> QED BY <1>2, <2>1 DEF TicketInv, IssuesOwned, CallFailed
<1>7. \A u \in Tickets : IssueOf(u)' = IssueOf(u)
  BY <1>2 DEF IssueOf
<1>8. ClosingsTraced'
  <2> SUFFICES ASSUME NEW u \in Tickets
        PROVE /\ u \in syncing' =>
                     row'[u].index # 0 /\ (row'[u].state = "closed" \/ u \in reopened')
              /\ row'[u].index # 0 /\ row'[u].state = "closed" /\ IssueOf(u).closed = FALSE =>
                     u \in syncing' \/ CallFailed("sync", u)
              /\ row'[u].index # 0 /\ IssueOf(u).closed = TRUE /\ row'[u].state # "closed" =>
                     u \in reopened'
    BY <1>7 DEF ClosingsTraced, CallFailed
  <2>1. /\ u \in syncing => row[u].index # 0 /\ (row[u].state = "closed" \/ u \in reopened)
        /\ row[u].index # 0 /\ row[u].state = "closed" /\ IssueOf(u).closed = FALSE =>
               u \in syncing \/ CallFailed("sync", u)
        /\ row[u].index # 0 /\ IssueOf(u).closed = TRUE /\ row[u].state # "closed" =>
               u \in reopened
    BY DEF TicketInv, ClosingsTraced
  <2>2. CASE u # t
    BY <1>1, <2>1, <2>2
  <2>3. CASE u = t
    BY <1>1, <2>1, <2>3
  <2> QED BY <2>2, <2>3
<1>9. CopiesTraced'
  BY <1>2, <1>7 DEF TicketInv, CopiesTraced, CallFailed, Flying
<1> QED BY <1>3, <1>4, <1>5, <1>6, <1>8, <1>9 DEF TicketInv

LEMMA UpdateITTicketKeeps ==
  ASSUME TicketInv, NEW t \in Tickets, NEW s \in Updates, UpdateITTicket(t, s) PROVE TicketInv'
<1>1. row[t].state # "none"
  BY RowsAre DEF UpdateITTicket
<1>2. s \in Asked \cup {"closed"}
  BY DEF Updates, PortalUpdate, WatchUpdate, CloseTicket
<1>3. row[t].state \in States \cup Asked
  BY <1>1, TicketFields DEF TicketRow
<1>4. \E w \in (States \cup Asked) \ {"none"} :
         Written(t, w) /\ (w = "closed" => s = "closed" \/ row[t].state = "closed")
                       /\ (s = "closed" => w = "closed")
  <2>1. CASE backend = "pgx"
    BY <2>1 DEF UpdateITTicket, UpdateRow, States
  <2>2. CASE backend # "pgx" /\ s = ""
    BY <1>1, <1>3, <2>2 DEF UpdateITTicket, UpdateMap, Default
  <2>3. CASE backend # "pgx" /\ s # ""
    BY <1>2, <2>3 DEF UpdateITTicket, UpdateMap, Default, States
  <2> QED BY <2>1, <2>2, <2>3
<1>5. PICK w \in (States \cup Asked) \ {"none"} :
         Written(t, w) /\ (w = "closed" => s = "closed" \/ row[t].state = "closed")
                       /\ (s = "closed" => w = "closed")
  BY <1>4
<1>6. /\ UNCHANGED <<backend, draft, opened, issues, writing, stored, shown, lost>>
      /\ syncing' = IF s = "closed" /\ row[t].index # 0 THEN syncing \cup {t} ELSE syncing
  BY DEF UpdateITTicket
<1> QED BY <1>1, <1>5, <1>6, WrittenKeeps

LEMMA SubmitAckKeeps ==
  ASSUME TicketInv, NEW w \in Watches, NEW t \in Tickets, SubmitAck(w, t) PROVE TicketInv'
<1>1. row[t].state # "none"
  BY RowsAre DEF SubmitAck, AcknowledgeRow
<1>2. Written(t, "acknowledged") /\ "acknowledged" \in (States \cup Asked) \ {"none"}
  BY DEF SubmitAck, AcknowledgeRow, States
<1>3. UNCHANGED <<backend, draft, opened, issues, syncing, writing, stored, shown, lost>>
  BY DEF SubmitAck
<1> QED BY <1>1, <1>2, <1>3, WrittenKeeps

LEMMA GetAlertsKeeps ==
  ASSUME TicketInv, NEW w \in Watches, GetAlerts(w) PROVE TicketInv'
<1>1. /\ UNCHANGED <<backend, draft, row, opened, issues, syncing, writing, stored, lost, reopened>>
      /\ shown' = [shown EXCEPT ![w] = GetPendingAlerts]
  BY DEF GetAlerts
<1>2. GetPendingAlerts \subseteq Tickets
  BY RowsAre DEF GetPendingAlerts, ListOpenITTickets, Page
<1>3. TicketTypes'
  BY <1>1, <1>2 DEF TicketInv, TicketTypes
<1>4. RowsKept' /\ IssuesLinked' /\ IssuesOwned'
  BY <1>1 DEF TicketInv, RowsKept, IssuesLinked, IssuesOwned, CallFailed
<1>5. ClosingsTraced' /\ CopiesTraced'
  BY <1>1 DEF TicketInv, ClosingsTraced, CopiesTraced, CallFailed, IssueOf, Flying
<1> QED BY <1>3, <1>4, <1>5 DEF TicketInv

(* An issue is changed in place, for the ticket of a row: nothing else     *)
(* moves.                                                                  *)
LEMMA IssueChanged ==
  ASSUME TicketInv, NEW t \in Tickets, row[t].index # 0, NEW x \in Issue,
         x.ticket = IssueOf(t).ticket,
         issues' = [issues EXCEPT ![row[t].repo] = [@ EXCEPT ![row[t].index] = x]],
         UNCHANGED <<row, draft>>
  PROVE  /\ issues' \in [Repos -> Seq(Issue)]
         /\ IssueOf(t)' = x
         /\ \A u \in Tickets : u # t /\ row[u].index # 0 => IssueOf(u)' = IssueOf(u)
         /\ IssuesLinked'
         /\ \A p \in Repos : /\ DOMAIN issues'[p] = DOMAIN issues[p]
                             /\ \A i \in DOMAIN issues[p] :
                                   issues'[p][i].ticket = issues[p][i].ticket
<1> DEFINE r == row[t].repo  n == row[t].index
<1>1. /\ r \in Repos /\ n \in DOMAIN issues[r] /\ issues[r] \in Seq(Issue)
      /\ issues[r][n].ticket = t /\ DOMAIN issues[r] = 1..Len(issues[r])
  BY TicketFields DEF TicketInv, IssuesLinked
<1> DEFINE new == [issues[r] EXCEPT ![n] = x]
<1>2. /\ new \in Seq(Issue) /\ DOMAIN new = DOMAIN issues[r] /\ new[n] = x
      /\ \A i \in DOMAIN issues[r] : i # n => new[i] = issues[r][i]
  BY <1>1
<1>3. issues' = [issues EXCEPT ![r] = new]
  OBVIOUS
<1> HIDE DEF new
<1>4. /\ issues' \in [Repos -> Seq(Issue)] /\ issues'[r] = new
      /\ \A p \in Repos : p # r => issues'[p] = issues[p]
  BY <1>1, <1>2, <1>3 DEF TicketInv, TicketTypes
<1>5. IssueOf(t)' = x /\ x.ticket = t
  BY <1>1, <1>2, <1>4 DEF IssueOf
<1>6. ASSUME NEW p \in Repos, NEW i \in DOMAIN issues[p]
      PROVE  /\ issues'[p][i].ticket = issues[p][i].ticket
             /\ issues'[p][i] # issues[p][i] => p = r /\ i = n
  BY <1>1, <1>2, <1>4, <1>5
<1>7. \A p \in Repos : DOMAIN issues'[p] = DOMAIN issues[p]
  BY <1>2, <1>4
<1>8. ASSUME NEW u \in Tickets, u # t, row[u].index # 0
      PROVE  IssueOf(u)' = IssueOf(u)
  <2>1. row[u].repo \in Repos /\ row[u].index \in DOMAIN issues[row[u].repo]
    BY <1>8, TicketFields DEF TicketInv, IssuesLinked
  <2>2. issues[row[u].repo][row[u].index].ticket = u
    BY <1>8 DEF TicketInv, IssuesLinked
  <2>3. ~(row[u].repo = r /\ row[u].index = n)
    BY <1>1, <1>8, <2>2
  <2> QED BY <1>6, <2>1, <2>3 DEF IssueOf
<1>9. IssuesLinked'
  <2> SUFFICES ASSUME NEW u \in Tickets
               PROVE  /\ row[u].index # 0 =>
                            /\ row[u].index \in DOMAIN issues'[row[u].repo]
                            /\ issues'[row[u].repo][row[u].index].ticket = u
                      /\ draft[u].step = "insert" /\ draft[u].index # 0 =>
                            /\ draft[u].index \in DOMAIN issues'[draft[u].repo]
                            /\ issues'[draft[u].repo][draft[u].index].ticket = u
                            /\ issues'[draft[u].repo][draft[u].index].closed = FALSE
                            /\ issues'[draft[u].repo][draft[u].index].copies = 0
    BY DEF IssuesLinked
  <2>1. row[u].repo \in Repos /\ draft[u].repo \in Repos
    BY TicketFields
  <2>2. row[u].index # 0 => /\ row[u].index \in DOMAIN issues'[row[u].repo]
                            /\ issues'[row[u].repo][row[u].index].ticket = u
    BY <1>6, <1>7, <2>1 DEF TicketInv, IssuesLinked
  <2>3. ASSUME draft[u].step = "insert", draft[u].index # 0
        PROVE  /\ draft[u].index \in DOMAIN issues'[draft[u].repo]
               /\ issues'[draft[u].repo][draft[u].index].ticket = u
               /\ issues'[draft[u].repo][draft[u].index].closed = FALSE
               /\ issues'[draft[u].repo][draft[u].index].copies = 0
    <3>1. /\ draft[u].index \in DOMAIN issues[draft[u].repo]
          /\ issues[draft[u].repo][draft[u].index].ticket = u
          /\ issues[draft[u].repo][draft[u].index].closed = FALSE
          /\ issues[draft[u].repo][draft[u].index].copies = 0
      BY <2>3 DEF TicketInv, IssuesLinked
    <3>2. row[u].state = "none" /\ NoRow.index = 0
      BY <2>3 DEF TicketInv, RowsKept, NoRow
    <3>3. u # t
      BY <3>2 DEF TicketInv, RowsKept
    <3>4. ~(draft[u].repo = r /\ draft[u].index = n)
      BY <1>1, <3>1, <3>3
    <3>5. issues'[draft[u].repo][draft[u].index] = issues[draft[u].repo][draft[u].index]
      BY <1>6, <2>1, <3>1, <3>4
    <3> QED BY <1>7, <2>1, <3>1, <3>5
  <2> QED BY <2>2, <2>3
<1> QED BY <1>4, <1>5, <1>6, <1>7, <1>8, <1>9

(* ... and the issues left behind stay so. *)
LEMMA OwnersRest ==
  ASSUME TicketInv, UNCHANGED <<row, draft>>, lost \subseteq lost',
         \A p \in Repos : /\ DOMAIN issues'[p] = DOMAIN issues[p]
                          /\ \A i \in DOMAIN issues[p] : issues'[p][i].ticket = issues[p][i].ticket
  PROVE  IssuesOwned'
  BY DEF TicketInv, IssuesOwned, CallFailed

LEMMA SyncClosedKeeps ==
  ASSUME TicketInv, NEW t \in Tickets, SyncClosed(t) PROVE TicketInv'
<1>1. /\ UNCHANGED <<backend, draft, row, opened, writing, stored, shown, reopened>>
      /\ t \in syncing /\ syncing' = syncing \ {t}
  BY DEF SyncClosed
<1>2. /\ row[t].index # 0 /\ (row[t].state = "closed" \/ t \in reopened)
  BY <1>1 DEF TicketInv, ClosingsTraced
<1>3. RowsKept'
  BY <1>1 DEF TicketInv, RowsKept
<1>4. CASE CloseIssue(t) /\ UNCHANGED lost
  <2> DEFINE x == [IssueOf(t) EXCEPT !.closed = TRUE]
  <2>1. IssueOf(t) \in Issue
    BY <1>2, TicketFields DEF TicketInv, IssuesLinked, IssueOf
  <2>2. /\ x \in Issue /\ x.ticket = IssueOf(t).ticket /\ x.closed = TRUE
        /\ x.copies = IssueOf(t).copies
    BY <2>1 DEF Issue
  <2>3. issues' = [issues EXCEPT ![row[t].repo] = [@ EXCEPT ![row[t].index] = x]]
    BY <1>4 DEF CloseIssue, IssueOf
  <2> HIDE DEF x
  <2>4. /\ issues' \in [Repos -> Seq(Issue)]
        /\ IssueOf(t)' = x
        /\ \A u \in Tickets : u # t /\ row[u].index # 0 => IssueOf(u)' = IssueOf(u)
        /\ IssuesLinked'
        /\ \A p \in Repos : /\ DOMAIN issues'[p] = DOMAIN issues[p]
                            /\ \A i \in DOMAIN issues[p] :
                                  issues'[p][i].ticket = issues[p][i].ticket
    BY <1>1, <1>2, <2>2, <2>3, IssueChanged
  <2>5. TicketTypes'
    BY <1>1, <1>4, <2>4 DEF TicketInv, TicketTypes
  <2>6. IssuesOwned'
    BY <1>1, <1>4, <2>4, OwnersRest
  <2>7. ClosingsTraced'
    <3> SUFFICES ASSUME NEW u \in Tickets
        PROVE /\ u \in syncing' =>
                     row[u].index # 0 /\ (row[u].state = "closed" \/ u \in reopened)
              /\ row[u].index # 0 /\ row[u].state = "closed" /\ IssueOf(u)'.closed = FALSE =>
                     u \in syncing' \/ CallFailed("sync", u)
              /\ row[u].index # 0 /\ IssueOf(u)'.closed = TRUE /\ row[u].state # "closed" =>
                     u \in reopened
      BY <1>1, <1>4 DEF ClosingsTraced, CallFailed
    <3>1. CASE u = t
      BY <1>1, <1>2, <2>2, <2>4, <3>1
    <3>2. CASE u # t
      BY <1>1, <2>4, <3>2 DEF TicketInv, ClosingsTraced
    <3> QED BY <3>1, <3>2
  <2>8. CopiesTraced'
    <3>1. \A u \in Tickets : row[u].index # 0 => IssueOf(u)'.copies = IssueOf(u).copies
      BY <2>2, <2>4
    <3> QED BY <1>1, <1>4, <3>1 DEF TicketInv, CopiesTraced, CallFailed, Flying
  <2> QED BY <1>3, <2>4, <2>5, <2>6, <2>7, <2>8 DEF TicketInv
<1>5. CASE Faulty /\ lost' = lost \cup {<<"sync", t>>} /\ UNCHANGED issues
  <2>1. TicketTypes'
    BY <1>1, <1>5 DEF TicketInv, TicketTypes, Calls
  <2>2. IssuesLinked' /\ IssuesOwned'
    BY <1>1, <1>5, OwnersRest DEF TicketInv, IssuesLinked
  <2>3. CopiesTraced'
    BY <1>1, <1>5 DEF TicketInv, CopiesTraced, CallFailed, Flying, IssueOf
  <2>4. ClosingsTraced'
    BY <1>1, <1>5 DEF TicketInv, ClosingsTraced, CallFailed, IssueOf
  <2> QED BY <1>3, <2>1, <2>2, <2>3, <2>4 DEF TicketInv
<1> QED BY <1>4, <1>5 DEF SyncClosed

(* A comment is copied to the issue, or not, and is about to be stored. *)
LEMMA AddTicketCommentKeeps ==
  ASSUME TicketInv, NEW t \in Tickets, NEW b \in BOOLEAN, AddTicketComment(t, b) PROVE TicketInv'
<1>1. /\ UNCHANGED <<backend, draft, row, opened, syncing, stored, shown, reopened>>
      /\ writing[t] = Silent
      /\ writing' = [writing EXCEPT ![t] = [step |-> "insert", internal |-> b]]
      /\ row[t].state # "none"
  BY RowsAre DEF AddTicketComment
<1>2. /\ writing' \in [Tickets -> [step: {"none", "insert"}, internal: BOOLEAN]]
      /\ writing'[t].step = "insert" /\ writing'[t].internal = b
      /\ \A u \in Tickets : u # t => writing'[u] = writing[u]
      /\ writing[t].step = "none"
  BY <1>1 DEF TicketInv, TicketTypes, Silent
<1>3. RowsKept'
  BY <1>1, <1>2 DEF TicketInv, RowsKept
<1>4. /\ Flying(t) = 0 /\ Flying(t)' = (IF b = FALSE THEN 1 ELSE 0)
      /\ \A u \in Tickets : u # t => Flying(u)' = Flying(u)
  BY <1>2 DEF Flying
<1>5. stored[t].public \in Nat
  BY TicketFields
<1>6. ASSUME UNCHANGED issues, lost \subseteq lost', lost' \subseteq Calls \X Tickets,
             row[t].index # 0 /\ b = FALSE => CallFailed("copy", t)'
      PROVE  TicketInv'
  <2>1. TicketTypes'
    BY <1>1, <1>2, <1>6 DEF TicketInv, TicketTypes
  <2>2. IssuesLinked' /\ IssuesOwned'
    BY <1>1, <1>6, OwnersRest DEF TicketInv, IssuesLinked
  <2>3. ClosingsTraced'
    BY <1>1, <1>6 DEF TicketInv, ClosingsTraced, CallFailed, IssueOf
  <2>4. CopiesTraced'
    <3> SUFFICES ASSUME NEW u \in Tickets, row[u].index # 0
                 PROVE  /\ IssueOf(u)'.copies > stored[u].public + Flying(u)' =>
                               CallFailed("comment", u)'
                        /\ IssueOf(u)'.copies < stored[u].public + Flying(u)' =>
                               CallFailed("copy", u)'
      BY <1>1 DEF CopiesTraced
    <3>1. /\ IssueOf(u).copies > stored[u].public + Flying(u) => CallFailed("comment", u)
          /\ IssueOf(u).copies < stored[u].public + Flying(u) => CallFailed("copy", u)
      BY DEF TicketInv, CopiesTraced
    <3>2. IssueOf(u)' = IssueOf(u) /\ IssueOf(u).copies \in Nat
      BY <1>1, <1>6, TicketFields DEF TicketInv, IssuesLinked, IssueOf
    <3>3. /\ CallFailed("comment", u) => CallFailed("comment", u)'
          /\ CallFailed("copy", u) => CallFailed("copy", u)'
      BY <1>6 DEF CallFailed
    <3>4. CASE u # t
      BY <1>4, <3>1, <3>2, <3>3, <3>4
    <3>5. CASE u = t /\ b = TRUE
      BY <1>4, <3>1, <3>2, <3>3, <3>5
    <3>6. CASE u = t /\ b = FALSE
      BY <1>4, <1>5, <1>6, <3>1, <3>2, <3>3, <3>6
    <3> QED BY <3>4, <3>5, <3>6
  <2> QED BY <1>3, <2>1, <2>2, <2>3, <2>4 DEF TicketInv
<1>7. CASE (row[t].index = 0 \/ b) /\ UNCHANGED <<issues, lost>>
  BY <1>6, <1>7 DEF TicketInv, TicketTypes
<1>8. CASE Faulty /\ lost' = lost \cup {<<"copy", t>>} /\ UNCHANGED issues
  <2>1. lost' \subseteq Calls \X Tickets /\ lost \subseteq lost' /\ CallFailed("copy", t)'
    BY <1>8 DEF TicketInv, TicketTypes, Calls, CallFailed
  <2> QED BY <1>6, <1>8, <2>1
<1>9. CASE row[t].index # 0 /\ ~b /\ CopyComment(t) /\ UNCHANGED lost
  <2> DEFINE x == [IssueOf(t) EXCEPT !.copies = @ + 1]
  <2>1. IssueOf(t) \in Issue /\ IssueOf(t).copies \in Nat
    BY <1>9, TicketFields DEF TicketInv, IssuesLinked, IssueOf
  <2>2. /\ x \in Issue /\ x.ticket = IssueOf(t).ticket /\ x.closed = IssueOf(t).closed
        /\ x.copies = IssueOf(t).copies + 1
    BY <2>1 DEF Issue
  <2>3. issues' = [issues EXCEPT ![row[t].repo] = [@ EXCEPT ![row[t].index] = x]]
    BY <1>9 DEF CopyComment, IssueOf
  <2> HIDE DEF x
  <2>4. /\ issues' \in [Repos -> Seq(Issue)]
        /\ IssueOf(t)' = x
        /\ \A u \in Tickets : u # t /\ row[u].index # 0 => IssueOf(u)' = IssueOf(u)
        /\ IssuesLinked'
        /\ \A p \in Repos : /\ DOMAIN issues'[p] = DOMAIN issues[p]
                            /\ \A i \in DOMAIN issues[p] :
                                  issues'[p][i].ticket = issues[p][i].ticket
    BY <1>1, <1>9, <2>2, <2>3, IssueChanged
  <2>5. TicketTypes'
    BY <1>1, <1>2, <1>9, <2>4 DEF TicketInv, TicketTypes
  <2>6. IssuesOwned'
    BY <1>1, <1>9, <2>4, OwnersRest
  <2>7. ClosingsTraced'
    <3>1. \A u \in Tickets : row[u].index # 0 => IssueOf(u)'.closed = IssueOf(u).closed
      BY <2>2, <2>4
    <3> QED BY <1>1, <1>9, <3>1 DEF TicketInv, ClosingsTraced, CallFailed
  <2>8. CopiesTraced'
    <3> SUFFICES ASSUME NEW u \in Tickets, row[u].index # 0
                 PROVE  /\ IssueOf(u)'.copies > stored[u].public + Flying(u)' =>
                               CallFailed("comment", u)
                        /\ IssueOf(u)'.copies < stored[u].public + Flying(u)' =>
                               CallFailed("copy", u)
      BY <1>1, <1>9 DEF CopiesTraced, CallFailed
    <3>1. /\ IssueOf(u).copies > stored[u].public + Flying(u) => CallFailed("comment", u)
          /\ IssueOf(u).copies < stored[u].public + Flying(u) => CallFailed("copy", u)
      BY DEF TicketInv, CopiesTraced
    <3>2. CASE u # t
      BY <1>4, <2>4, <3>1, <3>2
    <3>3. CASE u = t
      <4>1. IssueOf(t)'.copies = IssueOf(t).copies + 1 /\ Flying(t)' = 1 /\ Flying(t) = 0
        BY <1>4, <1>9, <2>2, <2>4
      <4> QED BY <1>5, <2>1, <3>1, <3>3, <4>1
    <3> QED BY <3>2, <3>3
  <2> QED BY <1>3, <2>4, <2>5, <2>6, <2>7, <2>8 DEF TicketInv
<1> QED BY <1>7, <1>8, <1>9 DEF AddTicketComment

(* The comment is stored, or lost. *)
LEMMA CreateTicketCommentKeeps ==
  ASSUME TicketInv, NEW t \in Tickets, CreateTicketComment(t) PROVE TicketInv'
<1>1. /\ UNCHANGED <<backend, draft, row, opened, issues, syncing, shown, reopened>>
      /\ writing[t].step = "insert" /\ writing' = [writing EXCEPT ![t] = Silent]
  BY DEF CreateTicketComment
<1>2. /\ writing' \in [Tickets -> [step: {"none", "insert"}, internal: BOOLEAN]]
      /\ writing'[t].step = "none"
      /\ \A u \in Tickets : u # t => writing'[u] = writing[u]
  BY <1>1 DEF TicketInv, TicketTypes, Silent
<1>3. /\ Flying(t) = (IF writing[t].internal = FALSE THEN 1 ELSE 0) /\ Flying(t)' = 0
      /\ \A u \in Tickets : u # t => Flying(u)' = Flying(u)
  BY <1>1, <1>2 DEF Flying
<1>4. row[t].state # "none"
  BY <1>1 DEF TicketInv, RowsKept
<1>5. /\ stored[t] \in [public: Nat, internal: Nat] /\ stored[t].public \in Nat
      /\ stored[t].internal \in Nat /\ writing[t].internal \in BOOLEAN
  BY TicketFields
<1>6. /\ stored' \in [Tickets -> [public: Nat, internal: Nat]]
      /\ \A u \in Tickets : u # t => stored'[u] = stored[u]
      /\ lost \subseteq lost' /\ lost' \subseteq Calls \X Tickets
      /\ \/ stored'[t].public = stored[t].public + Flying(t)
         \/ stored'[t].public = stored[t].public /\ CallFailed("comment", t)'
  <2>1. CASE /\ stored' = IF writing[t].internal
                          THEN [stored EXCEPT ![t].internal = @ + 1]
                          ELSE [stored EXCEPT ![t].public = @ + 1]
             /\ UNCHANGED lost
    <3> DEFINE x == IF writing[t].internal THEN [stored[t] EXCEPT !.internal = @ + 1]
                                           ELSE [stored[t] EXCEPT !.public = @ + 1]
    <3>1. x \in [public: Nat, internal: Nat] /\ x.public = stored[t].public + Flying(t)
      <4>1. CASE writing[t].internal = TRUE
        BY <1>3, <1>5, <4>1
      <4>2. CASE writing[t].internal = FALSE
        BY <1>3, <1>5, <4>2
      <4> QED BY <1>5, <4>1, <4>2
    <3>2. stored' = [stored EXCEPT ![t] = x]
      BY <2>1
    <3> HIDE DEF x
    <3> QED BY <2>1, <3>1, <3>2 DEF TicketInv, TicketTypes
  <2>2. CASE lost' = lost \cup {<<"comment", t>>} /\ UNCHANGED stored
    BY <2>2 DEF TicketInv, TicketTypes, Calls, CallFailed
  <2> QED BY <2>1, <2>2 DEF CreateTicketComment
<1>7. TicketTypes'
  BY <1>1, <1>2, <1>6 DEF TicketInv, TicketTypes
<1>8. RowsKept'
  BY <1>1, <1>2, <1>4, <1>6 DEF TicketInv, RowsKept
<1>9. IssuesLinked' /\ IssuesOwned'
  BY <1>1, <1>6, OwnersRest DEF TicketInv, IssuesLinked
<1>10. ClosingsTraced'
  BY <1>1, <1>6 DEF TicketInv, ClosingsTraced, CallFailed, IssueOf
<1>11. CopiesTraced'
  <2> SUFFICES ASSUME NEW u \in Tickets, row[u].index # 0
               PROVE  /\ IssueOf(u)'.copies > stored'[u].public + Flying(u)' =>
                             CallFailed("comment", u)'
                      /\ IssueOf(u)'.copies < stored'[u].public + Flying(u)' =>
                             CallFailed("copy", u)'
    BY <1>1 DEF CopiesTraced
  <2>1. /\ IssueOf(u).copies > stored[u].public + Flying(u) => CallFailed("comment", u)
        /\ IssueOf(u).copies < stored[u].public + Flying(u) => CallFailed("copy", u)
    BY DEF TicketInv, CopiesTraced
  <2>2. IssueOf(u)' = IssueOf(u) /\ IssueOf(u).copies \in Nat
    BY <1>1, <1>6, TicketFields DEF TicketInv, IssuesLinked, IssueOf
  <2>3. /\ CallFailed("comment", u) => CallFailed("comment", u)'
        /\ CallFailed("copy", u) => CallFailed("copy", u)'
    BY <1>6 DEF CallFailed
  <2>4. CASE u # t
    BY <1>3, <1>6, <2>1, <2>2, <2>3, <2>4
  <2>5. CASE u = t /\ stored'[t].public = stored[t].public + Flying(t)
    BY <1>3, <1>5, <2>1, <2>2, <2>3, <2>5
  <2>6. CASE u = t /\ stored'[t].public = stored[t].public /\ CallFailed("comment", t)'
    BY <1>3, <1>5, <2>1, <2>2, <2>3, <2>6
  <2> QED BY <1>6, <2>4, <2>5, <2>6
<1> QED BY <1>7, <1>8, <1>9, <1>10, <1>11 DEF TicketInv

(* What reaches CreateITTicket names a repository of Forgejo. *)
LEMMA RequestsFilled ==
  ASSUME NEW q \in TicketRequests
  PROVE  /\ Filled(q).repo \in Repos /\ Filled(q).urgent \in BOOLEAN
         /\ Filled(q).mine \in BOOLEAN /\ Checks(Filled(q)) \in BOOLEAN
<1> DEFINE Sent == [category: {"", "hardware", "General Inquiry", "general"},
                    severity: {"", "critical", "normal", "medium"}, source: {"", "customer"},
                    repo: {"", "customer-support"}, urgent: BOOLEAN, mine: BOOLEAN]
<1>1. \A f \in TicketForms : f \in Sent
  BY DEF TicketForms
<1>2. \A f \in Sent : /\ PortalForm(f) \in Sent /\ WatchForm(f) \in Sent /\ CreateTicket(f) \in Sent
                      /\ CreateAlert(f) \in Sent
  BY DEF PortalForm, WatchForm, CreateTicket, CreateAlert
<1>3. \A f \in Sent : /\ OnBehalfForm(f) \in Sent /\ WatchCustomerForm(f) \in Sent
  BY DEF OnBehalfForm, WatchCustomerForm
<1>4. \A f \in Sent : CustomerForm(f) \in Sent
  BY DEF CustomerForm, Default
<1>5. \A f \in Sent : BLLCustomerTicket(f) \in Sent
  BY DEF BLLCustomerTicket, Default
<1>6. \A f \in Sent : CreateCustomerTicket(f) \in Sent
  BY DEF CreateCustomerTicket, Default
<1>7. q \in Sent
  <2> HIDE DEF Sent
  <2> QED BY <1>1, <1>2, <1>3, <1>4, <1>5, <1>6 DEF TicketRequests
<1>8. /\ Filled(q).repo = Default(q.repo, IF q.source = "customer" THEN "customer-support"
                                         ELSE "helpdesk")
      /\ Filled(q).urgent = (q.urgent \/ q.severity \in {"urgent", "critical"})
      /\ Filled(q).mine = q.mine
  BY <1>7 DEF Filled
<1>9. Filled(q).repo \in Repos /\ Filled(q).mine \in BOOLEAN
  BY <1>7, <1>8 DEF Default, Repos
<1>10. Filled(q).urgent \in BOOLEAN
  BY <1>8
<1>11. Checks(Filled(q)) \in BOOLEAN
  BY DEF Checks
<1> QED BY <1>9, <1>10, <1>11

(* The creation up to the INSERT: an issue of its own at the end of a      *)
(* repository, or none.                                                    *)
LEMMA CreateITTicketKeeps ==
  ASSUME TicketInv, NEW t \in Tickets, CreateITTicket(t) PROVE TicketInv'
<1>1. /\ UNCHANGED <<backend, row, opened, syncing, writing, stored, shown, reopened>>
      /\ draft[t].step = "none"
  BY DEF CreateITTicket, Untold
<1>2. PICK q \in TicketRequests :
        LET r == Filled(q)
            next(i) == [step |-> "insert", repo |-> r.repo, index |-> i,
                         valid |-> Checks(r), urgent |-> r.urgent, mine |-> r.mine]
         IN \/ /\ CreateForgejoIssue(t, r.repo)
               /\ draft' = [draft EXCEPT ![t] = next(Len(issues[r.repo]) + 1)]
               /\ UNCHANGED lost
            \/ /\ Faulty
               /\ lost' = lost \cup {<<"issue", t>>}
               /\ draft' = [draft EXCEPT ![t] = next(0)]
               /\ UNCHANGED issues
  BY DEF CreateITTicket, FilledRequests
<1> DEFINE p == Filled(q).repo  n == Len(issues[p]) + 1
           next(i) == [step |-> "insert", repo |-> p, index |-> i, valid |-> Checks(Filled(q)),
                       urgent |-> Filled(q).urgent, mine |-> Filled(q).mine]
<1>3. p \in Repos /\ \A i \in Nat : /\ next(i) \in Draft /\ next(i).step = "insert"
                                   /\ next(i).repo = p /\ next(i).index = i
  BY RequestsFilled DEF Draft
<1>4. row[t].state = "none" /\ row[t].index = 0
  BY <1>1 DEF TicketInv, RowsKept, NoRow
<1>5. \A r \in Repos : \A i \in DOMAIN issues[r] :
          issues[r][i] \in Issue /\ issues[r][i].ticket \in Tickets /\ issues[r][i].ticket # t
  <2>1. \A r \in Repos : \A i \in DOMAIN issues[r] :
            issues[r][i] \in Issue /\ issues[r][i].ticket \in Tickets
    BY TicketFields
  <2> QED BY <1>1, <1>4, <2>1 DEF TicketInv, IssuesOwned
<1>6. issues[p] \in Seq(Issue) /\ Len(issues[p]) \in Nat /\ DOMAIN issues[p] = 1..Len(issues[p])
      /\ n \in Nat
  BY <1>3, TicketFields
<1>7. CASE /\ CreateForgejoIssue(t, p)
           /\ draft' = [draft EXCEPT ![t] = next(n)]
           /\ UNCHANGED lost
  <2> DEFINE x == [ticket |-> t, closed |-> FALSE, copies |-> 0]
  <2>1. x \in Issue /\ x.ticket = t /\ x.closed = FALSE /\ x.copies = 0
    BY DEF Issue
  <2>2. issues' = [issues EXCEPT ![p] = Append(@, x)]
    BY <1>7 DEF CreateForgejoIssue
  <2> HIDE DEF x, next, n, p
  <2>3. draft' \in [Tickets -> Draft] /\ draft'[t] = next(n)
        /\ \A u \in Tickets : u # t => draft'[u] = draft[u]
    BY <1>3, <1>6, <1>7 DEF TicketInv, TicketTypes
  <2>4. /\ issues' \in [Repos -> Seq(Issue)]
        /\ \A r \in Repos : r # p => issues'[r] = issues[r]
        /\ DOMAIN issues'[p] = 1..n /\ issues'[p][n] = x
        /\ \A i \in DOMAIN issues[p] : i \in DOMAIN issues'[p] /\ issues'[p][i] = issues[p][i]
    <3>1. issues'[p] = Append(issues[p], x) /\ \A r \in Repos : r # p => issues'[r] = issues[r]
      BY <1>3, <2>2 DEF TicketInv, TicketTypes
    <3>2. /\ Append(issues[p], x) \in Seq(Issue) /\ DOMAIN Append(issues[p], x) = 1..n
          /\ Append(issues[p], x)[n] = x
          /\ \A i \in 1..Len(issues[p]) : i \in 1..n /\ Append(issues[p], x)[i] = issues[p][i]
      BY <1>6, <2>1 DEF n
    <3>3. issues' \in [Repos -> Seq(Issue)]
      BY <1>3, <2>2, <3>2 DEF TicketInv, TicketTypes
    <3> QED BY <1>6, <3>1, <3>2, <3>3
  <2>5. \A r \in Repos : \A i \in DOMAIN issues[r] :
            i \in DOMAIN issues'[r] /\ issues'[r][i] = issues[r][i]
    BY <2>4
  <2>6. n # 0 /\ n \in DOMAIN issues'[p]
    BY <1>6, <2>4 DEF n
  <2>7. TicketTypes'
    BY <1>1, <1>7, <2>3, <2>4 DEF TicketInv, TicketTypes
  <2>8. RowsKept'
    <3>1. \A u \in Tickets : draft'[u].step = "created" <=> draft[u].step = "created"
      BY <1>1, <1>3, <1>6, <2>3
    <3> QED BY <1>1, <3>1 DEF TicketInv, RowsKept
  <2>9. \A u \in Tickets : row[u].index # 0 =>
            /\ row[u].index \in DOMAIN issues[row[u].repo] /\ row[u].repo \in Repos
            /\ IssueOf(u)' = IssueOf(u)
    <3> SUFFICES ASSUME NEW u \in Tickets, row[u].index # 0
                 PROVE  /\ row[u].index \in DOMAIN issues[row[u].repo] /\ row[u].repo \in Repos
                        /\ IssueOf(u)' = IssueOf(u)
      OBVIOUS
    <3>1. row[u].index \in DOMAIN issues[row[u].repo] /\ row[u].repo \in Repos
      BY TicketFields DEF TicketInv, IssuesLinked
    <3> QED BY <1>1, <2>5, <3>1 DEF IssueOf
  <2>10. IssuesLinked'
    <3> SUFFICES ASSUME NEW u \in Tickets
                 PROVE  /\ row[u].index # 0 =>
                              /\ row[u].index \in DOMAIN issues'[row[u].repo]
                              /\ issues'[row[u].repo][row[u].index].ticket = u
                        /\ draft'[u].step = "insert" /\ draft'[u].index # 0 =>
                              /\ draft'[u].index \in DOMAIN issues'[draft'[u].repo]
                              /\ issues'[draft'[u].repo][draft'[u].index].ticket = u
                              /\ issues'[draft'[u].repo][draft'[u].index].closed = FALSE
                              /\ issues'[draft'[u].repo][draft'[u].index].copies = 0
      BY <1>1 DEF IssuesLinked
    <3>1. row[u].index # 0 => /\ row[u].index \in DOMAIN issues'[row[u].repo]
                              /\ issues'[row[u].repo][row[u].index].ticket = u
      BY <2>5, <2>9 DEF TicketInv, IssuesLinked
    <3>2. CASE u = t
      <4>1. draft'[t].repo = p /\ draft'[t].index = n
        BY <1>3, <1>6, <2>3
      <4> QED BY <2>1, <2>4, <2>6, <3>1, <3>2, <4>1
    <3>3. CASE u # t
      <4>1. draft'[u] = draft[u] /\ draft[u].repo \in Repos
        BY <2>3, <3>3, TicketFields
      <4>2. draft[u].step = "insert" /\ draft[u].index # 0 =>
              /\ draft[u].index \in DOMAIN issues[draft[u].repo]
              /\ issues[draft[u].repo][draft[u].index].ticket = u
              /\ issues[draft[u].repo][draft[u].index].closed = FALSE
              /\ issues[draft[u].repo][draft[u].index].copies = 0
        BY DEF TicketInv, IssuesLinked
      <4> QED BY <2>5, <3>1, <4>1, <4>2
    <3> QED BY <3>2, <3>3
  <2>11. IssuesOwned'
    <3> SUFFICES ASSUME NEW r \in Repos, NEW i \in DOMAIN issues'[r]
          PROVE LET u == issues'[r][i].ticket
                IN \/ row'[u].state # "none" /\ row'[u].repo = r /\ row'[u].index = i
                   \/ draft'[u].step = "insert" /\ draft'[u].repo = r /\ draft'[u].index = i
                   \/ /\ draft'[u].step = "refused"
                      /\ \/ draft'[u].valid = FALSE \/ <<"row", u>> \in lost'
                         \/ \E v \in Tickets \ {u} : row'[v].index = i /\ row'[v].repo # r
      BY DEF IssuesOwned, CallFailed
    <3>1. CASE r = p /\ i = n
      BY <1>3, <1>6, <2>1, <2>3, <2>4, <3>1
    <3>2. CASE ~(r = p /\ i = n)
      <4>1. i \in DOMAIN issues[r] /\ issues'[r][i] = issues[r][i]
        BY <1>6, <2>4, <2>5, <3>2 DEF n
      <4>2. draft'[issues[r][i].ticket] = draft[issues[r][i].ticket]
        BY <1>5, <2>3, <4>1
      <4> QED BY <1>1, <1>7, <4>1, <4>2 DEF TicketInv, IssuesOwned, CallFailed
    <3> QED BY <3>1, <3>2
  <2>12. ClosingsTraced'
    BY <1>1, <1>7, <2>9 DEF TicketInv, ClosingsTraced, CallFailed
  <2>13. CopiesTraced'
    BY <1>1, <1>7, <2>9 DEF TicketInv, CopiesTraced, CallFailed, Flying
  <2> QED BY <2>7, <2>8, <2>10, <2>11, <2>12, <2>13 DEF TicketInv
<1>8. CASE /\ lost' = lost \cup {<<"issue", t>>}
           /\ draft' = [draft EXCEPT ![t] = next(0)]
           /\ UNCHANGED issues
  <2> HIDE DEF next, n, p
  <2>1. /\ draft' \in [Tickets -> Draft] /\ draft'[t] = next(0)
        /\ \A u \in Tickets : u # t => draft'[u] = draft[u]
    BY <1>3, <1>8 DEF TicketInv, TicketTypes
  <2>2. draft'[t].step = "insert" /\ draft'[t].index = 0
    BY <1>3, <2>1
  <2>3. lost' \subseteq Calls \X Tickets /\ lost \subseteq lost'
    BY <1>8 DEF TicketInv, TicketTypes, Calls
  <2>4. TicketTypes'
    BY <1>1, <1>8, <2>1, <2>3 DEF TicketInv, TicketTypes
  <2>5. RowsKept'
    <3>1. \A u \in Tickets : draft'[u].step = "created" <=> draft[u].step = "created"
      BY <1>1, <2>1, <2>2
    <3> QED BY <1>1, <3>1 DEF TicketInv, RowsKept
  <2>6. IssuesLinked'
    BY <1>1, <1>8, <2>1, <2>2 DEF TicketInv, IssuesLinked
  <2>7. IssuesOwned'
    <3>1. \A r \in Repos : \A i \in DOMAIN issues[r] :
              draft'[issues[r][i].ticket] = draft[issues[r][i].ticket]
      BY <1>5, <2>1
    <3> QED BY <1>1, <1>8, <2>3, <3>1 DEF TicketInv, IssuesOwned, CallFailed
  <2>8. ClosingsTraced'
    BY <1>1, <1>8, <2>3 DEF TicketInv, ClosingsTraced, CallFailed, IssueOf
  <2>9. CopiesTraced'
    BY <1>1, <1>8, <2>3 DEF TicketInv, CopiesTraced, CallFailed, Flying, IssueOf
  <2> QED BY <2>4, <2>5, <2>6, <2>7, <2>8, <2>9 DEF TicketInv
<1> QED BY <1>2, <1>7, <1>8

(* The INSERT: the draft becomes the row, with its issue. *)
LEMMA StoreTicketKeeps ==
  ASSUME TicketInv, NEW t \in Tickets, StoreTicket(t) PROVE TicketInv'
<1>1. /\ UNCHANGED <<backend, issues, syncing, writing, stored, shown, reopened>>
      /\ draft[t].step = "insert" /\ InsertRow(t)
      /\ draft' = [draft EXCEPT ![t] = [Untold EXCEPT !.step = "created"]]
  BY DEF StoreTicket
<1>2. lost \subseteq lost' /\ lost' \subseteq Calls \X Tickets
  <2>1. lost' = lost \/ lost' = lost \cup {<<"push", t>>}
    BY DEF StoreTicket, SendPushNotification
  <2> QED BY <2>1 DEF TicketInv, TicketTypes, Calls
<1>3. row[t].state = "none" /\ row[t] = NoRow /\ row[t].index = 0
  BY <1>1 DEF TicketInv, RowsKept, NoRow
<1> DEFINE told == [Untold EXCEPT !.step = "created"]
           new == [state |-> "open", repo |-> draft[t].repo, index |-> draft[t].index,
                   mine |-> draft[t].mine]
<1>4. told \in Draft /\ told.step = "created"
  BY DEF Untold, Draft, Repos
<1>5. draft[t] \in Draft /\ draft[t].repo \in Repos /\ draft[t].index \in Nat
  BY TicketFields
<1>6. /\ new \in TicketRow /\ new.state = "open" /\ new.repo = draft[t].repo
      /\ new.index = draft[t].index
  BY <1>5 DEF TicketRow, Draft, States
<1>7. row' = [row EXCEPT ![t] = new] /\ opened' = Append(opened, t)
  BY <1>1 DEF InsertRow
<1> HIDE DEF told, new
<1>8. /\ draft' \in [Tickets -> Draft] /\ draft'[t] = told
      /\ \A u \in Tickets : u # t => draft'[u] = draft[u]
  BY <1>1, <1>4 DEF TicketInv, TicketTypes, told
<1>9. /\ row' \in [Tickets -> TicketRow] /\ row'[t] = new
      /\ \A u \in Tickets : u # t => row'[u] = row[u]
  BY <1>6, <1>7 DEF TicketInv, TicketTypes
<1>10. /\ opened' \in Seq(Tickets) /\ opened \in Seq(Tickets)
       /\ DOMAIN opened' = 1..(Len(opened) + 1) /\ DOMAIN opened = 1..Len(opened)
       /\ Len(opened) \in Nat
       /\ opened'[Len(opened) + 1] = t /\ \A i \in DOMAIN opened : opened'[i] = opened[i]
  BY <1>7 DEF TicketInv, TicketTypes
<1>11. TicketTypes'
  BY <1>1, <1>2, <1>8, <1>9, <1>10 DEF TicketInv, TicketTypes
<1>12. RowsKept'
  <2>1. ASSUME NEW u \in Tickets
        PROVE  /\ row'[u].state = "none" => row'[u] = NoRow
               /\ draft'[u].step = "created" <=> row'[u].state # "none"
               /\ row'[u].state # "none" => \E i \in DOMAIN opened' : opened'[i] = u
               /\ row'[u].state = "none" => stored'[u].public = 0 /\ writing'[u].step = "none"
    <3>1. CASE u = t
      BY <1>4, <1>6, <1>8, <1>9, <1>10, <3>1
    <3>2. CASE u # t
      <4>1. /\ row[u].state = "none" => row[u] = NoRow
            /\ draft[u].step = "created" <=> row[u].state # "none"
            /\ row[u].state # "none" => \E i \in DOMAIN opened : opened[i] = u
            /\ row[u].state = "none" => stored[u].public = 0 /\ writing[u].step = "none"
        BY DEF TicketInv, RowsKept
      <4>2. row'[u].state # "none" => \E i \in DOMAIN opened' : opened'[i] = u
        BY <1>9, <1>10, <3>2, <4>1
      <4> QED BY <1>1, <1>8, <1>9, <3>2, <4>1, <4>2
    <3> QED BY <3>1, <3>2
  <2>2. ASSUME NEW i \in DOMAIN opened' PROVE row'[opened'[i]].state # "none"
    <3>1. CASE i = Len(opened) + 1
      BY <1>6, <1>9, <1>10, <3>1
    <3>2. CASE i # Len(opened) + 1
      <4>1. i \in DOMAIN opened /\ opened'[i] = opened[i] /\ opened[i] \in Tickets
        BY <1>10, <3>2
      <4>2. row[opened[i]].state # "none" /\ opened[i] # t
        BY <1>3, <4>1 DEF TicketInv, RowsKept
      <4> QED BY <1>9, <4>1, <4>2
    <3> QED BY <3>1, <3>2
  <2> QED BY <2>1, <2>2 DEF RowsKept
<1>13. IssuesLinked'
  <2> SUFFICES ASSUME NEW u \in Tickets
               PROVE  /\ row'[u].index # 0 =>
                            /\ row'[u].index \in DOMAIN issues[row'[u].repo]
                            /\ issues[row'[u].repo][row'[u].index].ticket = u
                      /\ draft'[u].step = "insert" /\ draft'[u].index # 0 =>
                            /\ draft'[u].index \in DOMAIN issues[draft'[u].repo]
                            /\ issues[draft'[u].repo][draft'[u].index].ticket = u
                            /\ issues[draft'[u].repo][draft'[u].index].closed = FALSE
                            /\ issues[draft'[u].repo][draft'[u].index].copies = 0
    BY <1>1 DEF IssuesLinked
  <2>1. CASE u = t
    BY <1>1, <1>4, <1>6, <1>8, <1>9, <2>1 DEF TicketInv, IssuesLinked
  <2>2. CASE u # t
    BY <1>8, <1>9, <2>2 DEF TicketInv, IssuesLinked
  <2> QED BY <2>1, <2>2
<1>14. IssuesOwned'
  <2> SUFFICES ASSUME NEW r \in Repos, NEW i \in DOMAIN issues'[r]
        PROVE LET u == issues'[r][i].ticket
              IN \/ row'[u].state # "none" /\ row'[u].repo = r /\ row'[u].index = i
                 \/ draft'[u].step = "insert" /\ draft'[u].repo = r /\ draft'[u].index = i
                 \/ /\ draft'[u].step = "refused"
                    /\ \/ draft'[u].valid = FALSE \/ <<"row", u>> \in lost'
                       \/ \E v \in Tickets \ {u} : row'[v].index = i /\ row'[v].repo # r
    BY DEF IssuesOwned, CallFailed
  <2>0. issues' = issues /\ i \in DOMAIN issues[r]
    BY <1>1
  <2> SUFFICES LET u == issues[r][i].ticket
              IN \/ row'[u].state # "none" /\ row'[u].repo = r /\ row'[u].index = i
                 \/ draft'[u].step = "insert" /\ draft'[u].repo = r /\ draft'[u].index = i
                 \/ /\ draft'[u].step = "refused"
                    /\ \/ draft'[u].valid = FALSE \/ <<"row", u>> \in lost'
                       \/ \E v \in Tickets \ {u} : row'[v].index = i /\ row'[v].repo # r
    BY <1>1, <2>0
  <2> DEFINE u == issues[r][i].ticket
  <2>1. u \in Tickets
    BY <2>0, TicketFields
  <2>2. \/ row[u].state # "none" /\ row[u].repo = r /\ row[u].index = i
        \/ draft[u].step = "insert" /\ draft[u].repo = r /\ draft[u].index = i
        \/ /\ draft[u].step = "refused"
           /\ \/ draft[u].valid = FALSE \/ CallFailed("row", u)
              \/ \E v \in Tickets \ {u} : row[v].index = i /\ row[v].repo # r
    BY <2>0 DEF TicketInv, IssuesOwned
  <2>3. i # 0
    BY <2>0, TicketFields
  <2> HIDE DEF u
  <2>4. \A v \in Tickets \ {u} : row[v].index = i => row'[v] = row[v]
    BY <1>3, <1>9, <2>3
  <2>5. CASE u = t
    BY <1>1, <1>3, <1>6, <1>9, <2>2, <2>5 DEF u
  <2>6. CASE u # t
    <3>1. draft'[u] = draft[u] /\ row'[u] = row[u]
      BY <1>8, <1>9, <2>1, <2>6
    <3>2. CallFailed("row", u) => <<"row", u>> \in lost'
      BY <1>2 DEF CallFailed
    <3> QED BY <2>2, <2>4, <3>1, <3>2 DEF u
  <2> QED BY <2>5, <2>6
<1>15. \A u \in Tickets : u # t => IssueOf(u)' = IssueOf(u)
  BY <1>1, <1>9 DEF IssueOf
<1>16. new.index # 0 => IssueOf(t)'.closed = FALSE /\ IssueOf(t)'.copies = 0
  BY <1>1, <1>6, <1>9 DEF TicketInv, IssuesLinked, IssueOf
<1>17. ClosingsTraced'
  <2> SUFFICES ASSUME NEW u \in Tickets
        PROVE /\ u \in syncing =>
                     row'[u].index # 0 /\ (row'[u].state = "closed" \/ u \in reopened)
              /\ row'[u].index # 0 /\ row'[u].state = "closed" /\ IssueOf(u)'.closed = FALSE =>
                     u \in syncing \/ CallFailed("sync", u)'
              /\ row'[u].index # 0 /\ IssueOf(u)'.closed = TRUE /\ row'[u].state # "closed" =>
                     u \in reopened
    BY <1>1 DEF ClosingsTraced
  <2>1. CASE u = t
    <3>1. t \notin syncing
      BY <1>3 DEF TicketInv, ClosingsTraced
    <3> QED BY <1>6, <1>9, <1>16, <2>1, <3>1
  <2>2. CASE u # t
    BY <1>2, <1>9, <1>15, <2>2 DEF TicketInv, ClosingsTraced, CallFailed
  <2> QED BY <2>1, <2>2
<1>18. CopiesTraced'
  <2> SUFFICES ASSUME NEW u \in Tickets, row'[u].index # 0
               PROVE  /\ IssueOf(u)'.copies > stored[u].public + Flying(u) =>
                             CallFailed("comment", u)'
                      /\ IssueOf(u)'.copies < stored[u].public + Flying(u) =>
                             CallFailed("copy", u)'
    BY <1>1 DEF CopiesTraced, Flying
  <2>1. CASE u = t
    <3>1. stored[t].public = 0 /\ Flying(t) = 0
      BY <1>3 DEF TicketInv, RowsKept, Flying
    <3>2. IssueOf(t)'.copies = 0
      BY <1>9, <1>16, <2>1
    <3> QED BY <2>1, <3>1, <3>2
  <2>2. CASE u # t
    BY <1>2, <1>9, <1>15, <2>2 DEF TicketInv, CopiesTraced, CallFailed
  <2> QED BY <2>1, <2>2
<1> QED BY <1>11, <1>12, <1>13, <1>14, <1>17, <1>18 DEF TicketInv

(* A refused INSERT leaves the issue behind: a constraint was broken, the  *)
(* index is taken in the other repository, or the call failed.             *)
LEMMA StoreTicketFailsKeeps ==
  ASSUME TicketInv, NEW t \in Tickets, StoreTicketFails(t) PROVE TicketInv'
<1>1. /\ UNCHANGED <<backend, row, opened, issues, syncing, writing, stored, shown, reopened>>
      /\ draft[t].step = "insert"
      /\ draft' = [draft EXCEPT ![t] = [Untold EXCEPT !.step = "refused",
                                                      !.valid = draft[t].valid]]
      /\ \/ ~Accepts(draft[t]) /\ UNCHANGED lost
         \/ lost' = lost \cup {<<"row", t>>}
  BY DEF StoreTicketFails
<1>2. lost \subseteq lost' /\ lost' \subseteq Calls \X Tickets
  BY <1>1 DEF TicketInv, TicketTypes, Calls
<1>3. row[t].state = "none" /\ row[t].index = 0
  BY <1>1 DEF TicketInv, RowsKept, NoRow
<1> DEFINE told == [Untold EXCEPT !.step = "refused", !.valid = draft[t].valid]
<1>4. draft[t] \in Draft /\ draft[t].repo \in Repos /\ draft[t].index \in Nat
  BY TicketFields
<1>5. told \in Draft /\ told.step = "refused" /\ told.valid = draft[t].valid
  BY <1>4 DEF Untold, Draft, Repos
<1> HIDE DEF told
<1>6. /\ draft' \in [Tickets -> Draft] /\ draft'[t] = told
      /\ \A u \in Tickets : u # t => draft'[u] = draft[u]
  BY <1>1, <1>5 DEF TicketInv, TicketTypes, told
<1>7. TicketTypes'
  BY <1>1, <1>2, <1>6 DEF TicketInv, TicketTypes
<1>8. RowsKept'
  <2>1. \A u \in Tickets : draft'[u].step = "created" <=> draft[u].step = "created"
    BY <1>1, <1>5, <1>6
  <2> QED BY <1>1, <2>1 DEF TicketInv, RowsKept
<1>9. IssuesLinked'
  <2>1. \A u \in Tickets : draft'[u].step = "insert" => draft'[u] = draft[u]
    BY <1>5, <1>6
  <2> QED BY <1>1, <2>1 DEF TicketInv, IssuesLinked
<1>10. IssuesOwned'
  <2> SUFFICES ASSUME NEW r \in Repos, NEW i \in DOMAIN issues'[r]
        PROVE LET u == issues'[r][i].ticket
              IN \/ row'[u].state # "none" /\ row'[u].repo = r /\ row'[u].index = i
                 \/ draft'[u].step = "insert" /\ draft'[u].repo = r /\ draft'[u].index = i
                 \/ /\ draft'[u].step = "refused"
                    /\ \/ draft'[u].valid = FALSE \/ <<"row", u>> \in lost'
                       \/ \E v \in Tickets \ {u} : row'[v].index = i /\ row'[v].repo # r
    BY DEF IssuesOwned, CallFailed
  <2>0. issues' = issues /\ i \in DOMAIN issues[r]
    BY <1>1
  <2> SUFFICES LET u == issues[r][i].ticket
              IN \/ row[u].state # "none" /\ row[u].repo = r /\ row[u].index = i
                 \/ draft'[u].step = "insert" /\ draft'[u].repo = r /\ draft'[u].index = i
                 \/ /\ draft'[u].step = "refused"
                    /\ \/ draft'[u].valid = FALSE \/ <<"row", u>> \in lost'
                       \/ \E v \in Tickets \ {u} : row[v].index = i /\ row[v].repo # r
    BY <1>1, <2>0
  <2> DEFINE u == issues[r][i].ticket
  <2>1. u \in Tickets /\ i # 0
    BY <2>0, TicketFields
  <2>2. \/ row[u].state # "none" /\ row[u].repo = r /\ row[u].index = i
        \/ draft[u].step = "insert" /\ draft[u].repo = r /\ draft[u].index = i
        \/ /\ draft[u].step = "refused"
           /\ \/ draft[u].valid = FALSE \/ CallFailed("row", u)
              \/ \E v \in Tickets \ {u} : row[v].index = i /\ row[v].repo # r
    BY <2>0 DEF TicketInv, IssuesOwned
  <2>3. CASE u = t
    <3>1. draft[t].repo = r /\ draft[t].index = i
      BY <1>1, <1>3, <2>2, <2>3
    <3>2. CASE lost' = lost \cup {<<"row", t>>}
      <4>1. <<"row", t>> \in lost'
        BY <3>2 DEF CallFailed
      <4> QED BY <1>5, <1>6, <2>3, <4>1
    <3>3. CASE ~Accepts(draft[t])
      <4>1. draft[t].valid = FALSE \/ ~IndexFree(i)
        <5>1. draft[t].valid \in BOOLEAN
          BY <1>4 DEF Draft
        <5>2. ~(draft[t].valid /\ IndexFree(i))
          BY <3>1, <3>3 DEF Accepts
        <5> QED BY <5>1, <5>2, Zenon
      <4>2. CASE ~IndexFree(i)
        <5>1. PICK v \in Tickets : row[v].index = i
          BY <4>2 DEF IndexFree
        <5>2. v # t /\ issues[row[v].repo][i].ticket = v
          BY <1>3, <2>1, <5>1 DEF TicketInv, IssuesLinked
        <5>3. row[v].repo # r
          BY <2>3, <5>2
        <5> QED BY <1>5, <1>6, <2>3, <5>1, <5>2, <5>3
      <4>3. CASE draft[t].valid = FALSE
        BY <1>5, <1>6, <2>3, <4>3
      <4> QED BY <4>1, <4>2, <4>3
    <3> QED BY <1>1, <3>2, <3>3
  <2>4. CASE u # t
    <3>1. draft'[u] = draft[u]
      BY <1>6, <2>1, <2>4
    <3>2. CallFailed("row", u) => <<"row", u>> \in lost'
      BY <1>2 DEF CallFailed
    <3> HIDE DEF u
    <3> QED BY <2>2, <3>1, <3>2 DEF u
  <2> QED BY <2>3, <2>4
<1>11. ClosingsTraced'
  BY <1>1, <1>2 DEF TicketInv, ClosingsTraced, CallFailed, IssueOf
<1>12. CopiesTraced'
  BY <1>1, <1>2 DEF TicketInv, CopiesTraced, CallFailed, Flying, IssueOf
<1> QED BY <1>7, <1>8, <1>9, <1>10, <1>11, <1>12 DEF TicketInv

(* Every step of the help desk keeps it. *)
LEMMA TicketsKeep == ASSUME TicketInv, [TicketsNext]_ticketVars PROVE TicketInv'
<1>1. CASE UNCHANGED ticketVars
  <2>1. UNCHANGED <<backend, draft, row, opened, issues, syncing, writing, stored, shown, lost,
                    reopened>>
    BY <1>1 DEF ticketVars
  <2>2. TicketTypes' /\ RowsKept' /\ IssuesLinked'
    BY <2>1 DEF TicketInv, TicketTypes, RowsKept, IssuesLinked
  <2>3. IssuesOwned'
    BY <2>1 DEF TicketInv, IssuesOwned, CallFailed
  <2>4. ClosingsTraced' /\ CopiesTraced'
    BY <2>1 DEF TicketInv, ClosingsTraced, CopiesTraced, CallFailed, IssueOf, Flying
  <2> QED BY <2>2, <2>3, <2>4 DEF TicketInv
<1>2. CASE TicketsNext
  <2>1. Kinds \subseteq BOOLEAN
    <3> SUFFICES ASSUME NEW k \in Kinds PROVE k \in BOOLEAN
      OBVIOUS
    <3>1. PICK b \in BOOLEAN :
              k \in {PortalComment(b), WatchComment(b), CustomerComment(b), OnBehalfComment(b)}
      BY Zenon DEF Kinds
    <3>2. PortalComment(b) = b /\ WatchComment(b) = b
      BY Zenon DEF PortalComment, WatchComment
    <3>3. CustomerComment(b) = FALSE /\ OnBehalfComment(b) = FALSE
      BY Zenon DEF CustomerComment, OnBehalfComment
    <3>4. k = b \/ k = FALSE
      BY <3>1, <3>2, <3>3, Zenon
    <3> QED BY <3>4, Zenon
  <2>2. ASSUME NEW t \in Tickets, \E s \in Updates : UpdateITTicket(t, s) PROVE TicketInv'
    BY <2>2, UpdateITTicketKeeps
  <2>3. ASSUME NEW t \in Tickets, \E b \in Kinds : AddTicketComment(t, b) PROVE TicketInv'
    BY <2>1, <2>3, AddTicketCommentKeeps
  <2>4. ASSUME NEW w \in Watches, GetAlerts(w) \/ \E t \in Tickets : SubmitAck(w, t)
        PROVE  TicketInv'
    BY <2>4, GetAlertsKeeps, SubmitAckKeeps
  <2> QED BY <1>2, <2>2, <2>3, <2>4, CreateITTicketKeeps, StoreTicketKeeps,
             StoreTicketFailsKeeps, SyncClosedKeeps, CreateTicketCommentKeeps DEF TicketsNext
<1> QED BY <1>1, <1>2

(* A ticket, its issue, its comments and the lists of it disagree for the  *)
(* listed reasons only: Service.CreateITTicket, UpdateITTicket,            *)
(* AddTicketComment and ListTickets of ops-api.                            *)
THEOREM TicketsAreExplained == TicketsSpec => []TicketsExplained
<1>1. TicketsInit => TicketInv
  BY TicketInitInv
<1>2. TicketInv /\ [TicketsNext]_ticketVars => TicketInv'
  BY TicketsKeep
<1> QED BY <1>1, <1>2, TicketInvSuffices, PTL DEF TicketsSpec

-----------------------------------------------------------------------------
(***************************************************************************)
(* The account of a customer.                                              *)
(***************************************************************************)
HIDE TicketsAssumption
USE LifecycleAssumption

Account == [status: {"active", "closed"}, cash: Nat, total: Nat, named: BOOLEAN]
Closure == [step: {"open", "list", "sell", "pay", "write"}, row: Nat, cash: Nat, held: Nat,
            proceeds: Nat, named: BOOLEAN]
Grant == [kind: {"none", "key", "webhook"}, stored: {"none", "active", "revoked"},
          told: {"none", "active", "revoked"}]
Download == [asked: Statement, got: Statement, sales: BOOLEAN]

AccountTypes ==
    /\ store \in {"pgx", "map"}
    /\ rows \in Seq(Account) /\ current \in DOMAIN rows
    /\ held \in Nat /\ shares \in Nat /\ owed \in Nat /\ paid \in Nat
    /\ closing \in [Tabs -> Closure]
    /\ \A c \in Tabs : closing[c] # Open => /\ closing[c].step # "open"
                                            /\ closing[c].row \in DOMAIN rows
    /\ credit.row \in Nat
    /\ credit # NoCredit => credit.row \in DOMAIN rows /\ credit.copy \in Account
    /\ shut \subseteq DOMAIN rows /\ overlaps \in BOOLEAN

RecordTypes ==
    /\ erasure \in [table: 0..9, listed: SUBSET Range(Scrubbed)]
    /\ store = "map" => erasure.table = 0
    /\ erased \in Nat /\ handed \in Nat /\ asked \in Nat
    /\ has \subseteq Plain /\ late \subseteq Range(Scrubbed)
    /\ grants \in [1..MaxAccountRequests -> Grant]
    /\ statements \in Seq(Statement) /\ documents \subseteq Download

Disturbed == erased > 0 \/ erasure # NoErasure
Pending == IF credit = NoCredit THEN 0 ELSE 1
BalanceOf(rs) == SumOver([i \in DOMAIN rs |-> rs[i].cash], DOMAIN rs)
Balance == BalanceOf(rows)

(* Without an overlap, one closure or one deposit is under way, and the    *)
(* balance a deposit has read from a table is still there.                 *)
OneAtATime ==
    ~overlaps =>
        /\ Busy => credit = NoCredit
        /\ \A c, d \in Tabs : closing[c] # Open /\ closing[d] # Open => c = d
        /\ store = "pgx" /\ credit # NoCredit =>
               credit.copy.cash = rows[credit.row].cash

(* Without an overlap, and while no error leaves the positions, the row or *)
(* the holdings behind, what was paid, what the rows still have and what   *)
(* the positions are worth come to no more than the customer put in.       *)
PaidOnceAt(c) ==
    LET k == closing[c]
    IN /\ store = "pgx" => k.cash = rows[k.row].cash
       /\ k.step = "list" => k.held <= shares /\ paid + Balance + shares <= owed
       /\ k.step = "sell" => k.proceeds = shares /\ paid + Balance + shares <= owed
       /\ k.step = "pay" => shares = 0 /\ paid + Balance + k.proceeds <= owed
       /\ k.step = "write" => shares = 0 /\ paid + Balance <= owed + rows[k.row].cash
PaidOnce ==
    ~overlaps /\ (\A e \in {"positions", "sell", "row", "delete"} : ~Failed(e)) =>
        /\ ~Busy => paid + Balance + Pending + shares <= owed /\ held <= shares
        /\ \A c \in Tabs : closing[c] # Open => PaidOnceAt(c)

(* Without an overlap, an erasure or a second row, and while no error      *)
(* keeps money from the customer, nothing is missing.                      *)
PaidInFullAt(c) ==
    LET k == closing[c]
    IN /\ k.row = 1 /\ k.cash = rows[1].cash
       /\ k.step = "list" => \/ paid + rows[1].cash >= owed
                             \/ shares >= 1 /\ paid + rows[1].cash + 1 >= owed
       /\ k.step \in {"sell", "pay"} => paid + rows[1].cash + k.proceeds >= owed
       /\ k.step = "write" => paid >= owed
PaidInFull ==
    ~overlaps /\ ~Disturbed /\ Len(rows) = 1
    /\ (\A e \in {"pay", "positions", "credit"} : ~Failed(e)) =>
        /\ credit # NoCredit => credit.row = 1 /\ credit.copy = rows[1]
        /\ ~Busy => \/ paid + rows[1].cash + Pending >= owed
                    \/ /\ rows[1].status = "active" /\ shares >= 1
                       /\ paid + rows[1].cash + Pending + 1 >= owed
        /\ \A c \in Tabs : closing[c] # Open => PaidInFullAt(c)

(* A row that was closed stays so, without an overlap. *)
ShutStays ==
    ~overlaps => \A i \in shut : /\ rows[i].status = "closed"
                                 /\ credit # NoCredit /\ credit.row = i =>
                                        credit.copy.status = "closed"

(* Without a deposit or an erasure, a closed row has nothing left. *)
BalancesGone ==
    /\ owed >= 2 /\ (owed = 2 => credit = NoCredit)
    /\ owed = 2 /\ ~Failed("delete") /\ ~Disturbed =>
          \A i \in DOMAIN rows : rows[i].status = "closed" =>
              rows[i].cash = 0 /\ rows[i].total = 0 /\ held = 0

(* What an erasure has cleared: the tables it lists, and of the map all of *)
(* them.                                                                   *)
Cleared(t) == t \in erasure.listed \/ (store = "map" /\ erased > 0)
ErasureTraced ==
    /\ \A t \in Range(Scrubbed) : Cleared(t) => Past(t)
    /\ \A t \in Range(Scrubbed) : Cleared(t) /\ Holds(t) =>
          \/ t \in late
          \/ t \in Ops /\ (Failed(t) \/ store = "map")
          \/ store = "map" /\ t = "investment_portfolios" /\ Len(rows) > 1
    /\ store = "pgx" =>
          \A t \in Range(Scrubbed) : Past(t) => t \in erasure.listed \/ Failed(t)

GrantsTraced ==
    \A r \in 1..MaxAccountRequests :
        LET g == grants[r]
        IN /\ g.stored # "none" => g.kind # "none"
           /\ g.told = "revoked" /\ g.stored = "active" => g.kind = "key" /\ Failed("revoke")
           /\ g.kind = "key" /\ g.told = "active" /\ g.stored # "active" =>
                  Failed("key") \/ erased > 0 \/ erasure.table > 1
           /\ g.kind = "webhook" /\ g.stored = "active" => g.told = "active"

PapersTraced ==
    /\ Len(statements) <= handed
    /\ Len(statements) < handed => Failed("statement") \/ Failed("nameless")
    /\ "tax_lot_sales" \notin has => erased > 0 \/ Past("tax_lot_sales")
    /\ \A d \in documents :
          /\ d.got # d.asked => d.asked.month # March \/ d.asked.type = "form_1099b"
          /\ d.got.type = "form_1099b" /\ d.sales = FALSE => erased > 0 \/ Past("tax_lot_sales")

MoneyInv == OneAtATime /\ PaidOnce /\ PaidInFull /\ ShutStays /\ BalancesGone
RecordInv == ErasureTraced /\ GrantsTraced /\ PapersTraced
AccountInv == AccountTypes /\ RecordTypes /\ MoneyInv /\ RecordInv

(* What the rows have together, and how it changes. *)
LEMMA BalanceIs ==
  ASSUME NEW rs \in Seq(Account)
  PROVE  /\ BalanceOf(rs) \in Nat /\ DOMAIN rs = 1..Len(rs) /\ Len(rs) \in Nat
         /\ \A j \in DOMAIN rs : /\ rs[j] \in Account /\ rs[j].cash \in Nat
                                 /\ rs[j].cash <= BalanceOf(rs)
<1> DEFINE f == [i \in DOMAIN rs |-> rs[i].cash]
<1>1. /\ DOMAIN rs = 1..Len(rs) /\ Len(rs) \in Nat /\ IsFiniteSet(DOMAIN rs)
      /\ \A j \in DOMAIN rs : rs[j] \in Account
  BY FS_Interval
<1>2. \A j \in DOMAIN rs : rs[j].cash \in Nat /\ f[j] = rs[j].cash
  BY <1>1 DEF Account
<1> HIDE DEF f
<1>3. SumOver(f, DOMAIN rs) \in Nat
  BY <1>1, <1>2, SumNat
<1>4. \A j \in DOMAIN rs : f[j] <= SumOver(f, DOMAIN rs)
  BY <1>1, <1>2, SumBounds
<1> QED BY <1>1, <1>2, <1>3, <1>4 DEF BalanceOf, f

LEMMA BalanceAt ==
  ASSUME NEW rs \in Seq(Account), NEW ss \in Seq(Account), Len(ss) = Len(rs),
         NEW j \in DOMAIN rs, \A i \in DOMAIN rs \ {j} : ss[i].cash = rs[i].cash
  PROVE  BalanceOf(ss) = BalanceOf(rs) + (ss[j].cash - rs[j].cash)
<1> DEFINE f == [i \in DOMAIN rs |-> rs[i].cash]  g == [i \in DOMAIN rs |-> ss[i].cash]
<1>1. DOMAIN ss = DOMAIN rs /\ IsFiniteSet(DOMAIN rs)
  <2>1. DOMAIN rs = 1..Len(rs) /\ DOMAIN ss = 1..Len(ss) /\ Len(rs) \in Nat
    OBVIOUS
  <2> QED BY <2>1, FS_Interval
<1>2. \A i \in DOMAIN rs : rs[i].cash \in Nat /\ ss[i].cash \in Nat
  BY <1>1, BalanceIs
<1>3. \A i \in DOMAIN rs : f[i] \in Int /\ g[i] \in Int /\ f[i] = rs[i].cash /\ g[i] = ss[i].cash
  BY <1>2
<1>4. \A i \in DOMAIN rs \ {j} : g[i] = f[i]
  BY <1>3
<1> HIDE DEF f, g
<1>5. SumOver(g, DOMAIN rs) = SumOver(f, DOMAIN rs) + (g[j] - f[j])
  <2> DEFINE S == DOMAIN rs
  <2>1. IsFiniteSet(S) /\ j \in S
    BY <1>1
  <2>3. \A y \in S : f[y] \in Int /\ g[y] \in Int
    BY <1>3
  <2>4. \A y \in S \ {j} : g[y] = f[y]
    BY <1>4
  <2> HIDE DEF S
  <2>2. SumOver(g, S) = SumOver(f, S) + (g[j] - f[j])
    <3> DEFINE T == S \ {j}
    <3>1. SumOver(g, S) = g[j] + SumOver(g, T)
      BY <2>1, <2>3, SumRemove
    <3>2. SumOver(f, S) = f[j] + SumOver(f, T)
      BY <2>1, <2>3, SumRemove
    <3>3. IsFiniteSet(T) /\ \A y \in T : f[y] \in Int /\ g[y] = f[y]
      BY <2>1, <2>3, <2>4, FS_Subset
    <3> HIDE DEF T
    <3>4. SumOver(g, T) = SumOver(f, T) /\ SumOver(f, T) \in Int
      BY <3>3, SumEqual, SumType
    <3>5. f[j] \in Int /\ g[j] \in Int
      BY <2>1, <2>3
    <3> QED BY <3>1, <3>2, <3>4, <3>5
  <2> QED BY <2>2 DEF S
<1>6. BalanceOf(rs) = SumOver(f, DOMAIN rs) /\ BalanceOf(ss) = SumOver(g, DOMAIN rs)
  BY <1>1 DEF BalanceOf, f, g
<1> QED BY <1>3, <1>5, <1>6

LEMMA BalanceAppend ==
  ASSUME NEW rs \in Seq(Account), NEW r \in Account, r.cash = 0
  PROVE  BalanceOf(Append(rs, r)) = BalanceOf(rs)
<1> DEFINE n == Len(rs) + 1  ss == Append(rs, r)
           f == [i \in DOMAIN rs |-> rs[i].cash]  g == [i \in DOMAIN ss |-> ss[i].cash]
<1>1. /\ ss \in Seq(Account) /\ DOMAIN ss = 1..n /\ DOMAIN rs = 1..Len(rs) /\ n \in DOMAIN ss
      /\ ss[n] = r /\ \A i \in DOMAIN rs : i \in DOMAIN ss /\ ss[i] = rs[i]
      /\ DOMAIN rs = DOMAIN ss \ {n}
      /\ IsFiniteSet(DOMAIN ss) /\ IsFiniteSet(DOMAIN rs)
  <2>1. /\ ss \in Seq(Account) /\ DOMAIN ss = 1..n /\ DOMAIN rs = 1..Len(rs) /\ Len(rs) \in Nat
        /\ ss[n] = r /\ \A i \in DOMAIN rs : i \in DOMAIN ss /\ ss[i] = rs[i]
    OBVIOUS
  <2>2. 1..Len(rs) = (1..n) \ {n} /\ n \in 1..n
    BY <2>1
  <2> QED BY <2>1, <2>2, FS_Interval
<1> HIDE DEF ss
<1>2. /\ \A i \in DOMAIN ss : g[i] \in Int
      /\ \A i \in DOMAIN rs : f[i] \in Int /\ g[i] = f[i]
      /\ g[n] = 0
  BY <1>1, BalanceIs
<1> HIDE DEF f, g, n
<1>3. SumOver(g, DOMAIN ss) = g[n] + SumOver(g, DOMAIN ss \ {n})
  BY <1>1, <1>2, SumRemove
<1>4. SumOver(g, DOMAIN rs) = SumOver(f, DOMAIN rs) /\ SumOver(f, DOMAIN rs) \in Int
  BY <1>1, <1>2, SumEqual, SumType
<1>5. BalanceOf(rs) = SumOver(f, DOMAIN rs) /\ BalanceOf(ss) = SumOver(g, DOMAIN ss)
  BY DEF BalanceOf, f, g
<1> QED BY <1>1, <1>2, <1>3, <1>4, <1>5 DEF ss

(* The tables of an erasure, in its order. *)
LEMMA Tables ==
  /\ DOMAIN Scrubbed = 1..8
  /\ Scrubbed[1] = "customer_api_keys" /\ Scrubbed[2] = "webhook_subscriptions"
  /\ Scrubbed[3] = "recurring_deposits" /\ Scrubbed[4] = "portfolio_holdings"
  /\ Scrubbed[5] = "tax_lot_sales" /\ Scrubbed[6] = "investment_portfolios"
  /\ Scrubbed[7] = "it_tickets" /\ Scrubbed[8] = "ticket_comments"
  /\ Range(Scrubbed) = {"customer_api_keys", "webhook_subscriptions", "recurring_deposits",
                        "portfolio_holdings", "tax_lot_sales", "investment_portfolios",
                        "it_tickets", "ticket_comments"}
  /\ \A i, j \in 1..8 : Scrubbed[i] = Scrubbed[j] => i = j
<1>1. /\ DOMAIN Scrubbed = 1..8
      /\ Scrubbed[1] = "customer_api_keys" /\ Scrubbed[2] = "webhook_subscriptions"
      /\ Scrubbed[3] = "recurring_deposits" /\ Scrubbed[4] = "portfolio_holdings"
      /\ Scrubbed[5] = "tax_lot_sales" /\ Scrubbed[6] = "investment_portfolios"
      /\ Scrubbed[7] = "it_tickets" /\ Scrubbed[8] = "ticket_comments"
  BY DEF Scrubbed
<1>2. 1..8 = {1, 2, 3, 4, 5, 6, 7, 8}
  OBVIOUS
<1>3. \A t : t \in Range(Scrubbed) <=> \E i \in 1..8 : t = Scrubbed[i]
  BY <1>1 DEF Range
<1>4. Range(Scrubbed) = {"customer_api_keys", "webhook_subscriptions", "recurring_deposits",
                         "portfolio_holdings", "tax_lot_sales", "investment_portfolios",
                         "it_tickets", "ticket_comments"}
  BY <1>1, <1>2, <1>3
<1>5. \A i, j \in 1..8 : Scrubbed[i] = Scrubbed[j] => i = j
  BY <1>1, <1>2
<1> QED BY <1>1, <1>4, <1>5

LEMMA AccountInitInv == LifecycleInit => AccountInv
<1> SUFFICES ASSUME LifecycleInit PROVE AccountInv
  OBVIOUS
<1> DEFINE first == [status |-> "active", cash |-> 1, total |-> 2, named |-> TRUE]
<1>1. first \in Account /\ rows = <<first>> /\ first.cash = 1 /\ first.status = "active"
  BY DEF LifecycleInit, Account
<1> HIDE DEF first
<1>2. /\ rows \in Seq(Account) /\ Len(rows) = 1 /\ DOMAIN rows = {1} /\ rows[1] = first
  BY <1>1
<1>3. /\ closing = [c \in Tabs |-> Open] /\ credit = NoCredit /\ ~Busy /\ ~overlaps /\ Pending = 0
      /\ current = 1 /\ held = 1 /\ shares = 1 /\ owed = 2 /\ paid = 0 /\ shut = {}
  BY DEF LifecycleInit, Busy, Pending
<1>4. Balance = 1
  <2> DEFINE f == [i \in DOMAIN rows |-> rows[i].cash]
  <2>1. f[1] = 1 /\ IsFiniteSet(DOMAIN rows) /\ \A i \in DOMAIN rows : f[i] \in Int
    <3>1. IsFiniteSet(DOMAIN rows)
      BY <1>2, FS_Singleton
    <3>2. \A i \in DOMAIN rows : i = 1 /\ f[i] = 1
      BY <1>1, <1>2
    <3> QED BY <1>2, <3>1, <3>2
  <2> HIDE DEF f
  <2>2. SumOver(f, DOMAIN rows) = f[1] + SumOver(f, DOMAIN rows \ {1})
    BY <1>2, <2>1, SumRemove
  <2>3. DOMAIN rows \ {1} = {}
    BY <1>2
  <2>4. SumOver(f, {}) = 0
    BY SumEmpty
  <2> QED BY <2>1, <2>2, <2>3, <2>4 DEF Balance, BalanceOf, f
<1>5. AccountTypes
  <2>1. Open \in Closure /\ NoCredit.row = 0
    BY DEF Open, Closure, NoCredit
  <2>2. store \in {"pgx", "map"} /\ overlaps \in BOOLEAN
    BY DEF LifecycleInit
  <2>3. closing \in [Tabs -> Closure] /\ \A c \in Tabs : closing[c] = Open
    BY <1>3, <2>1
  <2> QED BY <1>2, <1>3, <2>1, <2>2, <2>3 DEF AccountTypes
<1>6. RecordTypes
  <2>1. Unasked \in Grant /\ NoErasure \in [table: 0..9, listed: SUBSET Range(Scrubbed)]
        /\ NoErasure.table = 0
    BY DEF Unasked, Grant, NoErasure
  <2> QED BY <2>1 DEF LifecycleInit, RecordTypes
<1>7. OneAtATime /\ ShutStays
  BY <1>3 DEF OneAtATime, ShutStays
<1>8. PaidOnce
  BY <1>3, <1>4 DEF PaidOnce
<1>9. PaidInFull
  BY <1>1, <1>2, <1>3 DEF PaidInFull
<1>10. BalancesGone
  BY <1>1, <1>2, <1>3 DEF BalancesGone
<1>11. ErasureTraced
  <2>1. \A t : ~Past(t) /\ t \notin erasure.listed /\ ~(erased > 0)
    BY DEF LifecycleInit, Past, NoErasure
  <2> QED BY <2>1 DEF ErasureTraced, Cleared
<1>12. GrantsTraced
  BY DEF LifecycleInit, GrantsTraced, Unasked
<1>13. PapersTraced
  BY DEF LifecycleInit, PapersTraced, Plain
<1> QED BY <1>5, <1>6, <1>7, <1>8, <1>9, <1>10, <1>11, <1>12, <1>13
        DEF AccountInv, MoneyInv, RecordInv

(* What the types say of a row, a closure and a tab. *)
LEMMA AccountFacts ==
  ASSUME AccountTypes
  PROVE  /\ DOMAIN rows = 1..Len(rows) /\ Len(rows) \in Nat /\ Len(rows) >= 1
         /\ 1 \in DOMAIN rows /\ current \in DOMAIN rows
         /\ \A i \in DOMAIN rows :
               /\ rows[i] \in Account /\ rows[i].cash \in Nat /\ rows[i].total \in Nat
               /\ rows[i].cash <= Balance
               /\ rows[i].status \in {"active", "closed"} /\ rows[i].named \in BOOLEAN
         /\ Balance \in Nat /\ Pending \in {0, 1}
         /\ held \in Nat /\ shares \in Nat /\ owed \in Nat /\ paid \in Nat
         /\ \A c \in Tabs : /\ closing[c] \in Closure
                            /\ closing[c].cash \in Nat /\ closing[c].held \in Nat
                            /\ closing[c].proceeds \in Nat
                            /\ closing[c] # Open => /\ closing[c].row \in DOMAIN rows
                                                    /\ closing[c].step \in {"list", "sell", "pay", "write"}
         /\ Busy <=> \E c \in Tabs : closing[c] # Open
<1>1. rows \in Seq(Account) /\ current \in DOMAIN rows
  BY DEF AccountTypes
<1>2. /\ DOMAIN rows = 1..Len(rows) /\ Len(rows) \in Nat /\ Balance \in Nat
      /\ \A i \in DOMAIN rows : rows[i] \in Account /\ rows[i].cash <= Balance
  BY <1>1, BalanceIs DEF Balance
<1>3. Len(rows) >= 1 /\ 1 \in DOMAIN rows
  BY <1>1, <1>2
<1>4. \A r \in Account : /\ r.cash \in Nat /\ r.total \in Nat
                         /\ r.status \in {"active", "closed"} /\ r.named \in BOOLEAN
  BY DEF Account
<1>5. \A c \in Tabs : /\ closing[c] \in Closure
                      /\ closing[c] # Open => /\ closing[c].row \in DOMAIN rows
                                              /\ closing[c].step # "open"
  BY DEF AccountTypes
<1>6. \A k \in Closure : /\ k.cash \in Nat /\ k.held \in Nat /\ k.proceeds \in Nat
                         /\ k.step \in {"open", "list", "sell", "pay", "write"}
  BY DEF Closure
<1>7. /\ Pending \in {0, 1} /\ held \in Nat /\ shares \in Nat /\ owed \in Nat /\ paid \in Nat
      /\ Busy <=> \E c \in Tabs : closing[c] # Open
  BY DEF AccountTypes, Pending, Busy
<1>8. \A c \in Tabs : /\ closing[c].cash \in Nat /\ closing[c].held \in Nat
                      /\ closing[c].proceeds \in Nat
                      /\ closing[c] # Open => closing[c].step \in {"list", "sell", "pay", "write"}
  BY <1>5, <1>6
<1>9. \A i \in DOMAIN rows : /\ rows[i].cash \in Nat /\ rows[i].total \in Nat
                             /\ rows[i].status \in {"active", "closed"} /\ rows[i].named \in BOOLEAN
  BY <1>2, <1>4
<1> QED BY <1>1, <1>2, <1>3, <1>5, <1>7, <1>8, <1>9

LEMMA AccountInvSuffices == AccountInv => AccountsExplained
<1> SUFFICES ASSUME AccountInv PROVE AccountsExplained
  OBVIOUS
<1>0. /\ AccountTypes /\ RecordTypes /\ OneAtATime /\ PaidOnce /\ PaidInFull /\ ShutStays
      /\ BalancesGone /\ ErasureTraced /\ GrantsTraced /\ PapersTraced
  BY DEF AccountInv, MoneyInv, RecordInv
<1>1. /\ Len(rows) >= 1 /\ Len(rows) \in Nat /\ 1 \in DOMAIN rows /\ current \in DOMAIN rows
      /\ \A i \in DOMAIN rows : rows[i] \in Account /\ rows[i].cash \in Nat
                                /\ rows[i].total \in Nat /\ rows[i].cash <= Balance
                                /\ rows[i].status \in {"active", "closed"}
      /\ Balance \in Nat /\ Pending \in {0, 1}
      /\ held \in Nat /\ shares \in Nat /\ owed \in Nat /\ paid \in Nat
  BY <1>0, AccountFacts
<1>2. \A c \in Tabs : closing[c].proceeds \in Nat
        /\ (closing[c] # Open => /\ closing[c].row \in DOMAIN rows
                                 /\ closing[c].step \in {"list", "sell", "pay", "write"})
  BY <1>0, AccountFacts
<1>3. LifecycleTypeOK
  <2>1. /\ store \in {"pgx", "map"} /\ closing \in [Tabs -> Closure]
        /\ credit.row \in Nat /\ shut \subseteq DOMAIN rows /\ overlaps \in BOOLEAN
    BY <1>0 DEF AccountTypes
  <2>2. shut \subseteq Nat
    <3>1. DOMAIN rows = 1..Len(rows)
      BY <1>0, AccountFacts
    <3> QED BY <2>1, <3>1, <1>1
  <2> QED BY <1>0, <1>1, <2>1, <2>2
          DEF LifecycleTypeOK, RecordTypes, Account, Closure, Grant, Download
<1>4. PayoutExplained
  <2>1. ASSUME paid > owed, ~overlaps,
               \A e \in {"positions", "sell", "row", "delete"} : ~Failed(e)
        PROVE  FALSE
    <3>1. CASE ~Busy
      <4>1. paid + Balance + Pending + shares <= owed
        BY <1>0, <2>1, <3>1 DEF PaidOnce
      <4> QED BY <1>1, <2>1, <4>1
    <3>2. CASE Busy
      <4>1. PICK c \in Tabs : closing[c] # Open
        BY <3>2 DEF Busy
      <4> DEFINE k == closing[c]
      <4>2. /\ k.step = "list" => paid + Balance + shares <= owed
            /\ k.step = "sell" => paid + Balance + shares <= owed
            /\ k.step = "pay" => paid + Balance + k.proceeds <= owed
            /\ k.step = "write" => paid + Balance <= owed + rows[k.row].cash
        BY <1>0, <2>1, <4>1 DEF PaidOnce, PaidOnceAt
      <4>3. /\ k.proceeds \in Nat /\ k.row \in DOMAIN rows
            /\ k.step \in {"list", "sell", "pay", "write"}
        BY <1>2, <4>1
      <4>4. rows[k.row].cash \in Nat /\ rows[k.row].cash <= Balance
        BY <1>1, <4>3
      <4> QED BY <1>1, <2>1, <4>2, <4>3, <4>4
    <3> QED BY <3>1, <3>2
  <2>2. ASSUME ~Busy, rows[1].status = "closed", rows[1].cash = 0, paid < owed, ~overlaps,
               \A e \in {"pay", "positions", "credit"} : ~Failed(e),
               credit = NoCredit, ~Disturbed, ~(Len(rows) > 1)
        PROVE  FALSE
    <3>0. Pending = 0
      BY <2>2 DEF Pending
    <3> DEFINE n == Len(rows)
    <3>1. n \in Nat /\ n >= 1 /\ ~(n > 1) /\ Pending = 0
      BY <1>1, <2>2, <3>0
    <3> HIDE DEF n
    <3>3. n = 1
      BY <3>1
    <3>2. paid + rows[1].cash + Pending >= owed
      BY <1>0, <2>2, <3>1, <3>3 DEF PaidInFull, n
    <3> QED BY <1>1, <2>2, <3>1, <3>2
  <2>3. \A i \in shut : rows[i].status = "active" => overlaps
    BY <1>0 DEF ShutStays
  <2>4. paid > owed =>
           overlaps \/ \E e \in {"positions", "sell", "row", "delete"} : Failed(e)
    BY <2>1
  <2>5. ~Busy /\ rows[1].status = "closed" /\ rows[1].cash = 0 /\ paid < owed =>
           \/ Failed("pay") \/ Failed("positions") \/ Failed("credit") \/ overlaps
           \/ credit # NoCredit
           \/ erased > 0 \/ erasure # NoErasure
           \/ Len(rows) > 1
    BY <2>2 DEF Disturbed
  <2> QED BY <2>3, <2>4, <2>5 DEF PayoutExplained
<1>5. StatementsAddUp
  <2>1. ASSUME GetPortfolio.status = "closed", EndingBalance > 0, ~(owed > 2),
               ~Failed("delete"), ~Disturbed
        PROVE  FALSE
    <3>1. owed = 2
      BY <1>0, <1>1, <2>1 DEF BalancesGone
    <3>2. GetPortfolio = rows[current] /\ HoldingsOf = held
      BY DEF GetPortfolio, OldestRow, MapRecord, HoldingsOf, GetHoldings, MapHoldings
    <3>3. rows[current].cash = 0 /\ rows[current].total = 0 /\ held = 0
      BY <1>0, <1>1, <2>1, <3>1, <3>2 DEF BalancesGone
    <3>4. EndingBalance = 0
      BY <3>2, <3>3 DEF EndingBalance, StatementAccount, StatementHoldings
    <3> QED BY <2>1, <3>4
  <2>2. ASSUME NEW total \in 0..2, NEW gain \in -1..3,
               gain >= 0 /\ (gain < total \/ gain = 0)
        PROVE  OpeningBalance(total, gain) + UnrealizedGain(total, gain) = 20 * total
    BY <2>2 DEF OpeningBalance, UnrealizedGain
  <2>3. ~Busy /\ GetPortfolio.status = "closed" /\ EndingBalance > 0 =>
           owed > 2 \/ Failed("row") \/ Failed("delete") \/ erased > 0
           \/ erasure # NoErasure
    BY <2>1 DEF Disturbed
  <2>4. PartsAddUp
    BY <2>2 DEF PartsAddUp
  <2> QED BY <2>3, <2>4 DEF StatementsAddUp
<1>6. ErasureExplained
  <2>1. store \in {"pgx", "map"} /\ erasure.listed \subseteq Range(Scrubbed)
    BY <1>0 DEF AccountTypes, RecordTypes
  <2>2. ASSUME NEW t \in Range(Scrubbed), Cleared(t), Holds(t)
        PROVE  \/ t \in late
               \/ t \in Ops /\ (Failed(t) \/ store = "map")
               \/ store = "map" /\ t = "investment_portfolios" /\ Len(rows) > 1
    BY <1>0, <2>2 DEF ErasureTraced
  <2>3. \A t \in erasure.listed : t \in Range(Scrubbed) /\ Cleared(t)
    BY <2>1 DEF Cleared
  <2>4. ASSUME erased > 0, erasure.table = 0, NEW t \in Range(Scrubbed)
        PROVE  store = "map" \/ t \in erasure.listed \/ Failed(t)
    <3>1. Past(t)
      BY <2>4 DEF Past
    <3> QED BY <1>0, <2>1, <3>1 DEF ErasureTraced
  <2>5. ASSUME erased > 0, erasure.table = 0,
               NEW t \in PortalCertificate \cup DownloadCertificate, Holds(t)
        PROVE  \/ t \in late \/ Failed(t)
               \/ store = "map" /\ Len(rows) > 1
    <3>1. t \in {"investment_portfolios", "customer_api_keys",
                 "webhook_subscriptions", "recurring_deposits"}
      BY DEF PortalCertificate, DownloadCertificate, GetGDPRCertificate
    <3>2. t \in Range(Scrubbed) /\ t \notin Ops
      BY <3>1, Tables DEF Ops
    <3>3. Failed(t) \/ Cleared(t)
      BY <2>4, <2>5, <3>2 DEF Cleared
    <3> QED BY <2>2, <2>5, <3>2, <3>3
  <2> QED BY <2>2, <2>3, <2>4, <2>5 DEF ErasureExplained
<1>7. GrantsExplained
  <2>1. DOMAIN grants = 1..MaxAccountRequests
    BY <1>0 DEF RecordTypes
  <2>2. /\ PortalListAPIKeys(TRUE) = Granted("key") /\ PortalListWebhooks(TRUE) = Granted("webhook")
    BY DEF PortalListAPIKeys, BLLListAPIKeys, RPCListAPIKeys, ListAPIKeys, KeyRows, MapKeys,
           PortalListWebhooks, BLLListWebhooks, RPCListWebhooks, ListWebhooks, WebhookRows,
           MapWebhooks
  <2>3. \A r \in DOMAIN grants : \A kind :
           r \in Granted(kind) <=> grants[r].kind = kind /\ grants[r].stored = "active"
    BY DEF Granted
  <2>4. ASSUME NEW r \in DOMAIN grants
        PROVE  LET g == grants[r]
               IN /\ g.told = "revoked" /\ r \in Granted("key") \cup Granted("webhook") =>
                         g.kind = "key" /\ Failed("revoke")
                  /\ g.kind = "key" /\ g.told = "active" /\ r \notin Granted("key") =>
                         Failed("key") \/ erased > 0 \/ erasure.table > 1
                  /\ g.kind = "webhook" /\ r \in Granted("webhook") => g.told = "active"
    <3> DEFINE g == grants[r]
    <3>1. /\ g.told = "revoked" /\ g.stored = "active" => g.kind = "key" /\ Failed("revoke")
          /\ g.kind = "key" /\ g.told = "active" /\ g.stored # "active" =>
                 Failed("key") \/ erased > 0 \/ erasure.table > 1
          /\ g.kind = "webhook" /\ g.stored = "active" => g.told = "active"
      BY <1>0, <2>1 DEF GrantsTraced
    <3> HIDE DEF g
    <3>2. \A kind : r \in Granted(kind) <=> g.kind = kind /\ g.stored = "active"
      BY <2>3 DEF g
    <3>3. /\ g.told = "revoked" /\ r \in Granted("key") \cup Granted("webhook") =>
                 g.kind = "key" /\ Failed("revoke")
          /\ g.kind = "key" /\ g.told = "active" /\ r \notin Granted("key") =>
                 Failed("key") \/ erased > 0 \/ erasure.table > 1
          /\ g.kind = "webhook" /\ r \in Granted("webhook") => g.told = "active"
      BY <3>1, <3>2
    <3> QED BY <3>3 DEF g
  <2> QED BY <2>2, <2>4 DEF GrantsExplained
<1>8. DownloadsExplained
  <2>1. statements \in Seq(Statement)
    BY <1>0 DEF RecordTypes
  <2>2. DOMAIN statements = 1..Len(statements) /\ Len(statements) \in Nat
    BY <2>1
  <2>3. PortalListStatements(TRUE) = DOMAIN statements
    BY DEF PortalListStatements, BLLListStatements, RPCListStatements, ListStatements,
           StatementRows, MapStatements
  <2>4. Cardinality(PortalListStatements(TRUE)) = Len(statements)
    <3> DEFINE n == Len(statements)
    <3>1. n \in Nat /\ PortalListStatements(TRUE) = 1..n
      BY <2>2, <2>3
    <3> HIDE DEF n
    <3>2. Cardinality(1..n) = n
      BY <3>1, FS_Interval
    <3> QED BY <3>1, <3>2 DEF n
  <2>5. RunEOMStatementBatch = {}
    BY DEF RunEOMStatementBatch, GenerateBatchStatements, RPCStatement, TaxStatement
  <2>6. Cardinality(RunEOMStatementBatch) = 0
    BY <2>5, FS_EmptySet
  <2>7. documents \subseteq Download
    BY <1>0 DEF RecordTypes
  <2>8. \A d \in documents : d.sales \in BOOLEAN
    BY <2>7 DEF Download
  <2>9. \A d \in documents :
           /\ d.got # d.asked => d.asked.month # March \/ d.asked.type = "form_1099b"
           /\ d.got.type = "form_1099b" /\ ~d.sales => erased > 0 \/ Past("tax_lot_sales")
    <3>1. ASSUME NEW d \in documents, d.got.type = "form_1099b", ~d.sales
          PROVE  erased > 0 \/ Past("tax_lot_sales")
      <4>1. d.sales = FALSE
        BY <2>8, <3>1
      <4> QED BY <1>0, <3>1, <4>1 DEF PapersTraced
    <3>2. \A d \in documents : d.got # d.asked => d.asked.month # March \/ d.asked.type = "form_1099b"
      BY <1>0 DEF PapersTraced
    <3> QED BY <3>1, <3>2
  <2>10. /\ Len(statements) <= handed
         /\ Len(statements) < handed => Failed("statement") \/ Failed("nameless")
    BY <1>0 DEF PapersTraced
  <2>11. handed \in Nat
    BY <1>0 DEF RecordTypes
  <2>12. /\ Cardinality(PortalListStatements(TRUE)) < handed =>
                Failed("statement") \/ Failed("nameless")
         /\ Cardinality(PortalListStatements(TRUE)) + Cardinality(RunEOMStatementBatch) <= handed
    <3> DEFINE n == Len(statements)  C == Cardinality(PortalListStatements(TRUE))
               B == Cardinality(RunEOMStatementBatch)
    <3>1. n \in Nat /\ C = n /\ B = 0 /\ n <= handed
          /\ (n < handed => Failed("statement") \/ Failed("nameless"))
      BY <2>2, <2>4, <2>6, <2>10
    <3> HIDE DEF n, B, C
    <3>2. C < handed => Failed("statement") \/ Failed("nameless")
      BY <3>1
    <3>3. C + B <= handed
      BY <3>1, <2>11
    <3> QED BY <3>2, <3>3 DEF n, B, C
  <2> QED BY <2>9, <2>12 DEF DownloadsExplained
<1> QED BY <1>3, <1>4, <1>5, <1>6, <1>7, <1>8
        DEF AccountsExplained, ClosureExplained, RecordsExplained

(* Steps that leave the money alone. *)
LEMMA MoneyRests ==
  ASSUME AccountInv, UNCHANGED <<store, moneyVars>>, dropped \subseteq dropped',
         Disturbed => Disturbed'
  PROVE  AccountTypes' /\ MoneyInv'
<1>1. /\ UNCHANGED <<store, rows, current, held, shares, owed, paid, closing, overlaps, credit, shut>>
      /\ AccountTypes /\ OneAtATime /\ PaidOnce /\ PaidInFull /\ ShutStays /\ BalancesGone
      /\ \A e : Failed(e) => Failed(e)'
  BY DEF AccountInv, MoneyInv, moneyVars, accountVars, Failed
<1>2. (Busy <=> Busy') /\ Pending' = Pending /\ Balance' = Balance
  BY <1>1 DEF Busy, Pending, Balance
<1>3. \A c \in Tabs : (PaidOnceAt(c) <=> PaidOnceAt(c)') /\ (PaidInFullAt(c) <=> PaidInFullAt(c)')
  BY <1>1, <1>2 DEF PaidOnceAt, PaidInFullAt
<1>4. AccountTypes' /\ OneAtATime' /\ ShutStays'
  BY <1>1, <1>2 DEF AccountTypes, OneAtATime, ShutStays
<1>5. PaidOnce'
  <2> SUFFICES ASSUME ~overlaps', \A e \in {"positions", "sell", "row", "delete"} : ~Failed(e)'
               PROVE  /\ ~Busy' => paid' + Balance' + Pending' + shares' <= owed' /\ held' <= shares'
                      /\ \A c \in Tabs : closing'[c] # Open => PaidOnceAt(c)'
    BY DEF PaidOnce
  <2>1. ~overlaps /\ \A e \in {"positions", "sell", "row", "delete"} : ~Failed(e)
    BY <1>1
  <2> QED BY <1>1, <1>2, <1>3, <2>1 DEF PaidOnce
<1>6. PaidInFull'
  <2> SUFFICES ASSUME ~overlaps', ~Disturbed', Len(rows)' = 1,
                      \A e \in {"pay", "positions", "credit"} : ~Failed(e)'
               PROVE  /\ credit' # NoCredit => credit'.row = 1 /\ credit'.copy = rows'[1]
                      /\ ~Busy' => \/ paid' + rows'[1].cash + Pending' >= owed'
                                   \/ /\ rows'[1].status = "active" /\ shares' >= 1
                                      /\ paid' + rows'[1].cash + Pending' + 1 >= owed'
                      /\ \A c \in Tabs : closing'[c] # Open => PaidInFullAt(c)'
    BY DEF PaidInFull
  <2>1. ~overlaps /\ ~Disturbed /\ Len(rows) = 1 /\ \A e \in {"pay", "positions", "credit"} : ~Failed(e)
    BY <1>1
  <2> QED BY <1>1, <1>2, <1>3, <2>1 DEF PaidInFull
<1>7. BalancesGone'
  <2> SUFFICES /\ owed' >= 2 /\ (owed' = 2 => credit' = NoCredit)
               /\ (owed' = 2 /\ ~Failed("delete")' /\ ~Disturbed' =>
                     \A i \in DOMAIN rows' : rows'[i].status = "closed" =>
                         rows'[i].cash = 0 /\ rows'[i].total = 0 /\ held' = 0)
    BY DEF BalancesGone
  <2> QED BY <1>1 DEF BalancesGone
<1> QED BY <1>4, <1>5, <1>6, <1>7 DEF MoneyInv

(* A table is scrubbed: the money stays where it is, but for the record of *)
(* the map, which is emptied.                                              *)
LEMMA MoneyScrubbed ==
  ASSUME AccountInv, dropped \subseteq dropped', Disturbed',
         UNCHANGED <<store, current, shares, owed, paid, closing, overlaps, credit, shut>>,
         rows' \in Seq(Account), Len(rows') = Len(rows), held' \in Nat, held' <= held,
         NEW j \in DOMAIN rows,
         \A i \in DOMAIN rows \ {j} : rows'[i].cash = rows[i].cash,
         rows'[j].cash = rows[j].cash \/ (store = "map" /\ rows'[j].cash = 0),
         \A i \in DOMAIN rows : rows[i].status = "closed" => rows'[i].status = "closed"
  PROVE  AccountTypes' /\ MoneyInv'
<1>1. /\ AccountTypes /\ OneAtATime /\ PaidOnce /\ ShutStays /\ BalancesGone
      /\ \A e : Failed(e) => Failed(e)'
  BY DEF AccountInv, MoneyInv, Failed
<1>2. /\ rows \in Seq(Account) /\ DOMAIN rows' = DOMAIN rows /\ DOMAIN rows = 1..Len(rows)
      /\ \A i \in DOMAIN rows : rows[i].cash \in Nat /\ rows'[i].cash \in Nat
      /\ Balance \in Nat /\ Balance' \in Nat
  <2>1. rows \in Seq(Account)
    BY <1>1 DEF AccountTypes
  <2>2. DOMAIN rows = 1..Len(rows) /\ DOMAIN rows' = 1..Len(rows')
    BY <2>1
  <2> QED BY <2>1, <2>2, BalanceIs DEF Balance
<1>3. Balance' = Balance + (rows'[j].cash - rows[j].cash)
  BY <1>2, BalanceAt DEF Balance
<1>4. (Busy <=> Busy') /\ Pending' = Pending
  BY DEF Busy, Pending
<1>5. AccountTypes'
  BY <1>1, <1>2 DEF AccountTypes
<1>6. OneAtATime'
  <2> SUFFICES ASSUME ~overlaps'
               PROVE  /\ Busy' => credit' = NoCredit
                      /\ \A c, d \in Tabs : closing'[c] # Open /\ closing'[d] # Open => c = d
                      /\ store' = "pgx" /\ credit' # NoCredit =>
                             credit'.copy.cash = rows'[credit'.row].cash
    BY DEF OneAtATime
  <2>1. store = "pgx" /\ credit # NoCredit => rows'[credit.row].cash = rows[credit.row].cash
    <3>1. credit # NoCredit => credit.row \in DOMAIN rows
      BY <1>1 DEF AccountTypes
    <3> QED BY <3>1
  <2> QED BY <1>1, <1>4, <2>1 DEF OneAtATime
<1>7. PaidOnce'
  <2> SUFFICES ASSUME ~overlaps', \A e \in {"positions", "sell", "row", "delete"} : ~Failed(e)'
               PROVE  /\ ~Busy' => paid' + Balance' + Pending' + shares' <= owed' /\ held' <= shares'
                      /\ \A c \in Tabs : closing'[c] # Open => PaidOnceAt(c)'
    BY DEF PaidOnce
  <2>1. ~overlaps /\ \A e \in {"positions", "sell", "row", "delete"} : ~Failed(e)
    BY <1>1
  <2>2. /\ ~Busy => paid + Balance + Pending + shares <= owed /\ held <= shares
        /\ \A c \in Tabs : closing[c] # Open => PaidOnceAt(c)
    BY <1>1, <2>1 DEF PaidOnce
  <2>3. /\ shares \in Nat /\ owed \in Nat /\ paid \in Nat /\ held \in Nat /\ Pending \in {0, 1}
        /\ \A c \in Tabs : closing[c].held \in Nat /\ closing[c].proceeds \in Nat
                           /\ (closing[c] # Open => closing[c].row \in DOMAIN rows)
    BY <1>1, AccountFacts
  <2>4. rows'[j].cash <= rows[j].cash /\ Balance' <= Balance
    BY <1>2, <1>3
  <2>5. ~Busy' => paid' + Balance' + Pending' + shares' <= owed' /\ held' <= shares'
    <3> DEFINE B == Balance  C == Balance'
    <3>1. B \in Nat /\ C \in Nat /\ C <= B
      BY <1>2, <2>4
    <3>2. ~Busy => paid + B + Pending + shares <= owed /\ held <= shares
      BY <2>2
    <3> HIDE DEF B, C
    <3>3. ~Busy => paid + C + Pending + shares <= owed
      BY <2>3, <3>1, <3>2
    <3>4. ~Busy => held' <= shares
      BY <2>3, <3>2
    <3> QED BY <1>4, <3>3, <3>4 DEF C
  <2>6. ASSUME NEW c \in Tabs, closing'[c] # Open
        PROVE  PaidOnceAt(c)'
    <3> DEFINE k == closing[c]
    <3>1. closing[c] # Open /\ PaidOnceAt(c) /\ k.row \in DOMAIN rows /\ k.held \in Nat
          /\ k.proceeds \in Nat
      BY <2>2, <2>3, <2>6
    <3>2. /\ store = "pgx" => k.cash = rows[k.row].cash
          /\ k.step = "list" => k.held <= shares /\ paid + Balance + shares <= owed
          /\ k.step = "sell" => k.proceeds = shares /\ paid + Balance + shares <= owed
          /\ k.step = "pay" => shares = 0 /\ paid + Balance + k.proceeds <= owed
          /\ k.step = "write" => shares = 0 /\ paid + Balance <= owed + rows[k.row].cash
      BY <3>1 DEF PaidOnceAt
    <3>3. rows[k.row].cash \in Nat /\ rows'[k.row].cash \in Nat
          /\ (k.row # j => rows'[k.row].cash = rows[k.row].cash)
          /\ (store = "pgx" => rows'[k.row].cash = rows[k.row].cash)
      BY <1>2, <3>1
    <3>4. /\ store = "pgx" => k.cash = rows'[k.row].cash
          /\ k.step = "list" => k.held <= shares /\ paid + Balance' + shares <= owed
          /\ k.step = "sell" => k.proceeds = shares /\ paid + Balance' + shares <= owed
          /\ k.step = "pay" => shares = 0 /\ paid + Balance' + k.proceeds <= owed
      <4> DEFINE B == Balance  C == Balance'
      <4>1. B \in Nat /\ C \in Nat /\ C <= B
        BY <1>2, <2>4
      <4>2. /\ k.step = "list" => k.held <= shares /\ paid + B + shares <= owed
            /\ k.step = "sell" => k.proceeds = shares /\ paid + B + shares <= owed
            /\ k.step = "pay" => shares = 0 /\ paid + B + k.proceeds <= owed
        BY <3>2
      <4>3. k.held \in Nat /\ k.proceeds \in Nat
        BY <3>1
      <4> HIDE DEF B, C, k
      <4>4. /\ k.step = "list" => k.held <= shares /\ paid + C + shares <= owed
            /\ k.step = "sell" => k.proceeds = shares /\ paid + C + shares <= owed
            /\ k.step = "pay" => shares = 0 /\ paid + C + k.proceeds <= owed
        BY <2>3, <4>1, <4>2, <4>3
      <4>5. store = "pgx" => k.cash = rows'[k.row].cash
        BY <3>2, <3>3 DEF k
      <4> QED BY <4>4, <4>5 DEF C, k
    <3>5. k.step = "write" => shares = 0 /\ paid + Balance' <= owed + rows'[k.row].cash
      <4> DEFINE x == rows[k.row].cash  y == rows'[k.row].cash
                 u == rows[j].cash  v == rows'[j].cash
      <4>1. /\ x \in Nat /\ y \in Nat /\ u \in Nat /\ v \in Nat /\ v <= u
            /\ (k.row # j => x = y) /\ (k.row = j => x = u /\ y = v)
            /\ Balance' = Balance + (v - u)
            /\ (k.step = "write" => shares = 0 /\ paid + Balance <= owed + x)
        BY <1>2, <1>3, <2>4, <3>2, <3>3
      <4> HIDE DEF x, y, u, v, k
      <4>2. k.step = "write" => shares = 0 /\ paid + Balance' <= owed + y
        BY <1>2, <2>3, <4>1
      <4> QED BY <4>2 DEF y, k
    <3> QED BY <3>4, <3>5 DEF PaidOnceAt
  <2> QED BY <2>5, <2>6
<1>8. PaidInFull'
  <2> SUFFICES ASSUME ~Disturbed' PROVE FALSE
    BY DEF PaidInFull
  <2> QED OBVIOUS
<1>9. ShutStays'
  <2>1. shut \subseteq DOMAIN rows
    BY <1>1 DEF AccountTypes
  <2> QED BY <1>1, <2>1 DEF ShutStays
<1>10. BalancesGone'
  <2> SUFFICES /\ owed' >= 2 /\ (owed' = 2 => credit' = NoCredit)
               /\ Disturbed'
    BY DEF BalancesGone
  <2> QED BY <1>1 DEF BalancesGone
<1> QED BY <1>5, <1>6, <1>7, <1>8, <1>9, <1>10 DEF MoneyInv

(* Steps that leave the records alone, but for the names on the rows and   *)
(* the holdings.                                                           *)
LEMMA RecordsRest ==
  ASSUME AccountInv, UNCHANGED <<store, erasure, erased, has, grants, paperVars>>,
         dropped \subseteq dropped', late \subseteq late', late' \subseteq Range(Scrubbed),
         asked' \in Nat, Len(rows') \in Nat, Len(rows') >= Len(rows), held' > 0 => held > 0,
         (\E i \in DOMAIN rows' : rows'[i].named) =>
             \/ \E i \in DOMAIN rows : rows[i].named
             \/ "investment_portfolios" \in late'
             \/ ~Past("investment_portfolios")
  PROVE  RecordTypes' /\ RecordInv'
<1>1. /\ UNCHANGED <<statements, handed, documents>>
      /\ AccountTypes /\ RecordTypes /\ ErasureTraced /\ GrantsTraced /\ PapersTraced
      /\ \A e : Failed(e) => Failed(e)'
  BY DEF AccountInv, RecordInv, paperVars, Failed
<1>2. \A t : (Past(t) <=> Past(t)') /\ (Cleared(t) <=> Cleared(t)')
  BY DEF Past, Cleared
<1>3. RecordTypes'
  BY <1>1 DEF RecordTypes
<1>4. ASSUME NEW t \in Range(Scrubbed), Cleared(t)', Holds(t)'
      PROVE  \/ t \in late'
             \/ t \in Ops /\ (Failed(t)' \/ store' = "map")
             \/ store' = "map" /\ t = "investment_portfolios" /\ Len(rows') > 1
  <2>1. Cleared(t) /\ Past(t)
    BY <1>1, <1>2, <1>4 DEF ErasureTraced
  <2>2. Holds(t) \/ t \in late'
    BY <1>4, <2>1 DEF Holds
  <2>3. CASE Holds(t)
    <3>1. \/ t \in late
          \/ t \in Ops /\ (Failed(t) \/ store = "map")
          \/ store = "map" /\ t = "investment_portfolios" /\ Len(rows) > 1
      BY <1>1, <2>1, <2>3 DEF ErasureTraced
    <3>2. Len(rows) \in Nat
      BY <1>1, AccountFacts
    <3>3. Len(rows) > 1 => Len(rows') > 1
      BY <3>2
    <3> QED BY <1>1, <3>1, <3>3
  <2> QED BY <2>2, <2>3
<1>5. ErasureTraced'
  <2>1. \A t \in Range(Scrubbed) : Cleared(t)' => Past(t)'
    BY <1>1, <1>2 DEF ErasureTraced
  <2>2. store' = "pgx" =>
          \A t \in Range(Scrubbed) : Past(t)' => t \in erasure'.listed \/ Failed(t)'
    BY <1>1, <1>2 DEF ErasureTraced
  <2> QED BY <1>4, <2>1, <2>2 DEF ErasureTraced
<1>6. GrantsTraced'
  BY <1>1 DEF GrantsTraced
<1>7. PapersTraced'
  BY <1>1, <1>2 DEF PapersTraced
<1> QED BY <1>3, <1>5, <1>6, <1>7 DEF RecordInv

(* One key or webhook changes. *)
LEMMA GrantMoves ==
  ASSUME AccountInv, GrantKeeps, dropped \subseteq dropped', late \subseteq late',
         late' \subseteq Range(Scrubbed), asked' \in Nat,
         NEW r \in 1..MaxAccountRequests, NEW g \in Grant,
         grants' = [grants EXCEPT ![r] = g],
         g.stored # "none" => /\ g.kind \in {"key", "webhook"}
                              /\ \/ grants[r].stored # "none" /\ grants[r].kind = g.kind
                                 \/ Scrubs[g.kind] \in late'
                                 \/ ~Past(Scrubs[g.kind]),
         g.told = "revoked" /\ g.stored = "active" => g.kind = "key" /\ Failed("revoke")',
         g.kind = "key" /\ g.told = "active" /\ g.stored # "active" =>
             Failed("key")' \/ erased > 0 \/ erasure.table > 1,
         g.kind = "webhook" /\ g.stored = "active" => g.told = "active"
  PROVE  AccountInv'
<1>1. /\ UNCHANGED <<store, moneyVars, erasure, erased, has, statements, handed, documents>>
      /\ UNCHANGED <<rows, held>>
      /\ AccountTypes /\ RecordTypes /\ ErasureTraced /\ GrantsTraced /\ PapersTraced
      /\ \A e : Failed(e) => Failed(e)'
  BY DEF AccountInv, RecordInv, GrantKeeps, paperVars, Failed, moneyVars
<1>2. \A t : (Past(t) <=> Past(t)') /\ (Cleared(t) <=> Cleared(t)')
  BY <1>1 DEF Past, Cleared
<1>3. /\ grants \in [1..MaxAccountRequests -> Grant] /\ grants' \in [1..MaxAccountRequests -> Grant]
      /\ grants'[r] = g /\ \A q \in 1..MaxAccountRequests : q # r => grants'[q] = grants[q]
  BY <1>1 DEF RecordTypes
<1>4. RecordTypes'
  BY <1>1, <1>3 DEF RecordTypes
<1>5. AccountTypes' /\ MoneyInv'
  <2>1. Disturbed => Disturbed'
    BY <1>1 DEF Disturbed
  <2> QED BY <1>1, <2>1, MoneyRests
<1>6. ASSUME NEW t \in Range(Scrubbed), Cleared(t)', Holds(t)'
      PROVE  \/ t \in late'
             \/ t \in Ops /\ (Failed(t)' \/ store' = "map")
             \/ store' = "map" /\ t = "investment_portfolios" /\ Len(rows') > 1
  <2>1. Cleared(t) /\ Past(t)
    BY <1>1, <1>2, <1>6 DEF ErasureTraced
  <2>2. Holds(t) \/ t \in late'
    <3>1. \/ \E q \in 1..MaxAccountRequests :
                /\ grants'[q].stored # "none"
                /\ grants'[q].kind \in DOMAIN Scrubs /\ Scrubs[grants'[q].kind] = t
          \/ t = "portfolio_holdings" /\ held > 0
          \/ t = "investment_portfolios" /\ \E i \in DOMAIN rows : rows[i].named
          \/ t \in has
      BY <1>1, <1>3, <1>6 DEF Holds
    <3>2. ASSUME NEW q \in 1..MaxAccountRequests, grants'[q].stored # "none",
                 grants'[q].kind \in DOMAIN Scrubs, Scrubs[grants'[q].kind] = t
          PROVE  Holds(t) \/ t \in late'
      <4>1. CASE q # r
        BY <1>3, <3>2, <4>1 DEF Holds
      <4>2. CASE q = r
        BY <1>3, <2>1, <3>2, <4>2 DEF Holds
      <4> QED BY <4>1, <4>2
    <3> QED BY <3>1, <3>2 DEF Holds
  <2>3. CASE Holds(t)
    <3>1. \/ t \in late
          \/ t \in Ops /\ (Failed(t) \/ store = "map")
          \/ store = "map" /\ t = "investment_portfolios" /\ Len(rows) > 1
      BY <1>1, <2>1, <2>3 DEF ErasureTraced
    <3> QED BY <1>1, <3>1
  <2> QED BY <2>2, <2>3
<1>7. ErasureTraced'
  <2>1. \A t \in Range(Scrubbed) : Cleared(t)' => Past(t)'
    BY <1>1, <1>2 DEF ErasureTraced
  <2>2. store' = "pgx" =>
          \A t \in Range(Scrubbed) : Past(t)' => t \in erasure'.listed \/ Failed(t)'
    BY <1>1, <1>2 DEF ErasureTraced
  <2> QED BY <1>6, <2>1, <2>2 DEF ErasureTraced
<1>8. GrantsTraced'
  <2> DEFINE Traced(h) ==
        /\ h.stored # "none" => h.kind # "none"
        /\ h.told = "revoked" /\ h.stored = "active" => h.kind = "key" /\ Failed("revoke")'
        /\ h.kind = "key" /\ h.told = "active" /\ h.stored # "active" =>
               Failed("key")' \/ erased > 0 \/ erasure.table > 1
        /\ h.kind = "webhook" /\ h.stored = "active" => h.told = "active"
  <2>1. Traced(g)
    OBVIOUS
  <2>2. \A q \in 1..MaxAccountRequests : Traced(grants[q])
    BY <1>1 DEF GrantsTraced
  <2> HIDE DEF Traced
  <2>3. \A q \in 1..MaxAccountRequests : Traced(grants'[q])
    BY <1>3, <2>1, <2>2
  <2> QED BY <1>1, <2>3 DEF GrantsTraced, Traced
<1>9. PapersTraced'
  BY <1>1, <1>2 DEF PapersTraced
<1> QED BY <1>4, <1>5, <1>7, <1>8, <1>9 DEF RecordInv, AccountInv

(* A call that fails is remembered, and the number of requests is bounded. *)
LEMMA Drops ==
  ASSUME NEW e, Drop(e) \/ DropSQL(e)
  PROVE  dropped \subseteq dropped' /\ Failed(e)' /\ (DropSQL(e) => store = "pgx")
BY DEF Drop, DropSQL, Failed

LEMMA AskedNext ==
  ASSUME AccountInv, Asks
  PROVE  asked' \in Nat /\ asked + 1 \in 1..MaxAccountRequests
<1>1. asked \in Nat
  BY DEF AccountInv, RecordTypes
<1> QED BY <1>1 DEF Asks

LEMMA WrittenLate ==
  ASSUME AccountInv, NEW t \in Range(Scrubbed), Wrote(t)
  PROVE  late \subseteq late' /\ late' \subseteq Range(Scrubbed) /\ (Past(t) => t \in late')
<1>1. late \subseteq Range(Scrubbed)
  BY DEF AccountInv, RecordTypes
<1> QED BY <1>1 DEF Wrote

LEMMA GrantTables ==
  /\ DOMAIN Scrubs = {"key", "webhook"}
  /\ Scrubs["key"] = "customer_api_keys" /\ Scrubs["webhook"] = "webhook_subscriptions"
  /\ \A k \in DOMAIN Scrubs : Scrubs[k] \in Range(Scrubbed) /\ Scrubs[k] \notin Plain
        /\ Scrubs[k] # "portfolio_holdings" /\ Scrubs[k] # "investment_portfolios"
<1>1. /\ DOMAIN Scrubs = {"key", "webhook"}
      /\ Scrubs["key"] = "customer_api_keys" /\ Scrubs["webhook"] = "webhook_subscriptions"
  BY DEF Scrubs
<1> QED BY <1>1, Tables DEF Plain

LEMMA CreateAPIKeyKeeps == AccountInv /\ CreateAPIKey => AccountInv'
<1> SUFFICES ASSUME AccountInv, CreateAPIKey PROVE AccountInv'
  OBVIOUS
<1> DEFINE r == asked + 1
<1>1. asked' \in Nat /\ r \in 1..MaxAccountRequests /\ GrantKeeps
  BY AskedNext DEF CreateAPIKey
<1>2. late \subseteq Range(Scrubbed)
  BY DEF AccountInv, RecordTypes
<1>3. CASE Told("key", RPCCreateAPIKey(TRUE), BLLCreateAPIKey(RPCCreateAPIKey(TRUE)))
           /\ Wrote("customer_api_keys") /\ UNCHANGED dropped
  <2> DEFINE g == [kind |-> "key", stored |-> "active", told |-> "active"]
  <2>1. g \in Grant /\ grants' = [grants EXCEPT ![r] = g]
    BY <1>3 DEF Told, RPCCreateAPIKey, BLLCreateAPIKey, InsertKey, MapKey, Grant
  <2>2. /\ late \subseteq late' /\ late' \subseteq Range(Scrubbed)
        /\ Past("customer_api_keys") => "customer_api_keys" \in late'
    BY <1>3, WrittenLate, Tables
  <2>3. g.kind = "key" /\ g.stored = "active" /\ g.told = "active" /\ dropped \subseteq dropped'
    BY <1>3
  <2> HIDE DEF g, r
  <2> QED BY <1>1, <2>1, <2>2, <2>3, GrantMoves, GrantTables
<1>4. CASE Told("key", "none", BLLCreateAPIKey(RPCCreateAPIKey(FALSE)))
           /\ DropSQL("key") /\ UNCHANGED late
  <2> DEFINE g == [kind |-> "key", stored |-> "none", told |-> "active"]
  <2>1. g \in Grant /\ grants' = [grants EXCEPT ![r] = g]
    BY <1>4 DEF Told, RPCCreateAPIKey, BLLCreateAPIKey, Grant
  <2>2. g.kind = "key" /\ g.stored = "none" /\ g.told = "active"
    OBVIOUS
  <2>3. dropped \subseteq dropped' /\ Failed("key")' /\ late' = late
    BY <1>4, Drops
  <2> HIDE DEF g, r
  <2> QED BY <1>1, <1>2, <2>1, <2>2, <2>3, GrantMoves
<1> QED BY <1>3, <1>4 DEF CreateAPIKey

LEMMA CreateWebhookKeeps ==
  ASSUME AccountInv, NEW events \in BOOLEAN, CreateWebhook(events) PROVE AccountInv'
<1> DEFINE r == asked + 1  answer == RPCCreateWebhook(TRUE, events)
<1>1. asked' \in Nat /\ r \in 1..MaxAccountRequests /\ GrantKeeps
  BY AskedNext DEF CreateWebhook
<1>2. late \subseteq Range(Scrubbed)
  BY DEF AccountInv, RecordTypes
<1>3. answer \in {"active", "error"}
  BY DEF RPCCreateWebhook, InsertWebhook, MapWebhook
<1>4. ASSUME Told("webhook", IF answer = "error" THEN "none" ELSE answer, BLLCreateWebhook(answer)),
             IF answer = "error" THEN UNCHANGED late ELSE Wrote("webhook_subscriptions"),
             UNCHANGED dropped
      PROVE  AccountInv'
  <2> DEFINE g == [kind |-> "webhook", told |-> "active",
                   stored |-> IF answer = "error" THEN "none" ELSE "active"]
  <2>1. g \in Grant /\ g.kind = "webhook" /\ g.told = "active"
        /\ (g.stored # "none" => answer # "error")
    BY DEF Grant
  <2>2. grants' = [grants EXCEPT ![r] = g]
    <3>1. BLLCreateWebhook(answer) = "active"
          /\ (IF answer = "error" THEN "none" ELSE answer) = g.stored
      BY <1>3 DEF BLLCreateWebhook
    <3> QED BY <1>4, <3>1 DEF Told
  <2>3. /\ late \subseteq late' /\ late' \subseteq Range(Scrubbed)
        /\ (answer # "error" => (Past("webhook_subscriptions") => "webhook_subscriptions" \in late'))
    BY <1>2, <1>4, WrittenLate, Tables
  <2>4. dropped \subseteq dropped'
    BY <1>4
  <2> HIDE DEF g, r, answer
  <2> QED BY <1>1, <2>1, <2>2, <2>3, <2>4, GrantMoves, GrantTables
<1>5. ASSUME Told("webhook", "none", BLLCreateWebhook(RPCCreateWebhook(FALSE, events))),
             UNCHANGED late, DropSQL("hook")
      PROVE  AccountInv'
  <2> DEFINE g == [kind |-> "webhook", stored |-> "none", told |-> "active"]
  <2>1. g \in Grant /\ grants' = [grants EXCEPT ![r] = g]
    BY <1>5 DEF Told, RPCCreateWebhook, BLLCreateWebhook, Grant
  <2>2. g.kind = "webhook" /\ g.stored = "none" /\ g.told = "active"
    OBVIOUS
  <2>3. dropped \subseteq dropped' /\ late' = late
    BY <1>5, Drops
  <2> HIDE DEF g, r
  <2> QED BY <1>1, <1>2, <2>1, <2>2, <2>3, GrantMoves
<1> QED BY <1>4, <1>5 DEF CreateWebhook

LEMMA GrantRewritten ==
  ASSUME NEW h \in Grant, NEW n, NEW m
  PROVE  [h EXCEPT !.stored = n, !.told = m] = [kind |-> h.kind, stored |-> n, told |-> m]
<1> DEFINE x == [h EXCEPT !.stored = n, !.told = m]  y == [kind |-> h.kind, stored |-> n, told |-> m]
<1>1. DOMAIN h = {"kind", "stored", "told"}
  BY DEF Grant
<1>2. DOMAIN x = {"kind", "stored", "told"} /\ x["kind"] = h.kind /\ x["stored"] = n /\ x["told"] = m
  BY <1>1
<1>3. DOMAIN y = {"kind", "stored", "told"} /\ y["kind"] = h.kind /\ y["stored"] = n /\ y["told"] = m
  OBVIOUS
<1>4. x = [i \in DOMAIN x |-> x[i]] /\ y = [i \in DOMAIN y |-> y[i]]
  BY <1>1
<1> HIDE DEF x, y
<1>5. \A i \in DOMAIN x : x[i] = y[i]
  BY <1>2, <1>3
<1>6. x = y
  BY <1>2, <1>3, <1>4, <1>5
<1> QED BY <1>6 DEF x, y

LEMMA RevokeAPIKeyKeeps ==
  ASSUME AccountInv, NEW r \in DOMAIN grants, RevokeAPIKey(r) PROVE AccountInv'
<1>1. /\ grants \in [1..MaxAccountRequests -> Grant] /\ r \in 1..MaxAccountRequests
      /\ late \subseteq Range(Scrubbed) /\ asked \in Nat
  BY DEF AccountInv, RecordTypes
<1>2. /\ grants[r].kind = "key" /\ grants[r].told = "active" /\ GrantKeeps
      /\ late' = late /\ asked' = asked /\ grants[r] \in Grant
  BY <1>1 DEF RevokeAPIKey
<1>3. PICK ok \in BOOLEAN :
        /\ grants' = [grants EXCEPT
               ![r].stored = IF ~ok THEN @
                             ELSE IF store = "pgx" THEN RevokeRow(@) ELSE RevokeMapKey(@),
               ![r].told = BLLRevoke(RPCRevoke(ok))]
        /\ IF ok THEN UNCHANGED dropped ELSE DropSQL("revoke")
  BY DEF RevokeAPIKey
<1> DEFINE s == grants[r].stored
           n == IF ok /\ s # "none" THEN "revoked" ELSE s
           g == [kind |-> "key", stored |-> n, told |-> "revoked"]
<1>4. s \in {"none", "active", "revoked"}
  BY <1>2 DEF Grant
<1>5. g \in Grant /\ g.kind = "key" /\ g.stored = n /\ g.told = "revoked"
  BY <1>4 DEF Grant
<1>6. grants' = [grants EXCEPT ![r] = g]
  <2>1. [grants[r] EXCEPT !.stored = n, !.told = "revoked"] = g
    <3>1. [grants[r] EXCEPT !.stored = n, !.told = "revoked"]
          = [kind |-> grants[r].kind, stored |-> n, told |-> "revoked"]
      BY <1>2, GrantRewritten, Zenon
    <3> QED BY <1>2, <3>1
  <2>2. (IF ~ok THEN s ELSE IF store = "pgx" THEN RevokeRow(s) ELSE RevokeMapKey(s)) = n
    BY DEF RevokeRow, RevokeMapKey
  <2>3. grants' = [grants EXCEPT ![r] = [grants[r] EXCEPT !.stored = n, !.told = "revoked"]]
    BY <1>1, <1>3, <2>2 DEF BLLRevoke
  <2> QED BY <2>1, <2>3
<1>7. /\ dropped \subseteq dropped' /\ (n = "active" => Failed("revoke")')
      /\ (n # "none" => s # "none")
  <2>1. CASE ok = TRUE
    BY <1>3, <2>1
  <2>2. CASE ok = FALSE
    BY <1>3, <2>2, Drops
  <2> QED BY <2>1, <2>2
<1>8. grants[r].stored = s
  OBVIOUS
<1> HIDE DEF g, n, s
<1> QED BY <1>1, <1>2, <1>5, <1>6, <1>7, <1>8, GrantMoves

LEMMA DeleteWebhookKeeps ==
  ASSUME AccountInv, NEW r \in DOMAIN grants, DeleteWebhook(r) PROVE AccountInv'
<1>1. /\ grants \in [1..MaxAccountRequests -> Grant] /\ r \in 1..MaxAccountRequests
      /\ late \subseteq Range(Scrubbed) /\ asked \in Nat
  BY DEF AccountInv, RecordTypes
<1>2. /\ grants[r].kind = "webhook" /\ grants[r].told = "active" /\ GrantKeeps
      /\ late' = late /\ asked' = asked /\ dropped' = dropped /\ grants[r] \in Grant
  BY <1>1 DEF DeleteWebhook
<1> DEFINE s == grants[r].stored
           n == IF s # "none" THEN "revoked" ELSE s
           g == [kind |-> "webhook", stored |-> n, told |-> "revoked"]
<1>4. s \in {"none", "active", "revoked"}
  BY <1>2 DEF Grant
<1>5. g \in Grant /\ g.kind = "webhook" /\ g.stored = n /\ g.told = "revoked"
  BY <1>4 DEF Grant
<1>6. grants' = [grants EXCEPT ![r] = g]
  <2>1. [grants[r] EXCEPT !.stored = n, !.told = "revoked"] = g
    <3>1. [grants[r] EXCEPT !.stored = n, !.told = "revoked"]
          = [kind |-> grants[r].kind, stored |-> n, told |-> "revoked"]
      BY <1>2, GrantRewritten, Zenon
    <3> QED BY <1>2, <3>1
  <2>2. (IF store = "pgx" THEN DeleteWebhookRow(s) ELSE DeleteMapWebhook(s)) = n
    BY DEF DeleteWebhookRow, DeleteMapWebhook
  <2>3. grants' = [grants EXCEPT ![r] = [grants[r] EXCEPT !.stored = n, !.told = "revoked"]]
    BY <1>1, <2>2 DEF DeleteWebhook, BLLDelete, RPCDelete
  <2> QED BY <2>1, <2>3
<1>7. n # "active" /\ (n # "none" => s # "none") /\ grants[r].stored = s
  BY <1>4
<1> HIDE DEF g, n, s
<1> QED BY <1>1, <1>2, <1>5, <1>6, <1>7, GrantMoves

(* While an erasure is under way the tables behind it are past, and all of *)
(* them when it is done.                                                   *)
LEMMA PastTables ==
  ASSUME RecordTypes
  PROVE  /\ erasure.table \in 0..9 /\ erased \in Nat
         /\ erasure.table = 0 => \A t : Past(t) <=> erased > 0
         /\ erasure.table = 1 => \A t : ~Past(t)
         /\ erasure.table = 9 => \A t \in Range(Scrubbed) : Past(t)
<1>1. erasure.table \in 0..9 /\ erased \in Nat
  BY DEF RecordTypes
<1>2. erasure.table = 1 => \A t : ~Past(t)
  BY DEF Past
<1>3. ASSUME erasure.table = 9, NEW t \in Range(Scrubbed) PROVE Past(t)
  <2>1. PICK i \in 1..8 : t = Scrubbed[i]
    BY Tables DEF Range
  <2> QED BY <1>3, <2>1 DEF Past
<1>4. erasure.table = 0 => \A t : Past(t) <=> erased > 0
  BY DEF Past
<1> QED BY <1>1, <1>2, <1>3, <1>4

LEMMA BeginErasureKeeps == AccountInv /\ BeginErasure => AccountInv'
<1> SUFFICES ASSUME AccountInv, BeginErasure PROVE AccountInv'
  OBVIOUS
<1>1. /\ UNCHANGED <<store, moneyVars, erased, has, grants, statements, handed, documents, dropped>>
      /\ erasure.table = 0 /\ store = "pgx" /\ asked' \in Nat
      /\ erasure' = [table |-> 1, listed |-> {}] /\ late' = {}
      /\ RecordTypes /\ GrantsTraced /\ PapersTraced
  BY AskedNext DEF BeginErasure, AccountInv, RecordInv, paperVars
<1>2. erasure'.table = 1 /\ erasure'.listed = {} /\ erasure' \in [table: 0..9, listed: SUBSET Range(Scrubbed)]
      /\ erasure' # NoErasure
  BY <1>1 DEF NoErasure
<1>3. RecordTypes'
  BY <1>1, <1>2 DEF RecordTypes
<1>4. AccountTypes' /\ MoneyInv'
  BY <1>1, <1>2, MoneyRests DEF Disturbed
<1>5. \A t : ~Past(t)' /\ ~Cleared(t)'
  BY <1>1, <1>2 DEF Past, Cleared
<1>6. ErasureTraced'
  BY <1>5 DEF ErasureTraced
<1>7. Past("tax_lot_sales") => erased > 0
  BY <1>1, PastTables
<1>8. PapersTraced'
  BY <1>1, <1>7 DEF PapersTraced, Failed
<1>9. GrantsTraced'
  BY <1>1 DEF GrantsTraced, Failed
<1> QED BY <1>3, <1>4, <1>6, <1>8, <1>9 DEF RecordInv, AccountInv

LEMMA CertifyErasureKeeps == AccountInv /\ CertifyErasure => AccountInv'
<1> SUFFICES ASSUME AccountInv, CertifyErasure PROVE AccountInv'
  OBVIOUS
<1>1. /\ UNCHANGED <<store, moneyVars, has, late, grants, statements, handed, documents, asked>>
      /\ UNCHANGED <<rows, held>>
      /\ erasure.table = 9 /\ erasure' = [erasure EXCEPT !.table = 0] /\ erased' = erased + 1
      /\ RecordTypes /\ ErasureTraced /\ GrantsTraced /\ PapersTraced
  BY DEF CertifyErasure, AccountInv, RecordInv, paperVars, moneyVars
<1>2. dropped \subseteq dropped' /\ \A e : Failed(e) => Failed(e)'
  BY Drops DEF CertifyErasure, Failed
<1>3. /\ erasure'.table = 0 /\ erasure'.listed = erasure.listed
      /\ erasure' \in [table: 0..9, listed: SUBSET Range(Scrubbed)]
      /\ erased' \in Nat /\ erased' > 0 /\ store # "map"
  BY <1>1 DEF RecordTypes
<1>4. RecordTypes'
  BY <1>1, <1>3 DEF RecordTypes
<1>5. AccountTypes' /\ MoneyInv'
  BY <1>1, <1>2, <1>3, MoneyRests DEF Disturbed
<1>6. \A t \in Range(Scrubbed) : Past(t) /\ Past(t)' /\ (Cleared(t)' <=> Cleared(t)) /\ (Holds(t)' <=> Holds(t))
  BY <1>1, <1>3, PastTables DEF Past, Cleared, Holds
<1>7. ErasureTraced'
  <2>1. \A t \in Range(Scrubbed) : Cleared(t)' /\ Holds(t)' =>
          \/ t \in late'
          \/ t \in Ops /\ (Failed(t)' \/ store' = "map")
          \/ store' = "map" /\ t = "investment_portfolios" /\ Len(rows)' > 1
    BY <1>1, <1>2, <1>6 DEF ErasureTraced
  <2>2. \A t \in Range(Scrubbed) : t \in erasure'.listed \/ Failed(t)'
    <3>1. store = "pgx"
      BY <1>3 DEF AccountInv, AccountTypes
    <3> QED BY <1>1, <1>2, <1>3, <1>6, <3>1 DEF ErasureTraced
  <2> QED BY <1>6, <2>1, <2>2 DEF ErasureTraced
<1>8. GrantsTraced'
  BY <1>1, <1>2, <1>3 DEF GrantsTraced
<1>9. PapersTraced'
  BY <1>1, <1>2, <1>3 DEF PapersTraced
<1> QED BY <1>4, <1>5, <1>7, <1>8, <1>9 DEF RecordInv, AccountInv

LEMMA AddRecordKeeps ==
  ASSUME AccountInv, NEW t \in Plain, AddRecord(t) PROVE AccountInv'
<1>1. /\ UNCHANGED <<store, moneyVars, erasure, erased, grants, statements, handed, documents, dropped>>
      /\ UNCHANGED <<rows, held>>
      /\ has' = has \cup {t} /\ late' = late \cup {t} /\ asked' \in Nat
      /\ RecordTypes /\ ErasureTraced /\ GrantsTraced /\ PapersTraced
  BY AskedNext DEF AddRecord, AccountInv, RecordInv, paperVars, moneyVars
<1>2. RecordTypes'
  BY <1>1, Tables DEF RecordTypes, Plain
<1>3. AccountTypes' /\ MoneyInv'
  BY <1>1, MoneyRests DEF Disturbed
<1>4. /\ \A u : (Past(u) <=> Past(u)') /\ (Cleared(u) <=> Cleared(u)') /\ (Failed(u) <=> Failed(u)')
      /\ \A u : Holds(u)' => Holds(u) \/ u = t
  BY <1>1 DEF Past, Cleared, Failed, Holds
<1>5. ErasureTraced'
  BY <1>1, <1>4 DEF ErasureTraced
<1>6. GrantsTraced' /\ PapersTraced'
  BY <1>1, <1>4 DEF GrantsTraced, PapersTraced
<1> QED BY <1>2, <1>3, <1>5, <1>6 DEF RecordInv, AccountInv

(* What scrubbing a table leaves. *)
LEMMA ScrubLeaves ==
  ASSUME AccountTypes, RecordTypes, NEW t \in Range(Scrubbed), Scrub(t)
  PROVE  /\ ~Holds(t)' /\ \A u \in Range(Scrubbed) : Holds(u)' => Holds(u)
         /\ rows' \in Seq(Account) /\ Len(rows') = Len(rows) /\ held' \in Nat /\ held' <= held
         /\ \A i \in DOMAIN rows : /\ rows'[i].cash = rows[i].cash
                                   /\ rows[i].status = "closed" => rows'[i].status = "closed"
         /\ grants' \in [1..MaxAccountRequests -> Grant]
         /\ \A r \in 1..MaxAccountRequests :
               grants'[r] = grants[r] \/ /\ grants'[r].kind = grants[r].kind
                                         /\ grants'[r].told = grants[r].told
                                         /\ grants'[r].stored = "none"
         /\ has' \subseteq has /\ ("tax_lot_sales" \in has \ has' => t = "tax_lot_sales")
<1>1. /\ rows \in Seq(Account) /\ held \in Nat
      /\ grants \in [1..MaxAccountRequests -> Grant]
  BY DEF AccountTypes, RecordTypes
<1>2. DOMAIN rows = 1..Len(rows) /\ Len(rows) \in Nat /\ \A i \in DOMAIN rows : rows[i] \in Account
  BY <1>1, BalanceIs
<1>3. /\ held' = (IF t = "portfolio_holdings" THEN 0 ELSE held) /\ has' = has \ {t}
      /\ grants' = Wiped(t)
      /\ rows' = IF t = "investment_portfolios"
                 THEN [i \in DOMAIN rows |-> Closed(rows[i])] ELSE rows
  BY DEF Scrub
<1>4. ASSUME NEW r \in 1..MaxAccountRequests
      PROVE  /\ grants'[r] \in Grant
             /\ IF grants[r].kind \in DOMAIN Scrubs /\ Scrubs[grants[r].kind] = t
                THEN /\ grants'[r].kind = grants[r].kind /\ grants'[r].told = grants[r].told
                     /\ grants'[r].stored = "none"
                ELSE grants'[r] = grants[r]
  <2>1. grants'[r] = IF grants[r].kind \in DOMAIN Scrubs /\ Scrubs[grants[r].kind] = t
                     THEN [grants[r] EXCEPT !.stored = "none"] ELSE grants[r]
    BY <1>1, <1>3 DEF Wiped
  <2>2. grants[r] \in Grant
    BY <1>1
  <2> HIDE DEF Wiped
  <2>3. /\ [grants[r] EXCEPT !.stored = "none"] \in Grant
        /\ [grants[r] EXCEPT !.stored = "none"].kind = grants[r].kind
        /\ [grants[r] EXCEPT !.stored = "none"].told = grants[r].told
        /\ [grants[r] EXCEPT !.stored = "none"].stored = "none"
    BY <2>2 DEF Grant
  <2> QED BY <2>1, <2>2, <2>3
<1>5. DOMAIN grants = 1..MaxAccountRequests /\ DOMAIN grants' = 1..MaxAccountRequests
      /\ grants' \in [1..MaxAccountRequests -> Grant]
  <2>1. DOMAIN grants = 1..MaxAccountRequests
    BY <1>1
  <2>2. grants' = [r \in 1..MaxAccountRequests |-> grants'[r]]
    BY <1>3, <2>1 DEF Wiped
  <2> QED BY <1>4, <2>1, <2>2
<1>6. \A a \in Account : /\ Closed(a) \in Account /\ Closed(a).cash = a.cash
                         /\ Closed(a).status = "closed" /\ Closed(a).named = FALSE
  BY DEF Closed, Account
<1>7. /\ rows' \in Seq(Account) /\ Len(rows') = Len(rows) /\ DOMAIN rows' = DOMAIN rows
      /\ \A i \in DOMAIN rows : rows'[i] = IF t = "investment_portfolios" THEN Closed(rows[i]) ELSE rows[i]
  <2>1. CASE t = "investment_portfolios"
    <3>1. rows' = [i \in 1..Len(rows) |-> Closed(rows[i])]
      BY <1>2, <1>3, <2>1
    <3>2. \A i \in 1..Len(rows) : Closed(rows[i]) \in Account
      BY <1>2, <1>6
    <3> QED BY <1>2, <2>1, <3>1, <3>2
  <2>2. CASE t # "investment_portfolios"
    BY <1>1, <1>3, <2>2
  <2> QED BY <2>1, <2>2
<1>8. held' \in Nat /\ held' <= held /\ (t = "portfolio_holdings" => ~(held' > 0))
      /\ (held' > 0 => held > 0)
  BY <1>1, <1>3
<1>9. \A i \in DOMAIN rows : /\ rows'[i].cash = rows[i].cash
                             /\ rows[i].status = "closed" => rows'[i].status = "closed"
                             /\ rows'[i].named => rows[i].named
                             /\ t = "investment_portfolios" => ~rows'[i].named
  BY <1>2, <1>6, <1>7
<1>10. ~Holds(t)'
  <2> SUFFICES ASSUME \/ \E r \in DOMAIN grants' : /\ grants'[r].stored # "none"
                                                   /\ grants'[r].kind \in DOMAIN Scrubs
                                                   /\ Scrubs[grants'[r].kind] = t
                      \/ t = "portfolio_holdings" /\ held' > 0
                      \/ t = "investment_portfolios" /\ \E i \in DOMAIN rows' : rows'[i].named
                      \/ t \in has'
               PROVE  FALSE
    BY DEF Holds
  <2>1. ~ \E r \in DOMAIN grants' : /\ grants'[r].stored # "none"
                                    /\ grants'[r].kind \in DOMAIN Scrubs
                                    /\ Scrubs[grants'[r].kind] = t
    BY <1>4, <1>5
  <2> QED BY <1>3, <1>7, <1>8, <1>9, <2>1
<1>11. ASSUME NEW u \in Range(Scrubbed), Holds(u)' PROVE Holds(u)
  <2>1. \/ \E r \in DOMAIN grants' : /\ grants'[r].stored # "none"
                                     /\ grants'[r].kind \in DOMAIN Scrubs
                                     /\ Scrubs[grants'[r].kind] = u
        \/ u = "portfolio_holdings" /\ held' > 0
        \/ u = "investment_portfolios" /\ \E i \in DOMAIN rows' : rows'[i].named
        \/ u \in has'
    BY <1>11 DEF Holds
  <2>2. ASSUME NEW r \in DOMAIN grants', grants'[r].stored # "none",
               grants'[r].kind \in DOMAIN Scrubs, Scrubs[grants'[r].kind] = u
        PROVE  Holds(u)
    <3>1. r \in DOMAIN grants /\ grants'[r] = grants[r]
      BY <1>4, <1>5, <2>2
    <3> QED BY <2>2, <3>1 DEF Holds
  <2> QED BY <1>3, <1>7, <1>8, <1>9, <2>1, <2>2 DEF Holds
<1>12. has' \subseteq has /\ ("tax_lot_sales" \in has \ has' => t = "tax_lot_sales")
  BY <1>3
<1>13. \A r \in 1..MaxAccountRequests :
          grants'[r] = grants[r] \/ /\ grants'[r].kind = grants[r].kind
                                    /\ grants'[r].told = grants[r].told
                                    /\ grants'[r].stored = "none"
  BY <1>4
<1> QED BY <1>5, <1>7, <1>8, <1>9, <1>10, <1>11, <1>12, <1>13

LEMMA ScrubTableKeeps == AccountInv /\ ScrubTable => AccountInv'
<1> SUFFICES ASSUME AccountInv, ScrubTable PROVE AccountInv'
  OBVIOUS
<1>0. PICK n \in 1..8, t \in Range(Scrubbed) : n = erasure.table /\ t = Scrubbed[n]
  <2>1. erasure.table \in 1..8
    BY DEF ScrubTable
  <2> QED BY <2>1, Tables DEF Range
<1>1. /\ UNCHANGED <<store, current, shares, owed, paid, closing, overlaps, credit, shut, erased,
                     late, statements, handed, documents, asked>>
      /\ erasure.table = n /\ AccountTypes /\ RecordTypes /\ ErasureTraced /\ GrantsTraced /\ PapersTraced
  BY <1>0 DEF ScrubTable, AccountInv, RecordInv, paperVars, accountVars
<1>2. \/ /\ Scrub(t) /\ UNCHANGED dropped
         /\ erasure' = [table |-> n + 1, listed |-> erasure.listed \cup {t}]
      \/ /\ DropSQL(t)
         /\ erasure' = [table |-> n + 1, listed |-> IF t \in Ops THEN erasure.listed \cup {t}
                                                    ELSE erasure.listed]
         /\ UNCHANGED <<rows, held, has, grants>>
  BY <1>0 DEF ScrubTable
<1>3. t \in Range(Scrubbed) /\ store = "pgx"
  BY <1>1 DEF RecordTypes, AccountTypes
<1>4. /\ erasure'.table = n + 1 /\ n + 1 \in 2..9 /\ dropped \subseteq dropped'
      /\ erasure.listed \subseteq erasure'.listed /\ erasure'.listed \subseteq erasure.listed \cup {t}
      /\ erasure' \in [table: 0..9, listed: SUBSET Range(Scrubbed)]
      /\ (t \in erasure'.listed \/ Failed(t)')
  <2>1. erasure.listed \subseteq Range(Scrubbed) /\ n + 1 \in 2..9 /\ n + 1 \in 0..9
    BY <1>1 DEF RecordTypes
  <2>2. CASE /\ Scrub(t) /\ UNCHANGED dropped
             /\ erasure' = [table |-> n + 1, listed |-> erasure.listed \cup {t}]
    <3> QED BY <1>3, <2>1, <2>2
  <2>3. CASE /\ DropSQL(t)
             /\ erasure' = [table |-> n + 1, listed |-> IF t \in Ops THEN erasure.listed \cup {t}
                                                        ELSE erasure.listed]
    <3>1. dropped \subseteq dropped' /\ Failed(t)'
      BY <2>3, Drops
    <3> QED BY <1>3, <2>1, <2>3, <3>1
  <2> QED BY <1>2, <2>2, <2>3
<1>5. /\ \A u \in Range(Scrubbed) : Holds(u)' => Holds(u)
      /\ (~Holds(t)' \/ (t \in erasure'.listed => t \in Ops /\ Failed(t)'))
      /\ rows' \in Seq(Account) /\ Len(rows') = Len(rows) /\ held' \in Nat /\ held' <= held
      /\ \A i \in DOMAIN rows : /\ rows'[i].cash = rows[i].cash
                                /\ rows[i].status = "closed" => rows'[i].status = "closed"
      /\ grants' \in [1..MaxAccountRequests -> Grant]
      /\ \A r \in 1..MaxAccountRequests :
            grants'[r] = grants[r] \/ /\ grants'[r].kind = grants[r].kind
                                      /\ grants'[r].told = grants[r].told
                                      /\ grants'[r].stored = "none"
      /\ has' \subseteq has /\ ("tax_lot_sales" \in has \ has' => t = "tax_lot_sales")
  <2>1. CASE Scrub(t)
    BY <1>1, <1>3, <2>1, ScrubLeaves
  <2>2. CASE /\ DropSQL(t)
             /\ erasure' = [table |-> n + 1, listed |-> IF t \in Ops THEN erasure.listed \cup {t}
                                                        ELSE erasure.listed]
             /\ UNCHANGED <<rows, held, has, grants>>
    <3>1. Failed(t)'
      BY <2>2, Drops
    <3>2. \A u : Holds(u)' <=> Holds(u)
      BY <2>2 DEF Holds
    <3>3. rows \in Seq(Account) /\ held \in Nat /\ grants \in [1..MaxAccountRequests -> Grant]
      BY <1>1 DEF AccountTypes, RecordTypes
    <3>4. (t \in erasure'.listed => t \in Ops) \/ t \in erasure.listed
      BY <2>2
    <3>5. t \notin erasure.listed
      <4>1. \A i \in 1..(n - 1) : Scrubbed[i] # t
        <5>1. \A i \in 1..(n - 1) : i \in 1..8 /\ i # n
          BY <1>1
        <5> QED BY <1>0, <5>1, Tables
      <4>2. ~Past(t)
        BY <1>1, <4>1 DEF Past
      <4> QED BY <1>1, <1>3, <4>2 DEF ErasureTraced, Cleared
    <3>6. held <= held
      BY <3>3
    <3> QED BY <2>2, <3>1, <3>2, <3>3, <3>4, <3>5, <3>6
  <2> QED BY <1>2, <2>1, <2>2
<1>6. AccountTypes' /\ MoneyInv'
  <2>1. current \in DOMAIN rows /\ erasure' # NoErasure
    BY <1>1, <1>4 DEF AccountTypes, NoErasure
  <2>2. \A i \in DOMAIN rows \ {current} : rows'[i].cash = rows[i].cash
    BY <1>5
  <2>3. rows'[current].cash = rows[current].cash
    BY <1>5, <2>1
  <2> QED BY <1>1, <1>4, <1>5, <2>1, <2>2, <2>3, MoneyScrubbed DEF Disturbed
<1>7. RecordTypes'
  BY <1>1, <1>3, <1>4, <1>5 DEF RecordTypes
<1>8. \A u \in Range(Scrubbed) : Past(u)' <=> Past(u) \/ u = t
  <2>1. \A u : Past(u)' <=> \E i \in 1..n : Scrubbed[i] = u
    <3>1. erasure'.table - 1 = n /\ erasure'.table # 0
      BY <1>1, <1>4
    <3> QED BY <3>1 DEF Past
  <2>2. \A u : Past(u) <=> \E i \in 1..(n - 1) : Scrubbed[i] = u
    BY <1>1 DEF Past
  <2>3. \A i : i \in 1..n <=> i \in 1..(n - 1) \/ i = n
    BY <1>1
  <2> QED BY <1>0, <2>1, <2>2, <2>3
<1>9. \A u \in Range(Scrubbed) : /\ Cleared(u) <=> u \in erasure.listed
                                 /\ Cleared(u)' <=> u \in erasure'.listed
  BY <1>1, <1>3 DEF Cleared
<1>10. \A e : Failed(e) => Failed(e)'
  BY <1>4 DEF Failed
<1>11. ErasureTraced'
  <2>1. \A u \in Range(Scrubbed) : Cleared(u)' => Past(u)'
    BY <1>1, <1>4, <1>8, <1>9 DEF ErasureTraced
  <2>2. ASSUME NEW u \in Range(Scrubbed), Cleared(u)', Holds(u)'
        PROVE  \/ u \in late'
               \/ u \in Ops /\ (Failed(u)' \/ store' = "map")
               \/ store' = "map" /\ u = "investment_portfolios" /\ Len(rows)' > 1
    <3>1. CASE u = t
      BY <1>5, <1>9, <2>2, <3>1
    <3>2. CASE u # t
      <4>1. Cleared(u) /\ Holds(u)
        BY <1>4, <1>5, <1>9, <2>2, <3>2
      <4>2. \/ u \in late
            \/ u \in Ops /\ (Failed(u) \/ store = "map")
        BY <1>1, <1>3, <4>1 DEF ErasureTraced
      <4> QED BY <1>1, <1>10, <4>2
    <3> QED BY <3>1, <3>2
  <2>3. \A u \in Range(Scrubbed) : Past(u)' => u \in erasure'.listed \/ Failed(u)'
    BY <1>1, <1>3, <1>4, <1>8, <1>10 DEF ErasureTraced
  <2> QED BY <2>1, <2>2, <2>3 DEF ErasureTraced
<1>12. GrantsTraced'
  <2>1. erasure'.table > 1
    BY <1>4
  <2> SUFFICES ASSUME NEW r \in 1..MaxAccountRequests
               PROVE  LET g == grants'[r]
                      IN /\ g.stored # "none" => g.kind # "none"
                         /\ g.told = "revoked" /\ g.stored = "active" => g.kind = "key" /\ Failed("revoke")'
                         /\ g.kind = "webhook" /\ g.stored = "active" => g.told = "active"
    BY <2>1 DEF GrantsTraced
  <2>2. LET g == grants[r]
        IN /\ g.stored # "none" => g.kind # "none"
           /\ g.told = "revoked" /\ g.stored = "active" => g.kind = "key" /\ Failed("revoke")'
           /\ g.kind = "webhook" /\ g.stored = "active" => g.told = "active"
    BY <1>1, <1>10 DEF GrantsTraced
  <2> QED BY <1>5, <2>2
<1>13. PapersTraced'
  <2>1. "tax_lot_sales" \in Range(Scrubbed)
    BY Tables
  <2>2. /\ Past("tax_lot_sales") => Past("tax_lot_sales")'
        /\ t = "tax_lot_sales" => Past("tax_lot_sales")'
    BY <1>8, <2>1
  <2> QED BY <1>1, <1>5, <1>10, <2>2 DEF PapersTraced
<1> QED BY <1>6, <1>7, <1>11, <1>12, <1>13 DEF RecordInv, AccountInv

LEMMA EraseMapKeeps == AccountInv /\ EraseMap => AccountInv'
<1> SUFFICES ASSUME AccountInv, EraseMap PROVE AccountInv'
  OBVIOUS
<1>1. /\ UNCHANGED <<store, current, shares, owed, paid, closing, overlaps, credit, shut,
                     statements, handed, documents, dropped>>
      /\ store = "map" /\ asked' \in Nat /\ held' = 0 /\ erased' = erased + 1 /\ late' = {}
      /\ rows' = [rows EXCEPT ![current] = ClosedRow(Closed(@))]
      /\ has' = has \ {"recurring_deposits", "tax_lot_sales"}
      /\ grants' = [r \in DOMAIN grants |-> [grants[r] EXCEPT !.stored = "none"]]
      /\ AccountTypes /\ RecordTypes /\ GrantsTraced /\ PapersTraced
  BY AskedNext DEF EraseMap, AccountInv, RecordInv, paperVars, accountVars
<1>2. /\ rows \in Seq(Account) /\ current \in DOMAIN rows /\ grants \in [1..MaxAccountRequests -> Grant]
      /\ DOMAIN rows = 1..Len(rows) /\ Len(rows) \in Nat
      /\ has \subseteq Plain /\ erased \in Nat /\ held \in Nat
  BY <1>1, AccountFacts DEF AccountTypes, RecordTypes
<1>3. /\ grants' \in [1..MaxAccountRequests -> Grant] /\ DOMAIN grants' = 1..MaxAccountRequests
      /\ \A r \in 1..MaxAccountRequests :
            /\ grants'[r].stored = "none" /\ grants'[r].kind = grants[r].kind
            /\ grants'[r].told = grants[r].told
  <2>1. \A g \in Grant : /\ [g EXCEPT !.stored = "none"] \in Grant
                         /\ [g EXCEPT !.stored = "none"].stored = "none"
                         /\ [g EXCEPT !.stored = "none"].kind = g.kind
                         /\ [g EXCEPT !.stored = "none"].told = g.told
    BY DEF Grant
  <2>2. grants' = [r \in 1..MaxAccountRequests |-> [grants[r] EXCEPT !.stored = "none"]]
    BY <1>1, <1>2
  <2>3. \A r \in 1..MaxAccountRequests :
           grants[r] \in Grant /\ grants'[r] = [grants[r] EXCEPT !.stored = "none"]
    BY <1>2, <2>2
  <2>4. \A r \in 1..MaxAccountRequests : grants'[r] \in Grant
    BY <2>1, <2>3
  <2> QED BY <2>1, <2>2, <2>3, <2>4
<1>4. /\ rows' \in Seq(Account) /\ Len(rows') = Len(rows) /\ DOMAIN rows' = DOMAIN rows
      /\ rows'[current].cash = 0 /\ rows'[current].status = "closed" /\ rows'[current].named = FALSE
      /\ \A i \in DOMAIN rows \ {current} : rows'[i] = rows[i]
  <2>1. \A a \in Account : /\ ClosedRow(Closed(a)) \in Account /\ ClosedRow(Closed(a)).cash = 0
                           /\ ClosedRow(Closed(a)).status = "closed"
                           /\ ClosedRow(Closed(a)).named = FALSE
    BY DEF ClosedRow, Closed, Account
  <2>2. rows[current] \in Account
    BY <1>2
  <2> DEFINE a == ClosedRow(Closed(rows[current]))
  <2>3. a \in Account /\ a.cash = 0 /\ a.status = "closed" /\ a.named = FALSE
    BY <2>1, <2>2
  <2>4. rows' = [rows EXCEPT ![current] = a]
    BY <1>1
  <2> HIDE DEF a
  <2> QED BY <1>2, <2>3, <2>4
<1>5. /\ erasure'.table = 0 /\ erasure' \in [table: 0..9, listed: SUBSET Range(Scrubbed)]
      /\ erased' \in Nat /\ erased' > 0 /\ store' = "map"
  <2> DEFINE L == Ops \cup {"investment_portfolios", "portfolio_holdings", "tax_lot_sales"}
                  \cup {Scrubs[grants[r].kind] : r \in {q \in DOMAIN grants :
                                                          grants[q].stored # "none"}}
                  \cup (has \cap {"recurring_deposits"})
  <2>1. erasure' = [table |-> 0, listed |-> L]
    BY DEF EraseMap
  <2>2. \A r \in DOMAIN grants : grants[r].stored # "none" => Scrubs[grants[r].kind] \in Range(Scrubbed)
    <3>1. \A r \in DOMAIN grants : grants[r].stored # "none" => grants[r].kind # "none"
      BY <1>1, <1>2 DEF GrantsTraced
    <3>2. \A r \in DOMAIN grants : grants[r].kind \in {"none", "key", "webhook"}
      BY <1>2 DEF Grant
    <3> QED BY <3>1, <3>2, GrantTables
  <2>3. L \subseteq Range(Scrubbed)
    BY <2>2, Tables DEF Ops
  <2> HIDE DEF L
  <2> QED BY <1>1, <1>2, <2>1, <2>3
<1>6. AccountTypes' /\ MoneyInv'
  <2>1. Disturbed' /\ held' \in Nat /\ held' <= held /\ dropped \subseteq dropped'
    BY <1>1, <1>2, <1>5 DEF Disturbed
  <2>2. /\ \A i \in DOMAIN rows \ {current} : rows'[i].cash = rows[i].cash
        /\ \A i \in DOMAIN rows : rows[i].status = "closed" => rows'[i].status = "closed"
    BY <1>4
  <2>3. rows'[current].cash = rows[current].cash \/ (store = "map" /\ rows'[current].cash = 0)
    BY <1>1, <1>4
  <2> QED BY <1>1, <1>2, <1>4, <2>1, <2>2, <2>3, MoneyScrubbed
<1>7. RecordTypes'
  BY <1>1, <1>2, <1>3, <1>5 DEF RecordTypes
<1>8. \A t : Past(t)'
  BY <1>5 DEF Past
<1>9. ASSUME NEW t \in Range(Scrubbed), Holds(t)'
      PROVE  \/ t \in Ops /\ store' = "map"
             \/ store' = "map" /\ t = "investment_portfolios" /\ Len(rows)' > 1
  <2>1. \/ \E r \in DOMAIN grants' : grants'[r].stored # "none"
        \/ held' > 0
        \/ t = "investment_portfolios" /\ \E i \in DOMAIN rows' : rows'[i].named
        \/ t \in has'
    BY <1>9 DEF Holds
  <2>2. ~(held' > 0) /\ ~ \E r \in DOMAIN grants' : grants'[r].stored # "none"
    <3>1. ~(held' > 0)
      BY <1>1
    <3>2. \A r \in DOMAIN grants' : grants'[r].stored = "none"
      BY <1>3
    <3> QED BY <3>1, <3>2
  <2>3. t \in has' => t \in Ops
    BY <1>1, <1>2 DEF Plain, Ops
  <2>4. ASSUME NEW i \in DOMAIN rows', rows'[i].named PROVE Len(rows') > 1
    <3>1. i # current /\ i \in 1..Len(rows) /\ current \in 1..Len(rows)
      BY <1>2, <1>4, <2>4
    <3> QED BY <1>2, <1>4, <3>1
  <2> QED BY <1>5, <2>1, <2>2, <2>3, <2>4
<1>10. ErasureTraced'
  BY <1>5, <1>8, <1>9 DEF ErasureTraced
<1>11. GrantsTraced'
  BY <1>3, <1>5 DEF GrantsTraced
<1>12. PapersTraced'
  BY <1>1, <1>8 DEF PapersTraced, Failed
<1> QED BY <1>6, <1>7, <1>10, <1>11, <1>12 DEF RecordInv, AccountInv

(* Statements come and go with the rest at rest. *)
LEMMA PapersMove ==
  ASSUME AccountInv, UNCHANGED <<store, moneyVars, erasureVars, grants>>, asked' \in Nat,
         NEW s \in Statement, NEW n \in BOOLEAN, StatementStored(s, n),
         documents' \subseteq Download,
         \A d \in documents' \ documents :
            /\ d.got # d.asked => d.asked.month # March \/ d.asked.type = "form_1099b"
            /\ d.got.type = "form_1099b" /\ d.sales = FALSE => "tax_lot_sales" \notin has
  PROVE  AccountInv'
<1>1. /\ UNCHANGED <<store, rows, held, erasure, erased, has, late, grants>>
      /\ RecordTypes /\ ErasureTraced /\ GrantsTraced /\ PapersTraced
  BY DEF AccountInv, RecordInv, moneyVars, erasureVars
<1>2. /\ handed' = handed + 1 /\ dropped \subseteq dropped'
      /\ \/ statements' = Append(statements, s)
         \/ statements' = statements /\ (Failed("statement")' \/ Failed("nameless")')
  BY DEF StatementStored, InsertStatement, MapStatement, Failed, DropSQL, Drop
<1>3. \A e : Failed(e) => Failed(e)'
  BY <1>2 DEF Failed
<1>4. /\ statements \in Seq(Statement) /\ statements' \in Seq(Statement)
      /\ Len(statements) \in Nat /\ handed \in Nat /\ handed' \in Nat
      /\ \/ Len(statements') = Len(statements) + 1
         \/ Len(statements') = Len(statements) /\ (Failed("statement")' \/ Failed("nameless")')
  BY <1>1, <1>2 DEF RecordTypes
<1>5. RecordTypes'
  BY <1>1, <1>4 DEF RecordTypes
<1>6. AccountTypes' /\ MoneyInv'
  BY <1>1, <1>2, MoneyRests DEF Disturbed
<1>7. \A t : (Past(t) <=> Past(t)') /\ (Cleared(t) <=> Cleared(t)') /\ (Holds(t) <=> Holds(t)')
  BY <1>1 DEF Past, Cleared, Holds
<1>8. ErasureTraced'
  BY <1>1, <1>3, <1>7 DEF ErasureTraced
<1>9. GrantsTraced'
  BY <1>1, <1>3 DEF GrantsTraced
<1>10. PapersTraced'
  <2>1. /\ Len(statements') <= handed'
        /\ Len(statements') < handed' => Failed("statement")' \/ Failed("nameless")'
    <3> DEFINE l == Len(statements)  m == Len(statements')
    <3>1. /\ l \in Nat /\ l <= handed
          /\ (l < handed => Failed("statement")' \/ Failed("nameless")')
          /\ (m = l + 1 \/ (m = l /\ (Failed("statement")' \/ Failed("nameless")')))
      BY <1>1, <1>3, <1>4 DEF PapersTraced
    <3> HIDE DEF l, m
    <3>2. m <= handed' /\ (m < handed' => Failed("statement")' \/ Failed("nameless")')
      BY <1>2, <1>4, <3>1
    <3> QED BY <3>2 DEF m
  <2>2. "tax_lot_sales" \notin has => erased > 0 \/ Past("tax_lot_sales")
    BY <1>1 DEF PapersTraced
  <2>3. \A d \in documents' :
          /\ d.got # d.asked => d.asked.month # March \/ d.asked.type = "form_1099b"
          /\ d.got.type = "form_1099b" /\ d.sales = FALSE => erased > 0 \/ Past("tax_lot_sales")
    BY <1>1, <2>2 DEF PapersTraced
  <2> QED BY <1>1, <1>7, <2>1, <2>2, <2>3 DEF PapersTraced
<1> QED BY <1>5, <1>6, <1>8, <1>9, <1>10 DEF RecordInv, AccountInv

LEMMA GenerateStatementKeeps ==
  ASSUME AccountInv, NEW s \in Statement, NEW n \in BOOLEAN, GenerateStatement(s, n)
  PROVE  AccountInv'
<1>1. /\ UNCHANGED <<store, moneyVars, erasureVars, grants>> /\ documents' = documents
      /\ asked' \in Nat /\ documents \subseteq Download
  BY AskedNext DEF GenerateStatement, AccountInv, RecordTypes
<1>2. CASE s.type = "form_1099b"
  <2>1. StatementStored(s, n)
    BY <1>2 DEF GenerateStatement, BLLGenerateStatement, RPCForm1099B, GenerateForm1099B
  <2> QED BY <1>1, <2>1, PapersMove
<1>3. CASE s.type # "form_1099b"
  <2> DEFINE m == [type |-> "monthly_summary", month |-> s.month]
  <2>1. m \in Statement
    BY DEF Statement
  <2>2. StatementStored(m, FALSE)
    BY <1>3 DEF GenerateStatement, BLLGenerateStatement, RPCMonthlyStatement, GenerateMonthlyStatement
  <2> HIDE DEF m
  <2> QED BY <1>1, <2>1, <2>2, PapersMove
<1> QED BY <1>2, <1>3

LEMMA DownloadStatementKeeps ==
  ASSUME AccountInv, NEW s \in Statement, DownloadStatement(s)
  PROVE  AccountInv'
<1>0. March \in Months
  BY DEF March
<1>1. s.type \in {"monthly_summary", "form_1099b"} /\ s.month \in Months
      /\ s = [type |-> s.type, month |-> s.month]
  BY DEF Statement
<1>2. PICK d \in Statement :
        /\ d = BLLDownload(s)
        /\ d # s => d.type = "monthly_summary" /\ (s.month # March \/ s.type = "form_1099b")
  <2> DEFINE x == [type |-> "monthly_summary", month |-> March]
  <2>1. BLLDownload(s) = s \/ /\ BLLDownload(s) = x
                              /\ (s # x => s.month # March \/ s.type = "form_1099b")
    BY <1>1 DEF BLLDownload, RPCDocument, Document
  <2>2. x \in Statement /\ x.type = "monthly_summary"
    BY <1>0 DEF Statement
  <2> HIDE DEF x
  <2> QED BY <2>1, <2>2
<1> DEFINE e == [asked |-> s, got |-> d, sales |-> SalesListed(d)]
<1>3. /\ StatementStored(d, FALSE) /\ documents' = documents \cup {e} /\ asked' \in Nat
      /\ UNCHANGED <<store, moneyVars, erasureVars, grants>>
  BY <1>2, AskedNext DEF DownloadStatement
<1>4. SalesListed(d) \in BOOLEAN
      /\ (d.type = "form_1099b" /\ SalesListed(d) = FALSE => "tax_lot_sales" \notin has)
  BY DEF SalesListed, TaxLotSales, MapTaxLotSales
<1>5. /\ e \in Download /\ e.asked = s /\ e.got = d /\ e.sales = SalesListed(d)
  BY <1>4 DEF Download
<1>6. documents \subseteq Download
  BY DEF AccountInv, RecordTypes
<1> HIDE DEF e
<1>7. \A c \in documents' \ documents :
         /\ c.got # c.asked => c.asked.month # March \/ c.asked.type = "form_1099b"
         /\ c.got.type = "form_1099b" /\ c.sales = FALSE => "tax_lot_sales" \notin has
  BY <1>2, <1>3, <1>4, <1>5
<1>8. documents' \subseteq Download
  BY <1>3, <1>5, <1>6
<1> QED BY <1>3, <1>7, <1>8, PapersMove

(* A name on a row makes its table late. *)
LEMMA NamesLate ==
  ASSUME AccountInv, NEW b \in BOOLEAN, Renamed(b)
  PROVE  /\ late \subseteq late' /\ late' \subseteq Range(Scrubbed)
         /\ b = TRUE => "investment_portfolios" \in late' \/ ~Past("investment_portfolios")
<1>1. "investment_portfolios" \in Range(Scrubbed) /\ late \subseteq Range(Scrubbed)
  BY Tables DEF AccountInv, RecordTypes
<1>2. CASE b = TRUE
  BY <1>1, <1>2, WrittenLate DEF Renamed
<1>3. CASE b = FALSE
  BY <1>1, <1>3 DEF Renamed
<1> QED BY <1>2, <1>3

(* Without an overlap nothing else goes on beside a closure. *)
LEMMA OnlyTab ==
  ASSUME AccountInv, ~overlaps, NEW c \in Tabs, closing[c] # Open
  PROVE  /\ credit = NoCredit /\ Pending = 0 /\ Busy
         /\ \A d \in Tabs : d # c => closing[d] = Open
BY DEF AccountInv, MoneyInv, OneAtATime, Busy, Pending

(* A closure takes a step. *)
LEMMA ClosureStep ==
  ASSUME AccountTypes, NEW c \in Tabs, NEW k \in Closure, Continues(c, k)
  PROVE  /\ closing' \in [Tabs -> Closure] /\ closing'[c] = k
         /\ \A d \in Tabs : d # c => closing'[d] = closing[d]
         /\ k # Open => Busy'
<1>1. closing \in [Tabs -> Closure]
  BY DEF AccountTypes
<1>2. /\ closing' \in [Tabs -> Closure] /\ closing'[c] = k
      /\ \A d \in Tabs : d # c => closing'[d] = closing[d]
  BY <1>1 DEF Continues
<1> QED BY <1>2 DEF Busy

LEMMA StepOfOpen ==
  Open \in Closure /\ Open.step = "open" /\ \A k \in Closure : k.step # "open" => k # Open
BY DEF Open, Closure

LEMMA RegisterCustomerKeeps == AccountInv /\ RegisterCustomer => AccountInv'
<1> SUFFICES ASSUME AccountInv, RegisterCustomer PROVE AccountInv'
  OBVIOUS
<1>1. /\ UNCHANGED <<store, held, shares, owed, paid, closing, overlaps, erasure, erased, has,
                     credit, shut, grants, paperVars, dropped>>
      /\ rows' = Append(rows, NewRow) /\ current' \in {current, Len(rows) + 1}
      /\ Renamed(TRUE) /\ asked' \in Nat
      /\ AccountTypes /\ OneAtATime /\ PaidOnce /\ ShutStays /\ BalancesGone
  BY AskedNext DEF RegisterCustomer, CreatePortfolio, MapPortfolio, AccountInv, MoneyInv, accountVars
<1>2. rows \in Seq(Account) /\ current \in DOMAIN rows /\ shut \subseteq DOMAIN rows
  BY <1>1 DEF AccountTypes
<1>3. NewRow \in Account /\ NewRow.cash = 0 /\ NewRow.status = "active"
  BY DEF NewRow, Account
<1>4. /\ rows' \in Seq(Account) /\ Len(rows') = Len(rows) + 1 /\ Len(rows) \in Nat /\ Len(rows') \in Nat
      /\ Len(rows) >= 1 /\ Len(rows') # 1
      /\ DOMAIN rows' = 1..(Len(rows) + 1) /\ current' \in DOMAIN rows'
      /\ rows'[Len(rows) + 1] = NewRow
      /\ \A i \in DOMAIN rows : i \in DOMAIN rows' /\ rows'[i] = rows[i]
      /\ \A i \in DOMAIN rows' : i \in DOMAIN rows \/ rows'[i] = NewRow
  BY <1>1, <1>2, <1>3
<1>5. Balance' = Balance
  BY <1>1, <1>2, <1>3, BalanceAppend DEF Balance
<1>6. \A c \in Tabs : closing[c] # Open => closing[c].row \in DOMAIN rows
  BY <1>1 DEF AccountTypes
<1>7. credit # NoCredit => credit.row \in DOMAIN rows
  BY <1>1 DEF AccountTypes
<1>8. (Busy <=> Busy') /\ Pending' = Pending
  BY <1>1 DEF Busy, Pending
<1>9. AccountTypes'
  BY <1>1, <1>2, <1>4 DEF AccountTypes
<1>10. OneAtATime'
  BY <1>1, <1>4, <1>7, <1>8 DEF OneAtATime
<1>11. PaidOnce'
  <2>1. \A c \in Tabs : closing[c] # Open => (PaidOnceAt(c) <=> PaidOnceAt(c)')
    BY <1>1, <1>4, <1>5, <1>6 DEF PaidOnceAt
  <2> QED BY <1>1, <1>5, <1>8, <2>1 DEF PaidOnce, Failed
<1>12. PaidInFull'
  BY <1>4 DEF PaidInFull
<1>13. ShutStays'
  BY <1>1, <1>2, <1>4 DEF ShutStays
<1>14. BalancesGone'
  <2>1. (Failed("delete") <=> Failed("delete")') /\ (Disturbed <=> Disturbed')
    BY <1>1 DEF Failed, Disturbed
  <2> QED BY <1>1, <1>3, <1>4, <2>1 DEF BalancesGone
<1>15. RecordTypes' /\ RecordInv'
  <2>1. /\ late \subseteq late' /\ late' \subseteq Range(Scrubbed)
        /\ "investment_portfolios" \in late' \/ ~Past("investment_portfolios")
    BY <1>1, NamesLate
  <2>2. Len(rows') >= Len(rows) /\ dropped \subseteq dropped'
    BY <1>1, <1>4
  <2> QED BY <1>1, <1>4, <2>1, <2>2, RecordsRest
<1> QED BY <1>9, <1>10, <1>11, <1>12, <1>13, <1>14, <1>15 DEF MoneyInv, AccountInv

LEMMA UpdatePortfolioBalanceKeeps == AccountInv /\ UpdatePortfolioBalance => AccountInv'
<1> SUFFICES ASSUME AccountInv, UpdatePortfolioBalance PROVE AccountInv'
  OBVIOUS
<1>1. /\ UNCHANGED <<store, rows, current, held, shares, paid, closing, shut, erasure, erased, has, late,
                     grants, paperVars, dropped>>
      /\ credit = NoCredit /\ owed' = owed + 1 /\ asked' \in Nat
      /\ credit' = [row |-> current, copy |-> rows[current]]
      /\ overlaps' = (overlaps \/ Busy)
      /\ AccountTypes /\ OneAtATime /\ PaidOnce /\ PaidInFull /\ ShutStays /\ BalancesGone
  BY AskedNext DEF UpdatePortfolioBalance, GetPortfolio, OldestRow, MapRecord, AccountInv, MoneyInv,
                   erasureVars
<1>2. /\ current \in DOMAIN rows /\ DOMAIN rows = 1..Len(rows) /\ Len(rows) \in Nat
      /\ rows[current] \in Account /\ owed \in Nat /\ paid \in Nat /\ shares \in Nat /\ held \in Nat
      /\ Balance \in Nat /\ 1 \in DOMAIN rows /\ rows[1].cash \in Nat
  BY <1>1, AccountFacts
<1>3. credit'.row = current /\ credit'.copy = rows[current] /\ credit' # NoCredit
  BY <1>1, <1>2 DEF NoCredit
<1>4. (Busy <=> Busy') /\ Pending = 0 /\ Pending' = 1 /\ Balance' = Balance
  BY <1>1, <1>3 DEF Busy, Pending, Balance
<1>5. overlaps \in BOOLEAN /\ (~overlaps' => ~overlaps /\ ~Busy)
  BY <1>1 DEF AccountTypes
<1>6. AccountTypes'
  <2>1. overlaps' \in BOOLEAN /\ owed' \in Nat /\ credit'.row \in Nat
    BY <1>1, <1>2, <1>3, <1>5 DEF Busy
  <2> QED BY <1>1, <1>2, <1>3, <2>1 DEF AccountTypes
<1>7. OneAtATime'
  BY <1>1, <1>3, <1>4, <1>5 DEF OneAtATime
<1>8. PaidOnce'
  <2> SUFFICES ASSUME ~overlaps', \A e \in {"positions", "sell", "row", "delete"} : ~Failed(e)'
               PROVE  paid' + Balance' + Pending' + shares' <= owed' /\ held' <= shares'
    BY <1>1, <1>4, <1>5 DEF PaidOnce, Busy
  <2>1. ~overlaps /\ ~Busy /\ \A e \in {"positions", "sell", "row", "delete"} : ~Failed(e)
    BY <1>1, <1>5 DEF Failed
  <2>2. paid + Balance + 0 + shares <= owed /\ held <= shares
    BY <1>1, <1>4, <2>1 DEF PaidOnce
  <2> QED BY <1>1, <1>2, <1>4, <2>2
<1>9. PaidInFull'
  <2> SUFFICES ASSUME ~overlaps', ~Disturbed', Len(rows) = 1,
                      \A e \in {"pay", "positions", "credit"} : ~Failed(e)'
               PROVE  /\ credit'.row = 1 /\ credit'.copy = rows'[1]
                      /\ \/ paid' + rows'[1].cash + Pending' >= owed'
                         \/ /\ rows'[1].status = "active" /\ shares' >= 1
                            /\ paid' + rows'[1].cash + Pending' + 1 >= owed'
    BY <1>1, <1>4, <1>5 DEF PaidInFull, Busy
  <2>1. ~overlaps /\ ~Busy /\ ~Disturbed /\ \A e \in {"pay", "positions", "credit"} : ~Failed(e)
    BY <1>1, <1>5 DEF Failed, Disturbed
  <2>2. \/ paid + rows[1].cash + 0 >= owed
        \/ rows[1].status = "active" /\ shares >= 1 /\ paid + rows[1].cash + 0 + 1 >= owed
    BY <1>1, <1>4, <2>1 DEF PaidInFull
  <2>3. current = 1
    BY <1>2
  <2> QED BY <1>1, <1>2, <1>3, <1>4, <2>2, <2>3
<1>10. ShutStays'
  BY <1>1, <1>3, <1>5 DEF ShutStays
<1>11. BalancesGone'
  <2>1. owed >= 2
    BY <1>1 DEF BalancesGone
  <2>2. owed' >= 2 /\ owed' # 2
    BY <1>1, <1>2, <2>1
  <2> QED BY <2>2 DEF BalancesGone
<1>12. RecordTypes' /\ RecordInv'
  <2>1. late \subseteq Range(Scrubbed) /\ Len(rows) >= Len(rows)
    BY <1>2 DEF AccountInv, RecordTypes
  <2> QED BY <1>1, <1>2, <2>1, RecordsRest
<1> QED BY <1>6, <1>7, <1>8, <1>9, <1>10, <1>11, <1>12 DEF MoneyInv, AccountInv

(* A step of a closure that leaves the rows alone. *)
LEMMA ClosureFrame ==
  ASSUME AccountInv, NEW c \in Tabs, NEW k \in Closure, Continues(c, k), k.step # "open",
         k.row \in DOMAIN rows,
         UNCHANGED <<store, rows, current, held, owed, credit, shut, erasureVars, grants, paperVars>>,
         dropped \subseteq dropped', shares' \in Nat, paid' \in Nat, asked' \in Nat,
         overlaps' \in BOOLEAN,
         ~overlaps' => /\ ~overlaps /\ credit = NoCredit
                       /\ \A d \in Tabs : d # c => closing[d] = Open,
         ~overlaps' /\ (\A e \in {"positions", "sell", "row", "delete"} : ~Failed(e)') => PaidOnceAt(c)',
         ~overlaps' /\ ~Disturbed /\ Len(rows) = 1
         /\ (\A e \in {"pay", "positions", "credit"} : ~Failed(e)') => PaidInFullAt(c)'
  PROVE  AccountInv'
<1>1. /\ UNCHANGED <<erasure, erased, has, late>>
      /\ AccountTypes /\ OneAtATime /\ ShutStays /\ BalancesGone
      /\ \A e : Failed(e) => Failed(e)'
  BY DEF AccountInv, MoneyInv, erasureVars, Failed
<1>2. k # Open
  BY StepOfOpen
<1>3. /\ closing' \in [Tabs -> Closure] /\ closing'[c] = k
      /\ \A d \in Tabs : d # c => closing'[d] = closing[d]
      /\ Busy'
  BY <1>1, <1>2, ClosureStep
<1>4. Disturbed' <=> Disturbed
  BY <1>1 DEF Disturbed
<1>5. AccountTypes'
  BY <1>1, <1>3 DEF AccountTypes
<1>6. OneAtATime'
  BY <1>3 DEF OneAtATime
<1>7. PaidOnce'
  BY <1>3 DEF PaidOnce
<1>8. PaidInFull'
  BY <1>3, <1>4 DEF PaidInFull
<1>9. ShutStays'
  BY <1>1 DEF ShutStays
<1>10. BalancesGone'
  BY <1>1, <1>4 DEF BalancesGone
<1>11. RecordTypes' /\ RecordInv'
  <2>1. /\ late \subseteq Range(Scrubbed) /\ Len(rows) \in Nat /\ late \subseteq late'
        /\ late' \subseteq Range(Scrubbed) /\ Len(rows') \in Nat
    BY <1>1, AccountFacts DEF AccountInv, RecordTypes
  <2>2. Len(rows') >= Len(rows)
    BY <2>1
  <2>3. (held' > 0 => held > 0) /\ UNCHANGED <<store, erasure, erased, has, grants, paperVars>>
        /\ ((\E i \in DOMAIN rows' : rows'[i].named) => \E i \in DOMAIN rows : rows[i].named)
    BY <1>1
  <2> QED BY <2>1, <2>2, <2>3, RecordsRest
<1> QED BY <1>5, <1>6, <1>7, <1>8, <1>9, <1>10, <1>11 DEF MoneyInv, AccountInv

LEMMA CloseAccountKeeps ==
  ASSUME AccountInv, NEW c \in Tabs, CloseAccount(c) PROVE AccountInv'
<1> DEFINE k == [step |-> "list", row |-> current, cash |-> rows[current].cash,
                 held |-> held, proceeds |-> 0, named |-> rows[current].named]
<1>1. /\ UNCHANGED <<store, rows, current, held, shares, owed, paid, credit, shut, erasureVars, grants,
                     paperVars, dropped>>
      /\ closing[c] = Open /\ asked' \in Nat /\ Continues(c, k)
      /\ overlaps' = (overlaps \/ Busy \/ credit # NoCredit)
      /\ AccountTypes /\ PaidOnce /\ PaidInFull
  BY AskedNext DEF CloseAccount, GetPortfolio, OldestRow, MapRecord, HoldingsOf, GetHoldings,
                   MapHoldings, AccountInv, MoneyInv, accountVars
<1>2. /\ current \in DOMAIN rows /\ DOMAIN rows = 1..Len(rows) /\ Len(rows) \in Nat
      /\ rows[current].cash \in Nat /\ rows[current].named \in BOOLEAN
      /\ shares \in Nat /\ paid \in Nat /\ held \in Nat /\ owed \in Nat /\ Balance \in Nat
  BY <1>1, AccountFacts
<1>3. /\ k \in Closure /\ k.step = "list" /\ k.row = current /\ k.cash = rows[current].cash
      /\ k.held = held /\ k.proceeds = 0
  <2>1. current \in Nat
    BY <1>2
  <2> QED BY <1>2, <2>1 DEF Closure
<1> HIDE DEF k
<1>4. overlaps' \in BOOLEAN /\ (~overlaps' => ~overlaps /\ ~Busy /\ credit = NoCredit)
  <2>1. overlaps \in BOOLEAN
    BY <1>1 DEF AccountTypes
  <2> QED BY <1>1, <2>1
<1>5. Balance' = Balance /\ closing'[c] = k
  BY <1>1, <1>3, ClosureStep DEF Balance
<1>6. ~overlaps' /\ (\A e \in {"positions", "sell", "row", "delete"} : ~Failed(e)') => PaidOnceAt(c)'
  <2> SUFFICES ASSUME ~overlaps', \A e \in {"positions", "sell", "row", "delete"} : ~Failed(e)'
               PROVE  PaidOnceAt(c)'
    OBVIOUS
  <2>1. \A e \in {"positions", "sell", "row", "delete"} : ~Failed(e)
    BY <1>1 DEF Failed
  <2>2. paid + Balance + Pending + shares <= owed /\ held <= shares /\ Pending = 0
    BY <1>1, <1>4, <2>1 DEF PaidOnce, Pending
  <2>3. paid + Balance + shares <= owed
    BY <1>2, <2>2
  <2> QED BY <1>1, <1>3, <1>5, <2>2, <2>3 DEF PaidOnceAt
<1>7. ~overlaps' /\ ~Disturbed /\ Len(rows) = 1
      /\ (\A e \in {"pay", "positions", "credit"} : ~Failed(e)') => PaidInFullAt(c)'
  <2> SUFFICES ASSUME ~overlaps', ~Disturbed, Len(rows) = 1,
                      \A e \in {"pay", "positions", "credit"} : ~Failed(e)'
               PROVE  PaidInFullAt(c)'
    OBVIOUS
  <2>1. current = 1 /\ \A e \in {"pay", "positions", "credit"} : ~Failed(e)
    BY <1>1, <1>2 DEF Failed
  <2>2. /\ Pending = 0
        /\ \/ paid + rows[1].cash + Pending >= owed
           \/ rows[1].status = "active" /\ shares >= 1 /\ paid + rows[1].cash + Pending + 1 >= owed
    BY <1>1, <1>4, <2>1 DEF PaidInFull, Pending
  <2>3. paid + rows[1].cash >= owed \/ (shares >= 1 /\ paid + rows[1].cash + 1 >= owed)
    BY <1>2, <2>1, <2>2
  <2> QED BY <1>1, <1>3, <1>5, <2>1, <2>3 DEF PaidInFullAt
<1>8. /\ k.step # "open" /\ k.row \in DOMAIN rows /\ dropped \subseteq dropped'
      /\ shares' \in Nat /\ paid' \in Nat
      /\ ~overlaps' => ~overlaps /\ credit = NoCredit /\ \A d \in Tabs : d # c => closing[d] = Open
  BY <1>1, <1>2, <1>3, <1>4 DEF Busy
<1> QED BY <1>1, <1>3, <1>4, <1>6, <1>7, <1>8, ClosureFrame

(* What a tab that closes the account has got to. *)
LEMMA ClosureAt ==
  ASSUME AccountInv, NEW c \in Tabs, closing[c].step # "open"
  PROVE  /\ closing[c] \in Closure /\ closing[c] # Open /\ closing[c].row \in DOMAIN rows
         /\ closing[c].held \in Nat /\ closing[c].proceeds \in Nat /\ closing[c].cash \in Nat
         /\ rows[closing[c].row].cash \in Nat /\ 1 \in DOMAIN rows /\ rows[1].cash \in Nat
         /\ shares \in Nat /\ paid \in Nat /\ owed \in Nat /\ Balance \in Nat
         /\ overlaps \in BOOLEAN /\ asked \in Nat
         /\ ~overlaps => /\ credit = NoCredit /\ Pending = 0
                         /\ \A d \in Tabs : d # c => closing[d] = Open
         /\ ~overlaps /\ (\A e \in {"positions", "sell", "row", "delete"} : ~Failed(e)) => PaidOnceAt(c)
         /\ ~overlaps /\ ~Disturbed /\ Len(rows) = 1
            /\ (\A e \in {"pay", "positions", "credit"} : ~Failed(e)) => PaidInFullAt(c)
<1>1. AccountTypes /\ OneAtATime /\ PaidOnce /\ PaidInFull /\ asked \in Nat
  BY DEF AccountInv, MoneyInv, RecordTypes
<1>2. closing[c] # Open
  BY StepOfOpen
<1>3. ~overlaps => /\ credit = NoCredit /\ Pending = 0
                   /\ \A d \in Tabs : d # c => closing[d] = Open
  BY <1>2, OnlyTab
<1>4. /\ ~overlaps /\ (\A e \in {"positions", "sell", "row", "delete"} : ~Failed(e)) => PaidOnceAt(c)
      /\ ~overlaps /\ ~Disturbed /\ Len(rows) = 1
         /\ (\A e \in {"pay", "positions", "credit"} : ~Failed(e)) => PaidInFullAt(c)
  BY <1>1, <1>2 DEF PaidOnce, PaidInFull
<1>5. overlaps \in BOOLEAN
  BY <1>1 DEF AccountTypes
<1>6. closing[c].row \in DOMAIN rows
  BY <1>1, <1>2, AccountFacts
<1>7. rows[closing[c].row].cash \in Nat
  BY <1>1, <1>6, AccountFacts
<1>8. /\ closing[c] \in Closure /\ closing[c].held \in Nat /\ closing[c].proceeds \in Nat
      /\ closing[c].cash \in Nat
      /\ 1 \in DOMAIN rows /\ rows[1].cash \in Nat
      /\ shares \in Nat /\ paid \in Nat /\ owed \in Nat /\ Balance \in Nat
  BY <1>1, AccountFacts
<1> QED BY <1>1, <1>2, <1>3, <1>4, <1>5, <1>6, <1>7, <1>8

LEMMA ListPositionsKeeps ==
  ASSUME AccountInv, NEW c \in Tabs, ListPositions(c) PROVE AccountInv'
<1>1. PICK k : k = closing[c]
  OBVIOUS
<1>2. /\ UNCHANGED <<store, rows, current, held, shares, owed, paid, credit, shut, erasureVars, grants,
                     paperVars, overlaps, asked>>
      /\ k.step = "list"
  BY <1>1 DEF ListPositions, ClosureKeeps, accountVars
<1>3. /\ k \in Closure /\ k # Open /\ k.row \in DOMAIN rows /\ k.held \in Nat
      /\ rows[k.row].cash \in Nat /\ rows[1].cash \in Nat
      /\ shares \in Nat /\ paid \in Nat /\ owed \in Nat /\ Balance \in Nat
      /\ overlaps \in BOOLEAN /\ asked \in Nat
      /\ ~overlaps => credit = NoCredit /\ \A d \in Tabs : d # c => closing[d] = Open
      /\ ~overlaps /\ (\A e \in {"positions", "sell", "row", "delete"} : ~Failed(e)) => PaidOnceAt(c)
      /\ ~overlaps /\ ~Disturbed /\ Len(rows) = 1
         /\ (\A e \in {"pay", "positions", "credit"} : ~Failed(e)) => PaidInFullAt(c)
  BY <1>1, <1>2, ClosureAt
<1>4. PICK v \in Nat :
        /\ Continues(c, [k EXCEPT !.step = IF v > 0 THEN "sell" ELSE "pay",
                                  !.proceeds = IF v > 0 THEN v ELSE k.held])
        /\ \/ v = shares /\ UNCHANGED dropped
           \/ Drop("positions")
  BY <1>1, <1>3 DEF ListPositions
<1>5. PICK s \in {"sell", "pay"}, p \in Nat :
        s = (IF v > 0 THEN "sell" ELSE "pay") /\ p = (IF v > 0 THEN v ELSE k.held)
  BY <1>3
<1>6. PICK m \in Closure : /\ m = [k EXCEPT !.step = s, !.proceeds = p]
                           /\ m.step = s /\ m.proceeds = p /\ m.row = k.row /\ m.cash = k.cash
  <2> DEFINE x == [k EXCEPT !.step = s, !.proceeds = p]
  <2>1. s \in {"list", "sell", "pay", "write"}
    OBVIOUS
  <2>2. x \in Closure /\ x.step = s /\ x.proceeds = p /\ x.row = k.row /\ x.cash = k.cash
    BY <1>3, <2>1 DEF Closure
  <2> HIDE DEF x
  <2>3. x = [k EXCEPT !.step = s, !.proceeds = p]
    BY DEF x
  <2> QED BY <2>2, <2>3
<1>7. Continues(c, m) /\ m.step # "open" /\ m.row \in DOMAIN rows
  BY <1>3, <1>4, <1>5, <1>6
<1>8. /\ dropped \subseteq dropped' /\ (~Failed("positions")' => v = shares /\ dropped' = dropped)
  BY <1>4, Drops DEF Failed
<1>9. AccountTypes
  BY DEF AccountInv
<1>10. Balance' = Balance /\ closing'[c] = m
  BY <1>2, <1>7, <1>9, ClosureStep DEF Balance
<1>11. ~overlaps' /\ (\A e \in {"positions", "sell", "row", "delete"} : ~Failed(e)') => PaidOnceAt(c)'
  <2> SUFFICES ASSUME ~overlaps', \A e \in {"positions", "sell", "row", "delete"} : ~Failed(e)'
               PROVE  PaidOnceAt(c)'
    OBVIOUS
  <2>1. ~overlaps /\ v = shares /\ \A e \in {"positions", "sell", "row", "delete"} : ~Failed(e)
    BY <1>2, <1>8 DEF Failed
  <2>2. /\ store = "pgx" => k.cash = rows[k.row].cash
        /\ k.held <= shares /\ paid + Balance + shares <= owed
    BY <1>1, <1>2, <1>3, <2>1 DEF PaidOnceAt
  <2>3. /\ s = "sell" => p = shares
        /\ s = "pay" => shares = 0 /\ p = 0
    BY <1>3, <1>5, <2>1, <2>2
  <2>4. s = "pay" => paid + Balance + p <= owed
    BY <1>3, <2>2, <2>3
  <2> QED BY <1>2, <1>6, <1>10, <2>2, <2>3, <2>4 DEF PaidOnceAt
<1>12. ~overlaps' /\ ~Disturbed /\ Len(rows) = 1
       /\ (\A e \in {"pay", "positions", "credit"} : ~Failed(e)') => PaidInFullAt(c)'
  <2> SUFFICES ASSUME ~overlaps', ~Disturbed, Len(rows) = 1,
                      \A e \in {"pay", "positions", "credit"} : ~Failed(e)'
               PROVE  PaidInFullAt(c)'
    OBVIOUS
  <2>1. ~overlaps /\ v = shares /\ \A e \in {"pay", "positions", "credit"} : ~Failed(e)
    BY <1>2, <1>8 DEF Failed
  <2>2. /\ k.row = 1 /\ k.cash = rows[1].cash
        /\ paid + rows[1].cash >= owed \/ (shares >= 1 /\ paid + rows[1].cash + 1 >= owed)
    BY <1>1, <1>2, <1>3, <2>1 DEF PaidInFullAt
  <2>3. paid + rows[1].cash + p >= owed
    BY <1>3, <1>5, <2>1, <2>2
  <2> QED BY <1>2, <1>5, <1>6, <1>10, <2>2, <2>3 DEF PaidInFullAt
<1>13. /\ shares' \in Nat /\ paid' \in Nat /\ asked' \in Nat /\ overlaps' \in BOOLEAN
       /\ ~overlaps' => /\ ~overlaps /\ credit = NoCredit
                        /\ \A d \in Tabs : d # c => closing[d] = Open
  BY <1>2, <1>3
<1> QED BY <1>2, <1>7, <1>8, <1>11, <1>12, <1>13, ClosureFrame

LEMMA SellPositionsKeeps ==
  ASSUME AccountInv, NEW c \in Tabs, SellPositions(c) PROVE AccountInv'
<1>1. PICK k : k = closing[c]
  OBVIOUS
<1>2. /\ UNCHANGED <<store, rows, current, held, owed, paid, credit, shut, erasureVars, grants,
                     paperVars, overlaps, asked>>
      /\ k.step = "sell" /\ Continues(c, [k EXCEPT !.step = "pay"])
      /\ \/ shares' = 0 /\ UNCHANGED dropped
         \/ UNCHANGED shares /\ Drop("sell")
  BY <1>1 DEF SellPositions, ClosureKeeps, accountVars
<1>3. /\ k \in Closure /\ k.row \in DOMAIN rows /\ k.proceeds \in Nat
      /\ rows[1].cash \in Nat
      /\ shares \in Nat /\ paid \in Nat /\ owed \in Nat /\ Balance \in Nat
      /\ overlaps \in BOOLEAN /\ asked \in Nat
      /\ ~overlaps => credit = NoCredit /\ \A d \in Tabs : d # c => closing[d] = Open
      /\ ~overlaps /\ (\A e \in {"positions", "sell", "row", "delete"} : ~Failed(e)) => PaidOnceAt(c)
      /\ ~overlaps /\ ~Disturbed /\ Len(rows) = 1
         /\ (\A e \in {"pay", "positions", "credit"} : ~Failed(e)) => PaidInFullAt(c)
  BY <1>1, <1>2, ClosureAt
<1>4. PICK m \in Closure : /\ m = [k EXCEPT !.step = "pay"]
                           /\ m.step = "pay" /\ m.proceeds = k.proceeds /\ m.row = k.row
                           /\ m.cash = k.cash
  <2> DEFINE x == [k EXCEPT !.step = "pay"]
  <2>1. x \in Closure /\ x.step = "pay" /\ x.proceeds = k.proceeds /\ x.row = k.row /\ x.cash = k.cash
    BY <1>3 DEF Closure
  <2> HIDE DEF x
  <2>2. x = [k EXCEPT !.step = "pay"]
    BY DEF x
  <2> QED BY <2>1, <2>2
<1>5. /\ Continues(c, m) /\ m.step # "open" /\ m.row \in DOMAIN rows /\ AccountTypes
      /\ shares' \in Nat
  BY <1>2, <1>3, <1>4 DEF AccountInv
<1>6. /\ dropped \subseteq dropped' /\ (~Failed("sell")' => shares' = 0 /\ dropped' = dropped)
      /\ \A e : ~Failed(e)' => ~Failed(e)
  BY <1>2, Drops DEF Failed
<1>7. Balance' = Balance /\ closing'[c] = m
  BY <1>2, <1>5, ClosureStep DEF Balance
<1>8. ~overlaps' /\ (\A e \in {"positions", "sell", "row", "delete"} : ~Failed(e)') => PaidOnceAt(c)'
  <2> SUFFICES ASSUME ~overlaps', \A e \in {"positions", "sell", "row", "delete"} : ~Failed(e)'
               PROVE  PaidOnceAt(c)'
    OBVIOUS
  <2>1. ~overlaps /\ shares' = 0 /\ \A e \in {"positions", "sell", "row", "delete"} : ~Failed(e)
    BY <1>2, <1>6
  <2>2. /\ store = "pgx" => k.cash = rows[k.row].cash
        /\ k.proceeds = shares /\ paid + Balance + shares <= owed
    BY <1>1, <1>2, <1>3, <2>1 DEF PaidOnceAt
  <2> QED BY <1>2, <1>4, <1>7, <2>1, <2>2 DEF PaidOnceAt
<1>9. ~overlaps' /\ ~Disturbed /\ Len(rows) = 1
      /\ (\A e \in {"pay", "positions", "credit"} : ~Failed(e)') => PaidInFullAt(c)'
  <2> SUFFICES ASSUME ~overlaps', ~Disturbed, Len(rows) = 1,
                      \A e \in {"pay", "positions", "credit"} : ~Failed(e)'
               PROVE  PaidInFullAt(c)'
    OBVIOUS
  <2>1. ~overlaps /\ \A e \in {"pay", "positions", "credit"} : ~Failed(e)
    BY <1>2, <1>6
  <2>2. k.row = 1 /\ k.cash = rows[1].cash /\ paid + rows[1].cash + k.proceeds >= owed
    BY <1>1, <1>2, <1>3, <2>1 DEF PaidInFullAt
  <2> QED BY <1>2, <1>4, <1>7, <2>2 DEF PaidInFullAt
<1>10. /\ paid' \in Nat /\ asked' \in Nat /\ overlaps' \in BOOLEAN
       /\ ~overlaps' => /\ ~overlaps /\ credit = NoCredit
                        /\ \A d \in Tabs : d # c => closing[d] = Open
  BY <1>2, <1>3
<1> QED BY <1>2, <1>5, <1>6, <1>8, <1>9, <1>10, ClosureFrame

LEMMA PayOutKeeps ==
  ASSUME AccountInv, NEW c \in Tabs, PayOut(c) PROVE AccountInv'
<1>1. PICK k : k = closing[c]
  OBVIOUS
<1>2. PICK amount : amount = k.proceeds + IF store = "map" THEN rows[k.row].cash ELSE k.cash
  OBVIOUS
<1>3. /\ UNCHANGED <<store, rows, current, held, shares, owed, credit, shut, erasureVars, grants,
                     paperVars, overlaps, asked>>
      /\ k.step = "pay" /\ Continues(c, [k EXCEPT !.step = "write"])
      /\ \/ paid' = paid + amount /\ UNCHANGED dropped
         \/ amount > 0 /\ Drop("pay") /\ UNCHANGED paid
  BY <1>1, <1>2 DEF PayOut, ClosureKeeps, accountVars
<1>4. /\ k \in Closure /\ k.row \in DOMAIN rows /\ k.proceeds \in Nat /\ k.cash \in Nat
      /\ rows[k.row].cash \in Nat /\ rows[1].cash \in Nat
      /\ shares \in Nat /\ paid \in Nat /\ owed \in Nat /\ Balance \in Nat
      /\ overlaps \in BOOLEAN /\ asked \in Nat
      /\ ~overlaps => credit = NoCredit /\ \A d \in Tabs : d # c => closing[d] = Open
      /\ ~overlaps /\ (\A e \in {"positions", "sell", "row", "delete"} : ~Failed(e)) => PaidOnceAt(c)
      /\ ~overlaps /\ ~Disturbed /\ Len(rows) = 1
         /\ (\A e \in {"pay", "positions", "credit"} : ~Failed(e)) => PaidInFullAt(c)
  BY <1>1, <1>3, ClosureAt
<1>5. PICK m \in Closure : /\ m = [k EXCEPT !.step = "write"]
                           /\ m.step = "write" /\ m.row = k.row /\ m.cash = k.cash
  <2> DEFINE x == [k EXCEPT !.step = "write"]
  <2>1. x \in Closure /\ x.step = "write" /\ x.row = k.row /\ x.cash = k.cash
    BY <1>4 DEF Closure
  <2> HIDE DEF x
  <2>2. x = [k EXCEPT !.step = "write"]
    BY DEF x
  <2> QED BY <2>1, <2>2
<1>6. /\ Continues(c, m) /\ m.step # "open" /\ m.row \in DOMAIN rows /\ AccountTypes
      /\ amount \in Nat /\ paid' \in Nat
  <2>1. amount \in Nat
    BY <1>2, <1>4
  <2> QED BY <1>3, <1>4, <1>5, <2>1 DEF AccountInv
<1>7. /\ dropped \subseteq dropped' /\ (~Failed("pay")' => paid' = paid + amount /\ dropped' = dropped)
      /\ \A e : ~Failed(e)' => ~Failed(e)
      /\ (paid' = paid + amount \/ paid' = paid)
  BY <1>3, Drops DEF Failed
<1>8. Balance' = Balance /\ closing'[c] = m
  BY <1>3, <1>6, ClosureStep DEF Balance
<1>9. ~overlaps' /\ (\A e \in {"positions", "sell", "row", "delete"} : ~Failed(e)') => PaidOnceAt(c)'
  <2> SUFFICES ASSUME ~overlaps', \A e \in {"positions", "sell", "row", "delete"} : ~Failed(e)'
               PROVE  PaidOnceAt(c)'
    OBVIOUS
  <2>1. ~overlaps /\ \A e \in {"positions", "sell", "row", "delete"} : ~Failed(e)
    BY <1>3, <1>7
  <2>2. /\ store = "pgx" => k.cash = rows[k.row].cash
        /\ shares = 0 /\ paid + Balance + k.proceeds <= owed
    BY <1>1, <1>3, <1>4, <2>1 DEF PaidOnceAt
  <2>3. amount = k.proceeds + rows[k.row].cash
    BY <1>2, <1>6, <2>2 DEF AccountTypes
  <2>4. paid' + Balance <= owed + rows[k.row].cash
    BY <1>4, <1>6, <1>7, <2>2, <2>3
  <2> QED BY <1>3, <1>5, <1>8, <2>2, <2>4 DEF PaidOnceAt
<1>10. ~overlaps' /\ ~Disturbed /\ Len(rows) = 1
       /\ (\A e \in {"pay", "positions", "credit"} : ~Failed(e)') => PaidInFullAt(c)'
  <2> SUFFICES ASSUME ~overlaps', ~Disturbed, Len(rows) = 1,
                      \A e \in {"pay", "positions", "credit"} : ~Failed(e)'
               PROVE  PaidInFullAt(c)'
    OBVIOUS
  <2>1. ~overlaps /\ paid' = paid + amount /\ \A e \in {"pay", "positions", "credit"} : ~Failed(e)
    BY <1>3, <1>7
  <2>2. k.row = 1 /\ k.cash = rows[1].cash /\ paid + rows[1].cash + k.proceeds >= owed
    BY <1>1, <1>3, <1>4, <2>1 DEF PaidInFullAt
  <2>3. paid' >= owed
    BY <1>2, <1>4, <2>1, <2>2
  <2> QED BY <1>3, <1>5, <1>8, <2>2, <2>3 DEF PaidInFullAt
<1>11. /\ shares' \in Nat /\ asked' \in Nat /\ overlaps' \in BOOLEAN
       /\ ~overlaps' => /\ ~overlaps /\ credit = NoCredit
                        /\ \A d \in Tabs : d # c => closing[d] = Open
  BY <1>3, <1>4
<1> QED BY <1>3, <1>6, <1>7, <1>9, <1>10, <1>11, ClosureFrame

(* One row is written. *)
LEMMA RowWritten ==
  ASSUME AccountTypes, NEW r \in DOMAIN rows, NEW a \in Account, rows' = [rows EXCEPT ![r] = a]
  PROVE  /\ rows' \in Seq(Account) /\ Len(rows') = Len(rows) /\ DOMAIN rows' = DOMAIN rows
         /\ rows'[r] = a /\ \A i \in DOMAIN rows : i # r => rows'[i] = rows[i]
         /\ Balance \in Nat /\ Balance' \in Nat /\ a.cash \in Nat /\ rows[r].cash \in Nat
         /\ rows[r].cash <= Balance
         /\ Balance' = Balance + (a.cash - rows[r].cash)
<1>1. rows \in Seq(Account)
  BY DEF AccountTypes
<1>2. /\ rows' \in Seq(Account) /\ Len(rows') = Len(rows) /\ DOMAIN rows' = DOMAIN rows
      /\ rows'[r] = a /\ \A i \in DOMAIN rows : i # r => rows'[i] = rows[i]
  BY <1>1
<1>3. /\ Balance \in Nat /\ Balance' \in Nat /\ rows[r].cash \in Nat /\ rows[r].cash <= Balance
      /\ rows'[r].cash \in Nat
  BY <1>1, <1>2, BalanceIs DEF Balance
<1>4. \A i \in DOMAIN rows \ {r} : rows'[i].cash = rows[i].cash
  BY <1>2
<1>5. Balance' = Balance + (rows'[r].cash - rows[r].cash)
  BY <1>1, <1>2, <1>4, BalanceAt DEF Balance
<1> QED BY <1>2, <1>3, <1>5

LEMMA WriteBalanceKeeps == AccountInv /\ WriteBalance => AccountInv'
<1> SUFFICES ASSUME AccountInv, WriteBalance PROVE AccountInv'
  OBVIOUS
<1>1. PICK r, old, new :
        /\ r = credit.row /\ old = (IF store = "map" THEN rows[credit.row] ELSE credit.copy)
        /\ new = [old EXCEPT !.cash = @ + 1, !.total = @ + 1]
  OBVIOUS
<1>2. /\ UNCHANGED <<store, shares, owed, paid, closing, shut, overlaps, erasure, erased, has, grants,
                     paperVars, asked>>
      /\ credit # NoCredit /\ credit' = NoCredit
      /\ current' = IF store = "map" THEN r ELSE current
      /\ AccountTypes /\ RecordTypes /\ OneAtATime /\ PaidOnce /\ PaidInFull /\ ShutStays /\ BalancesGone
  BY <1>1 DEF WriteBalance, AccountInv, MoneyInv
<1>3. \/ /\ rows' = [rows EXCEPT ![r] = new] /\ Renamed(new.named)
         /\ held' = IF new.status = "closed" THEN 0 ELSE held
         /\ UNCHANGED dropped
      \/ DropSQL("credit") /\ UNCHANGED <<rows, held, late>>
  BY <1>1 DEF WriteBalance
<1>4. /\ r \in DOMAIN rows /\ old \in Account /\ current \in DOMAIN rows /\ DOMAIN rows = 1..Len(rows)
      /\ shut \subseteq DOMAIN rows /\ Len(rows) \in Nat /\ rows \in Seq(Account)
      /\ \A i \in DOMAIN rows : rows[i] \in Account
      /\ shares \in Nat /\ owed \in Nat /\ paid \in Nat /\ held \in Nat /\ Balance \in Nat
      /\ asked \in Nat /\ 1 \in DOMAIN rows /\ rows[1].cash \in Nat
  <2>1. r \in DOMAIN rows /\ credit.copy \in Account /\ shut \subseteq DOMAIN rows /\ rows \in Seq(Account)
    BY <1>1, <1>2 DEF AccountTypes
  <2>2. /\ current \in DOMAIN rows /\ DOMAIN rows = 1..Len(rows) /\ Len(rows) \in Nat
        /\ \A i \in DOMAIN rows : rows[i] \in Account
        /\ shares \in Nat /\ owed \in Nat /\ paid \in Nat /\ held \in Nat /\ Balance \in Nat
        /\ 1 \in DOMAIN rows /\ rows[1].cash \in Nat
    BY <1>2, AccountFacts
  <2> QED BY <1>1, <1>2, <2>1, <2>2 DEF RecordTypes
<1>5. /\ new \in Account /\ old.cash \in Nat /\ new.cash = old.cash + 1 /\ new.status = old.status
      /\ new.named = old.named
      /\ new.named \in BOOLEAN
  <2>1. old.cash \in Nat /\ old.total \in Nat /\ old.named \in BOOLEAN
    BY <1>4 DEF Account
  <2> DEFINE x == old.cash + 1  y == old.total + 1
  <2>2. x \in Nat /\ y \in Nat /\ new = [old EXCEPT !.cash = x, !.total = y]
    <3>1. x \in Nat /\ y \in Nat
      BY <2>1
    <3>2. new = [old EXCEPT !.cash = old.cash + 1, !.total = old.total + 1]
      BY <1>1
    <3> QED BY <3>1, <3>2
  <2> HIDE DEF x, y
  <2>3. [old EXCEPT !.cash = x, !.total = y] \in Account
    BY <1>4, <2>2 DEF Account
  <2>4. new \in Account /\ new.cash = x /\ new.status = old.status /\ new.named = old.named
    BY <1>4, <2>2, <2>3 DEF Account
  <2> QED BY <2>1, <2>4 DEF x
<1>6. /\ Pending = 1 /\ Pending' = 0 /\ (Busy <=> Busy') /\ (~overlaps => ~Busy)
      /\ (Disturbed <=> Disturbed')
  BY <1>2 DEF Pending, Busy, OneAtATime, Disturbed
<1>7. owed > 2
  BY <1>2, <1>4 DEF BalancesGone
<1>8. CASE /\ rows' = [rows EXCEPT ![r] = new] /\ Renamed(new.named)
           /\ held' = (IF new.status = "closed" THEN 0 ELSE held)
           /\ UNCHANGED dropped
  <2>1. /\ rows' \in Seq(Account) /\ Len(rows') = Len(rows) /\ DOMAIN rows' = DOMAIN rows
        /\ rows'[r] = new /\ \A i \in DOMAIN rows : i # r => rows'[i] = rows[i]
        /\ Balance' \in Nat /\ rows[r].cash \in Nat
        /\ Balance' = Balance + (new.cash - rows[r].cash)
    BY <1>2, <1>4, <1>5, <1>8, RowWritten
  <2>2. held' \in Nat /\ held' <= held /\ (held' > 0 => held > 0)
    BY <1>4, <1>8
  <2>3. AccountTypes'
    <3>1. NoCredit.row \in Nat
      BY DEF NoCredit
    <3> QED BY <1>2, <1>4, <2>1, <2>2, <3>1 DEF AccountTypes
  <2>4. OneAtATime'
    BY <1>2 DEF OneAtATime
  <2>5. PaidOnce'
    <3> SUFFICES ASSUME ~overlaps', \A e \in {"positions", "sell", "row", "delete"} : ~Failed(e)'
                 PROVE  paid' + Balance' + Pending' + shares' <= owed' /\ held' <= shares'
      BY <1>2, <1>6 DEF PaidOnce, Busy
    <3>1. ~overlaps /\ ~Busy /\ \A e \in {"positions", "sell", "row", "delete"} : ~Failed(e)
      BY <1>2, <1>6, <1>8 DEF Failed
    <3>2. paid + Balance + 1 + shares <= owed /\ held <= shares
      BY <1>2, <1>6, <3>1 DEF PaidOnce
    <3>3. old.cash = rows[r].cash
      BY <1>1, <1>2, <3>1 DEF OneAtATime, AccountTypes
    <3>4. Balance' = Balance + 1
      BY <1>4, <1>5, <2>1, <3>3
    <3> QED BY <1>2, <1>4, <1>6, <2>2, <3>2, <3>4
  <2>6. PaidInFull'
    <3> SUFFICES ASSUME ~overlaps', ~Disturbed', Len(rows') = 1,
                        \A e \in {"pay", "positions", "credit"} : ~Failed(e)'
                 PROVE  \/ paid' + rows'[1].cash + Pending' >= owed'
                        \/ /\ rows'[1].status = "active" /\ shares' >= 1
                           /\ paid' + rows'[1].cash + Pending' + 1 >= owed'
      BY <1>2, <1>6 DEF PaidInFull, Busy
    <3>1. ~overlaps /\ ~Busy /\ ~Disturbed /\ Len(rows) = 1
          /\ \A e \in {"pay", "positions", "credit"} : ~Failed(e)
      BY <1>2, <1>6, <1>8, <2>1 DEF Failed
    <3>2. /\ credit.row = 1 /\ credit.copy = rows[1]
          /\ \/ paid + rows[1].cash + 1 >= owed
             \/ rows[1].status = "active" /\ shares >= 1 /\ paid + rows[1].cash + 1 + 1 >= owed
      BY <1>2, <1>6, <3>1 DEF PaidInFull
    <3>3. r = 1 /\ old = rows[1] /\ rows'[1].cash = rows[1].cash + 1 /\ rows'[1].status = rows[1].status
      BY <1>1, <1>5, <2>1, <3>2
    <3> QED BY <1>2, <1>4, <1>6, <3>2, <3>3
  <2>7. ShutStays'
    <3> SUFFICES ASSUME ~overlaps', NEW i \in shut PROVE rows'[i].status = "closed"
      BY <1>2 DEF ShutStays
    <3>1. /\ rows[i].status = "closed" /\ i \in DOMAIN rows
          /\ credit.row = i => credit.copy.status = "closed"
      BY <1>2, <1>4 DEF ShutStays
    <3> QED BY <1>1, <1>5, <2>1, <3>1
  <2>8. BalancesGone'
    BY <1>2, <1>4, <1>7 DEF BalancesGone
  <2>9. RecordTypes' /\ RecordInv'
    <3>1. /\ late \subseteq late' /\ late' \subseteq Range(Scrubbed)
          /\ new.named = TRUE => "investment_portfolios" \in late' \/ ~Past("investment_portfolios")
      BY <1>5, <1>8, NamesLate
    <3>2. (\E i \in DOMAIN rows' : rows'[i].named) =>
             \/ \E i \in DOMAIN rows : rows[i].named
             \/ "investment_portfolios" \in late'
             \/ ~Past("investment_portfolios")
      BY <1>5, <2>1, <3>1
    <3>3. dropped \subseteq dropped' /\ asked' \in Nat /\ Len(rows') \in Nat /\ Len(rows') >= Len(rows)
      BY <1>2, <1>4, <1>8, <2>1
    <3> QED BY <1>2, <2>2, <3>1, <3>2, <3>3, RecordsRest
  <2> QED BY <2>3, <2>4, <2>5, <2>6, <2>7, <2>8, <2>9 DEF MoneyInv, AccountInv
<1>9. CASE DropSQL("credit") /\ UNCHANGED <<rows, held, late>>
  <2>1. dropped \subseteq dropped' /\ Failed("credit")' /\ (\A e : ~Failed(e)' => ~Failed(e))
    BY <1>9, Drops DEF Failed
  <2>2. Balance' = Balance
    BY <1>9 DEF Balance
  <2>3. AccountTypes'
    <3>1. NoCredit.row \in Nat
      BY DEF NoCredit
    <3> QED BY <1>2, <1>4, <1>9, <3>1 DEF AccountTypes
  <2>4. OneAtATime'
    BY <1>2 DEF OneAtATime
  <2>5. PaidOnce'
    <3> SUFFICES ASSUME ~overlaps', \A e \in {"positions", "sell", "row", "delete"} : ~Failed(e)'
                 PROVE  paid' + Balance' + Pending' + shares' <= owed' /\ held' <= shares'
      BY <1>2, <1>6 DEF PaidOnce, Busy
    <3>1. ~overlaps /\ ~Busy /\ \A e \in {"positions", "sell", "row", "delete"} : ~Failed(e)
      BY <1>2, <1>6, <2>1
    <3>2. paid + Balance + 1 + shares <= owed /\ held <= shares
      BY <1>2, <1>6, <3>1 DEF PaidOnce
    <3> QED BY <1>2, <1>4, <1>6, <1>9, <2>2, <3>2
  <2>6. PaidInFull'
    BY <2>1 DEF PaidInFull
  <2>7. ShutStays'
    BY <1>2, <1>9 DEF ShutStays
  <2>8. BalancesGone'
    BY <1>2, <1>4, <1>7 DEF BalancesGone
  <2>9. RecordTypes' /\ RecordInv'
    <3>1. late \subseteq late' /\ late' \subseteq Range(Scrubbed)
      BY <1>2, <1>9 DEF RecordTypes
    <3>2. asked' \in Nat /\ Len(rows') \in Nat /\ Len(rows') >= Len(rows) /\ (held' > 0 => held > 0)
          /\ ((\E i \in DOMAIN rows' : rows'[i].named) => \E i \in DOMAIN rows : rows[i].named)
      BY <1>2, <1>4, <1>9
    <3> QED BY <1>2, <2>1, <3>1, <3>2, RecordsRest
  <2> QED BY <2>3, <2>4, <2>5, <2>6, <2>7, <2>8, <2>9 DEF MoneyInv, AccountInv
<1> QED BY <1>3, <1>8, <1>9

LEMMA CloseWritesKeeps ==
  ASSUME AccountInv, NEW c \in Tabs, CloseWrites(c) PROVE AccountInv'
<1>1. PICK k, r, b : k = closing[c] /\ r = k.row /\ b = NameKept(k)
  OBVIOUS
<1>2. /\ UNCHANGED <<store, credit, shares, paid, owed, erasure, erased, has, grants, paperVars,
                     overlaps, asked>>
      /\ k.step = "write" /\ Continues(c, Open)
      /\ current' = IF store = "map" THEN r ELSE current
      /\ AccountTypes /\ RecordTypes /\ OneAtATime /\ ShutStays /\ BalancesGone
  BY <1>1 DEF CloseWrites, AccountInv, MoneyInv
<1>3. \/ /\ rows' = [rows EXCEPT ![r] = [ClosedRow(@) EXCEPT !.named = b]]
         /\ Renamed(b) /\ shut' = shut \cup {r}
         /\ \/ held' = 0 /\ UNCHANGED dropped
            \/ UNCHANGED held /\ DropSQL("delete")
      \/ DropSQL("row") /\ UNCHANGED <<rows, held, shut, late>>
  BY <1>1 DEF CloseWrites
<1>4. /\ k \in Closure /\ k # Open /\ r \in DOMAIN rows /\ b \in BOOLEAN
      /\ rows[r].cash \in Nat /\ rows[1].cash \in Nat /\ 1 \in DOMAIN rows
      /\ shares \in Nat /\ paid \in Nat /\ owed \in Nat /\ Balance \in Nat /\ asked \in Nat
      /\ ~overlaps => /\ credit = NoCredit /\ Pending = 0
                      /\ \A d \in Tabs : d # c => closing[d] = Open
      /\ ~overlaps /\ (\A e \in {"positions", "sell", "row", "delete"} : ~Failed(e)) => PaidOnceAt(c)
      /\ ~overlaps /\ ~Disturbed /\ Len(rows) = 1
         /\ (\A e \in {"pay", "positions", "credit"} : ~Failed(e)) => PaidInFullAt(c)
  <2>1. k.named \in BOOLEAN /\ k \in Closure /\ r \in DOMAIN rows
    BY <1>1, <1>2, ClosureAt DEF Closure
  <2>2. rows[r].named \in BOOLEAN
    BY <1>2, <2>1, AccountFacts
  <2>3. b \in BOOLEAN
    BY <1>1, <2>1, <2>2 DEF NameKept
  <2> QED BY <1>1, <1>2, <2>3, ClosureAt
<1>5. /\ current \in DOMAIN rows /\ DOMAIN rows = 1..Len(rows) /\ Len(rows) \in Nat /\ held \in Nat
      /\ rows \in Seq(Account) /\ shut \subseteq DOMAIN rows /\ rows[r] \in Account
      /\ \A i \in DOMAIN rows : rows[i].named \in BOOLEAN
  BY <1>2, <1>4, AccountFacts DEF AccountTypes
<1>6. /\ closing' \in [Tabs -> Closure] /\ closing'[c] = Open
      /\ \A d \in Tabs : d # c => closing'[d] = closing[d]
  BY <1>2, StepOfOpen, ClosureStep
<1>7. ~overlaps => /\ ~Busy' /\ credit' = NoCredit /\ Pending' = 0
                   /\ \A d \in Tabs : closing'[d] = Open
  BY <1>2, <1>4, <1>6 DEF Busy, Pending
<1>8. Disturbed' <=> Disturbed
  BY <1>2 DEF Disturbed
<1>9. OneAtATime'
  BY <1>2, <1>7 DEF OneAtATime
<1>10. CASE /\ rows' = [rows EXCEPT ![r] = [ClosedRow(@) EXCEPT !.named = b]]
            /\ Renamed(b) /\ shut' = shut \cup {r}
            /\ \/ held' = 0 /\ UNCHANGED dropped
               \/ UNCHANGED held /\ DropSQL("delete")
  <2>1. PICK a \in Account : /\ a = [ClosedRow(rows[r]) EXCEPT !.named = b]
                             /\ a.cash = 0 /\ a.total = 0 /\ a.status = "closed" /\ a.named = b
    <3> DEFINE x == [ClosedRow(rows[r]) EXCEPT !.named = b]
    <3>1. x \in Account /\ x.cash = 0 /\ x.total = 0 /\ x.status = "closed" /\ x.named = b
      BY <1>4, <1>5 DEF Account, ClosedRow
    <3> HIDE DEF x
    <3>2. x = [ClosedRow(rows[r]) EXCEPT !.named = b]
      BY DEF x
    <3> QED BY <3>1, <3>2
  <2>2. rows' = [rows EXCEPT ![r] = a]
    BY <1>10, <2>1
  <2>3. /\ rows' \in Seq(Account) /\ Len(rows') = Len(rows) /\ DOMAIN rows' = DOMAIN rows
        /\ rows'[r] = a /\ \A i \in DOMAIN rows : i # r => rows'[i] = rows[i]
        /\ Balance' \in Nat /\ Balance' = Balance + (0 - rows[r].cash)
    <3>1. /\ rows' \in Seq(Account) /\ Len(rows') = Len(rows) /\ DOMAIN rows' = DOMAIN rows
          /\ rows'[r] = a /\ \A i \in DOMAIN rows : i # r => rows'[i] = rows[i]
          /\ Balance' \in Nat /\ Balance' = Balance + (a.cash - rows[r].cash)
      BY <1>2, <1>4, <2>2, RowWritten
    <3> QED BY <2>1, <3>1
  <2>4. /\ held' \in Nat /\ (held' > 0 => held > 0) /\ dropped \subseteq dropped'
        /\ (~Failed("delete")' => held' = 0 /\ dropped' = dropped)
        /\ \A e : ~Failed(e)' => ~Failed(e)
    BY <1>5, <1>10, Drops DEF Failed
  <2>5. AccountTypes'
    <3>1. \A d \in Tabs : closing'[d] # Open => closing'[d].step # "open" /\ closing'[d].row \in DOMAIN rows'
      BY <1>2, <1>6, <2>3 DEF AccountTypes
    <3>2. shut' \subseteq DOMAIN rows' /\ current' \in DOMAIN rows'
      BY <1>2, <1>4, <1>5, <1>10, <2>3
    <3> QED BY <1>2, <1>6, <2>3, <2>4, <3>1, <3>2 DEF AccountTypes
  <2>6. PaidOnce'
    <3> SUFFICES ASSUME ~overlaps', \A e \in {"positions", "sell", "row", "delete"} : ~Failed(e)'
                 PROVE  paid' + Balance' + Pending' + shares' <= owed' /\ held' <= shares'
      BY <1>2, <1>7 DEF PaidOnce
    <3>1. ~overlaps /\ held' = 0 /\ \A e \in {"positions", "sell", "row", "delete"} : ~Failed(e)
      BY <1>2, <2>4
    <3>2. shares = 0 /\ paid + Balance <= owed + rows[r].cash
      BY <1>1, <1>2, <1>4, <3>1 DEF PaidOnceAt
    <3>3. Pending' = 0
      BY <1>7, <3>1
    <3> QED BY <1>2, <1>4, <2>3, <3>1, <3>2, <3>3
  <2>7. PaidInFull'
    <3> SUFFICES ASSUME ~overlaps', ~Disturbed', Len(rows') = 1,
                        \A e \in {"pay", "positions", "credit"} : ~Failed(e)'
                 PROVE  paid' + rows'[1].cash + Pending' >= owed'
      BY <1>2, <1>7 DEF PaidInFull
    <3>1. ~overlaps /\ ~Disturbed /\ Len(rows) = 1 /\ \A e \in {"pay", "positions", "credit"} : ~Failed(e)
      BY <1>2, <1>8, <2>3, <2>4
    <3>2. r = 1 /\ paid >= owed
      BY <1>1, <1>2, <1>4, <3>1 DEF PaidInFullAt
    <3>3. Pending' = 0 /\ rows'[1].cash = 0
      BY <1>7, <2>1, <2>3, <3>1, <3>2
    <3> QED BY <1>2, <1>4, <3>2, <3>3
  <2>8. ShutStays'
    <3> SUFFICES ASSUME ~overlaps', NEW i \in shut' PROVE rows'[i].status = "closed"
      BY <1>2, <1>7 DEF ShutStays
    <3>1. i # r => rows[i].status = "closed" /\ i \in DOMAIN rows
      BY <1>2, <1>5, <1>10 DEF ShutStays
    <3> QED BY <2>1, <2>3, <3>1
  <2>9. BalancesGone'
    <3> SUFFICES ASSUME owed' = 2, ~Failed("delete")', ~Disturbed', NEW i \in DOMAIN rows',
                        rows'[i].status = "closed"
                 PROVE  rows'[i].cash = 0 /\ rows'[i].total = 0 /\ held' = 0
      BY <1>2 DEF BalancesGone
    <3>1. i # r => rows[i].cash = 0 /\ rows[i].total = 0
      BY <1>2, <1>8, <2>3, <2>4 DEF BalancesGone
    <3> QED BY <2>1, <2>3, <2>4, <3>1
  <2>10. RecordTypes' /\ RecordInv'
    <3>1. /\ late \subseteq late' /\ late' \subseteq Range(Scrubbed)
          /\ b = TRUE => "investment_portfolios" \in late' \/ ~Past("investment_portfolios")
      BY <1>4, <1>10, NamesLate
    <3>2. (\E i \in DOMAIN rows' : rows'[i].named) =>
             \/ \E i \in DOMAIN rows : rows[i].named
             \/ "investment_portfolios" \in late'
             \/ ~Past("investment_portfolios")
      BY <1>4, <2>1, <2>3, <3>1
    <3>3. asked' \in Nat /\ Len(rows') \in Nat /\ Len(rows') >= Len(rows)
      BY <1>2, <1>4, <1>5, <2>3
    <3> QED BY <1>2, <2>4, <3>1, <3>2, <3>3, RecordsRest
  <2> QED BY <1>9, <2>5, <2>6, <2>7, <2>8, <2>9, <2>10 DEF MoneyInv, AccountInv
<1>11. CASE DropSQL("row") /\ UNCHANGED <<rows, held, shut, late>>
  <2>1. dropped \subseteq dropped' /\ Failed("row")' /\ (\A e : ~Failed(e)' => ~Failed(e))
    BY <1>11, Drops DEF Failed
  <2>2. AccountTypes'
    <3>1. \A d \in Tabs : closing'[d] # Open => closing'[d].step # "open" /\ closing'[d].row \in DOMAIN rows
      BY <1>2, <1>6 DEF AccountTypes
    <3>2. current' \in DOMAIN rows
      BY <1>2, <1>4, <1>5
    <3> QED BY <1>2, <1>6, <1>11, <3>1, <3>2 DEF AccountTypes
  <2>3. PaidOnce'
    BY <2>1 DEF PaidOnce
  <2>4. PaidInFull'
    <3> SUFFICES ASSUME ~overlaps', ~Disturbed', Len(rows') = 1,
                        \A e \in {"pay", "positions", "credit"} : ~Failed(e)'
                 PROVE  paid' + rows'[1].cash + Pending' >= owed'
      BY <1>2, <1>7 DEF PaidInFull
    <3>1. ~overlaps /\ ~Disturbed /\ Len(rows) = 1 /\ \A e \in {"pay", "positions", "credit"} : ~Failed(e)
      BY <1>2, <1>8, <1>11, <2>1
    <3>2. paid >= owed
      BY <1>1, <1>2, <1>4, <3>1 DEF PaidInFullAt
    <3>3. Pending' = 0
      BY <1>7, <3>1
    <3> QED BY <1>2, <1>4, <1>11, <3>2, <3>3
  <2>5. ShutStays'
    BY <1>2, <1>11 DEF ShutStays
  <2>6. BalancesGone'
    <3> SUFFICES ASSUME owed' = 2, ~Failed("delete")', ~Disturbed', NEW i \in DOMAIN rows',
                        rows'[i].status = "closed"
                 PROVE  rows'[i].cash = 0 /\ rows'[i].total = 0 /\ held' = 0
      BY <1>2 DEF BalancesGone
    <3> QED BY <1>2, <1>8, <1>11, <2>1 DEF BalancesGone
  <2>7. RecordTypes' /\ RecordInv'
    <3>1. late \subseteq late' /\ late' \subseteq Range(Scrubbed)
      BY <1>2, <1>11 DEF RecordTypes
    <3>2. asked' \in Nat /\ Len(rows') \in Nat /\ Len(rows') >= Len(rows) /\ (held' > 0 => held > 0)
          /\ ((\E i \in DOMAIN rows' : rows'[i].named) => \E i \in DOMAIN rows : rows[i].named)
      BY <1>2, <1>4, <1>5, <1>11
    <3> QED BY <1>2, <2>1, <3>1, <3>2, RecordsRest
  <2> QED BY <1>9, <2>2, <2>3, <2>4, <2>5, <2>6, <2>7 DEF MoneyInv, AccountInv
<1> QED BY <1>3, <1>10, <1>11

LEMMA AccountKeeps == AccountInv /\ [LifecycleNext]_lifecycleVars => AccountInv'
<1> SUFFICES ASSUME AccountInv, [LifecycleNext]_lifecycleVars PROVE AccountInv'
  OBVIOUS
<1>1. CASE UNCHANGED lifecycleVars
  <2>1. /\ UNCHANGED <<store, moneyVars, erasureVars, grants, paperVars, dropped, asked>>
        /\ UNCHANGED <<rows, held, erasure, erased, has, late, statements, handed, documents>>
        /\ RecordTypes /\ ErasureTraced /\ GrantsTraced /\ PapersTraced
    BY <1>1 DEF lifecycleVars, moneyVars, erasureVars, paperVars, AccountInv, RecordInv
  <2>2. AccountTypes' /\ MoneyInv'
    BY <2>1, MoneyRests DEF Disturbed
  <2>3. RecordTypes' /\ GrantsTraced'
    BY <2>1 DEF RecordTypes, GrantsTraced, Failed
  <2>4. \A t : /\ (Past(t) <=> Past(t)') /\ (Cleared(t) <=> Cleared(t)')
               /\ (Holds(t) <=> Holds(t)') /\ (Failed(t) <=> Failed(t)')
    BY <2>1 DEF Past, Cleared, Holds, Failed
  <2>5. ErasureTraced' /\ PapersTraced'
    BY <2>1, <2>4 DEF ErasureTraced, PapersTraced
  <2> QED BY <2>2, <2>3, <2>5 DEF RecordInv, AccountInv
<1>2. CASE RegisterCustomer \/ UpdatePortfolioBalance \/ WriteBalance
  BY <1>2, RegisterCustomerKeeps, UpdatePortfolioBalanceKeeps, WriteBalanceKeeps
<1>3. ASSUME NEW c \in Tabs, CloseAccount(c) \/ ListPositions(c) \/ SellPositions(c)
                             \/ PayOut(c) \/ CloseWrites(c)
      PROVE  AccountInv'
  BY <1>3, CloseAccountKeeps, ListPositionsKeeps, SellPositionsKeeps, PayOutKeeps, CloseWritesKeeps
<1>4. CASE CreateAPIKey \/ \E e \in BOOLEAN : CreateWebhook(e)
  BY <1>4, CreateAPIKeyKeeps, CreateWebhookKeeps
<1>5. ASSUME NEW r \in DOMAIN grants, RevokeAPIKey(r) \/ DeleteWebhook(r) PROVE AccountInv'
  BY <1>5, RevokeAPIKeyKeeps, DeleteWebhookKeeps
<1>6. CASE BeginErasure \/ ScrubTable \/ CertifyErasure \/ EraseMap
  BY <1>6, BeginErasureKeeps, ScrubTableKeeps, CertifyErasureKeeps, EraseMapKeeps
<1>7. ASSUME NEW t \in Plain, AddRecord(t) PROVE AccountInv'
  BY <1>7, AddRecordKeeps
<1>8. ASSUME NEW s \in Statement, \/ \E n \in BOOLEAN : GenerateStatement(s, n)
                                  \/ DownloadStatement(s)
      PROVE  AccountInv'
  BY <1>8, GenerateStatementKeeps, DownloadStatementKeeps
<1> QED BY <1>1, <1>2, <1>3, <1>4, <1>5, <1>6, <1>7, <1>8 DEF LifecycleNext

(* Payouts, balances, erasures, keys, webhooks and statements of a         *)
(* customer differ from what was put in or told for the listed reasons     *)
(* only, however many tabs close the account at once:                      *)
(* CloseAndLiquidateAccount, EraseCustomerData, CreateAPIKey,              *)
(* CreateWebhook and GenerateMonthlyStatement of core-invest, with         *)
(* customer-bll before them.                                               *)
THEOREM AccountsAreExplained == LifecycleSpec => []AccountsExplained
<1>1. LifecycleInit => AccountInv
  BY AccountInitInv
<1>2. AccountInv /\ [LifecycleNext]_lifecycleVars => AccountInv'
  BY AccountKeeps
<1> QED BY <1>1, <1>2, AccountInvSuffices, PTL DEF LifecycleSpec
=============================================================================
