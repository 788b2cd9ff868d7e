--------------------------- MODULE MailBatch_proofs ---------------------------
(***************************************************************************)
(* Theorems about MailBatch: its type, one mail per key, windows and       *)
(* strikes, that a window that closes takes the tail of the queue, and     *)
(* that it keeps the promise its callers rely on.                          *)
(***************************************************************************)
EXTENDS MailBatch, FiniteSetTheorems, TLAPS

(* The items of a sequence under the operations of the batch.              *)
LEMMA ItemsOfConcat ==
  ASSUME NEW q \in Seq(Key), NEW r \in Seq(Key)
  PROVE  /\ q \o r \in Seq(Key)
         /\ Items(q \o r) = Items(q) \cup Items(r)
<1>1. q \o r \in Seq(Key) /\ Len(q \o r) = Len(q) + Len(r)
  OBVIOUS
<1>2. \A i \in 1 .. Len(q) : (q \o r)[i] = q[i]
  OBVIOUS
<1>3. ASSUME NEW i \in 1 .. Len(r)
      PROVE  Len(q) + i \in 1 .. Len(q) + Len(r) /\ (q \o r)[Len(q) + i] = r[i]
  OBVIOUS
<1>4. ASSUME NEW i \in 1 .. Len(q) + Len(r)
      PROVE  (q \o r)[i] \in Items(q) \cup Items(r)
  <2>1. CASE i <= Len(q)
    BY <1>2, <2>1 DEF Items
  <2>2. CASE i > Len(q)
    <3>1. i - Len(q) \in 1 .. Len(r) /\ Len(q) + (i - Len(q)) = i
      BY <2>2
    <3>2. (q \o r)[Len(q) + (i - Len(q))] = r[i - Len(q)]
      BY <1>3, <3>1
    <3> QED BY <3>1, <3>2 DEF Items
  <2> QED BY <2>1, <2>2
<1>5. Items(q \o r) \subseteq Items(q) \cup Items(r)
  BY <1>1, <1>4 DEF Items
<1>6. Items(q) \subseteq Items(q \o r)
  BY <1>1, <1>2 DEF Items
<1>7. ASSUME NEW i \in 1 .. Len(r)
      PROVE  r[i] \in Items(q \o r)
  <2>1. (q \o r)[Len(q) + i] = r[i] /\ Len(q) + i \in DOMAIN (q \o r)
    BY <1>1, <1>3
  <2> QED BY <2>1 DEF Items
<1>8. Items(r) \subseteq Items(q \o r)
  <2> DEFINE whole == Items(q \o r)
  <2>1. \A i \in DOMAIN r : r[i] \in whole
    BY <1>7
  <2> HIDE DEF whole
  <2>2. Items(r) \subseteq whole
    BY <2>1 DEF Items
  <2> QED BY <2>2 DEF whole
<1> QED BY <1>1, <1>5, <1>6, <1>8

LEMMA ItemsOfAppend ==
  ASSUME NEW q \in Seq(Key), NEW k \in Key
  PROVE  /\ Append(q, k) \in Seq(Key)
         /\ Items(Append(q, k)) = Items(q) \cup {k}
<1>1. Append(q, k) \in Seq(Key) /\ Len(Append(q, k)) = Len(q) + 1
  OBVIOUS
<1>2. \A i \in 1 .. Len(q) : Append(q, k)[i] = q[i]
  OBVIOUS
<1>3. Append(q, k)[Len(q) + 1] = k
  OBVIOUS
<1> QED BY <1>1, <1>2, <1>3 DEF Items

(* A queue names no item twice.                                            *)
Distinct(q) == \A i, j \in DOMAIN q : q[i] = q[j] => i = j

LEMMA HeadAndTail ==
  ASSUME NEW q \in Seq(Key), Len(q) > 0, Distinct(q)
  PROVE  /\ Head(q) \in Key /\ Head(q) \in Items(q)
         /\ Tail(q) \in Seq(Key) /\ Len(Tail(q)) = Len(q) - 1
         /\ Items(Tail(q)) = Items(q) \ {Head(q)}
         /\ Distinct(Tail(q))
<1>1. /\ Tail(q) \in Seq(Key) /\ Len(Tail(q)) = Len(q) - 1
      /\ \A i \in 1 .. Len(q) - 1 : Tail(q)[i] = q[i + 1]
      /\ Head(q) = q[1] /\ q[1] \in Key
  OBVIOUS
<1>2. Head(q) \in Items(q)
  BY <1>1 DEF Items
<1>3. Distinct(Tail(q))
  BY <1>1 DEF Distinct
<1>4. Items(Tail(q)) \subseteq Items(q) \ {Head(q)}
  BY <1>1 DEF Items, Distinct
<1>5. Items(q) \ {Head(q)} \subseteq Items(Tail(q))
  <2> SUFFICES ASSUME NEW i \in 1 .. Len(q), q[i] # q[1]
               PROVE  q[i] \in Items(Tail(q))
    BY <1>1 DEF Items
  <2>1. i # 1
    OBVIOUS
  <2>2. i - 1 \in 1 .. Len(q) - 1 /\ (i - 1) + 1 = i
    BY <2>1
  <2>3. Tail(q)[i - 1] = q[(i - 1) + 1]
    BY <1>1, <2>2
  <2>4. i - 1 \in DOMAIN Tail(q) /\ Tail(q)[i - 1] = q[i]
    BY <1>1, <2>2, <2>3
  <2> QED BY <2>4 DEF Items
<1> QED BY <1>1, <1>2, <1>3, <1>4, <1>5

LEMMA DistinctConcat ==
  ASSUME NEW q \in Seq(Key), NEW r \in Seq(Key), Distinct(q), Distinct(r),
         Items(q) \cap Items(r) = {}
  PROVE  Distinct(q \o r)
<1>1. /\ Len(q \o r) = Len(q) + Len(r)
      /\ \A i \in 1 .. Len(q) : (q \o r)[i] = q[i]
      /\ q \o r \in Seq(Key)
  OBVIOUS
<1>2. ASSUME NEW i \in DOMAIN (q \o r), i > Len(q)
      PROVE  i - Len(q) \in 1 .. Len(r) /\ (q \o r)[i] = r[i - Len(q)]
  BY <1>1, <1>2
<1> SUFFICES ASSUME NEW i \in DOMAIN (q \o r), NEW j \in DOMAIN (q \o r),
                    (q \o r)[i] = (q \o r)[j]
             PROVE  i = j
  BY DEF Distinct
<1>3. CASE i <= Len(q) /\ j <= Len(q)
  BY <1>1, <1>3 DEF Distinct
<1>4. CASE i > Len(q) /\ j > Len(q)
  BY <1>1, <1>2, <1>4 DEF Distinct
<1>5. CASE i <= Len(q) /\ j > Len(q)
  <2>1. (q \o r)[i] \in Items(q)
    BY <1>1, <1>5 DEF Items
  <2>2. (q \o r)[j] \in Items(r)
    BY <1>1, <1>2, <1>5 DEF Items
  <2> QED BY <2>1, <2>2
<1>6. CASE i > Len(q) /\ j <= Len(q)
  <2>1. (q \o r)[i] \in Items(r)
    BY <1>1, <1>2, <1>6 DEF Items
  <2>2. (q \o r)[j] \in Items(q)
    BY <1>1, <1>6 DEF Items
  <2> QED BY <2>1, <2>2
<1>7. Len(q) \in Nat /\ i \in Nat /\ j \in Nat
  BY <1>1
<1> QED BY <1>3, <1>4, <1>5, <1>6, <1>7

LEMMA DistinctAppend ==
  ASSUME NEW q \in Seq(Key), NEW k \in Key, Distinct(q), k \notin Items(q)
  PROVE  Distinct(Append(q, k))
<1>1. Append(q, k) \in Seq(Key) /\ Len(Append(q, k)) = Len(q) + 1
  OBVIOUS
<1>2. \A i \in 1 .. Len(q) : Append(q, k)[i] = q[i]
  OBVIOUS
<1>3. Append(q, k)[Len(q) + 1] = k
  OBVIOUS
<1>4. \A i \in 1 .. Len(q) : q[i] # k
  BY DEF Items
<1> QED BY <1>1, <1>2, <1>3, <1>4 DEF Distinct

LEMMA PartsOfKey == \A S \in SUBSET Key : IsFiniteSet(S) /\ Cardinality(S) \in Nat
  BY KeyAssumption, FS_Subset, FS_CardinalityType

-----------------------------------------------------------------------------
(* Where a batch has what, which the type alone does not say: outside a    *)
(* call nothing is judged, and a call fits into the room.                  *)
Places ==
  /\ call > 0 \/ accepted # {} => pc = "calling"
  /\ pc = "calling" => at \in Provider
  /\ pc = "calling" => call + Cardinality(accepted) <= room
  /\ pc \in {"deferring", "idle"} => refused = <<>>
  /\ pc = "idle" => queue = <<>>

(* Every item in flight is in one place, and claimed by this batch.        *)
OnePlace ==
  /\ Distinct(queue) /\ Distinct(refused)
  /\ Items(queue) \cap Items(refused) = {}
  /\ accepted \cap (Items(queue) \cup Items(refused)) = {}
  /\ \A k \in InFlight : claim[k] = "pending"

(* What was mailed is recorded, about to be, or doubtful.                  *)
Balance ==
  \A k \in Key :
    mails[k] = doubts[k] + IF claim[k] = "sent" \/ k \in accepted THEN 1 ELSE 0

(* The inductive invariant.                                                *)
Sound == TypeOK /\ Places /\ OnePlace /\ Balance

LEMMA SoundInit == Init => Sound
<1> SUFFICES ASSUME Init PROVE Sound
  OBVIOUS
<1>1. TypeOK
  BY KeyAssumption, ChainAssumption, LimitAssumption DEF Init, TypeOK
<1>2. Places
  BY FS_EmptySet DEF Init, Places
<1>3. OnePlace /\ Balance
  BY DEF Init, OnePlace, Balance, Distinct, Items, InFlight
<1> QED BY <1>1, <1>2, <1>3 DEF Sound

(* Steps that leave the batch's own state alone.                           *)
LEMMA Untouched ==
  ASSUME Sound, UNCHANGED <<pc, chain, call, accepted>>
  PROVE  /\ Places'
         /\ (\A k \in InFlight : claim'[k] = "pending") => OnePlace'
         /\ InFlight' = InFlight
  BY DEF Sound, Places, OnePlace, InFlight, Items, Distinct, chain

LEMMA SoundWorld == Sound /\ World => Sound'
<1> SUFFICES ASSUME Sound, World PROVE Sound'
  OBVIOUS
<1> USE KeyAssumption, ChainAssumption, LimitAssumption DEF Sound
<1> USE DEF table, chain, current, batch, ghosts
<1>1. ASSUME NEW p \in Provider, OtherMail(p) PROVE Sound'
  <2>1. TypeOK'
    <3>1. used' \in [Provider -> Nat] /\ others' \in Nat
      BY <1>1 DEF OtherMail, TypeOK
    <3> QED BY <1>1, <3>1 DEF OtherMail, TypeOK
  <2>2. Places' /\ OnePlace'
    BY <1>1, Untouched DEF OtherMail, OnePlace
  <2>3. Balance'
    BY <1>1 DEF OtherMail, Balance
  <2> QED BY <2>1, <2>2, <2>3
<1>2. ASSUME NEW p \in Provider, WindowFrees(p) PROVE Sound'
  <2>1. TypeOK'
    <3>1. used' \in [Provider -> Nat]
      BY <1>2 DEF WindowFrees, TypeOK
    <3> QED BY <1>2, <3>1 DEF WindowFrees, TypeOK
  <2>2. Places' /\ OnePlace'
    BY <1>2, Untouched DEF WindowFrees, OnePlace
  <2>3. Balance'
    BY <1>2 DEF WindowFrees, Balance
  <2> QED BY <2>1, <2>2, <2>3
<1>3. ASSUME NEW a \in Address, Suppress(a) PROVE Sound'
  <2>1. TypeOK'
    BY <1>3 DEF Suppress, TypeOK
  <2>2. Places' /\ OnePlace'
    BY <1>3, Untouched DEF Suppress, OnePlace
  <2>3. Balance'
    BY <1>3 DEF Suppress, Balance
  <2> QED BY <2>1, <2>2, <2>3
<1>4. ASSUME NEW a \in Address, Rearm(a) PROVE Sound'
  <2>1. TypeOK'
    BY <1>4 DEF Rearm, TypeOK
  <2>2. Places' /\ OnePlace'
    BY <1>4, Untouched DEF Rearm, OnePlace
  <2>3. Balance'
    BY <1>4 DEF Rearm, Balance
  <2> QED BY <2>1, <2>2, <2>3
<1>5. ASSUME NEW k \in Key, GoesStale(k) PROVE Sound'
  <2>1. TypeOK'
    BY <1>5 DEF GoesStale, TypeOK
  <2>2. claim \in [Key -> {"none", "pending", "stale", "sent"}]
    BY DEF TypeOK
  <2>3. Places' /\ OnePlace'
    BY <1>5, <2>2, Untouched DEF GoesStale, OnePlace
  <2>4. Balance'
    BY <1>5, <2>2 DEF GoesStale, Balance
  <2> QED BY <2>1, <2>3, <2>4
<1>6. ASSUME NEW k \in Key, Prune(k) PROVE Sound'
  <2>1. TypeOK'
    BY <1>6 DEF Prune, TypeOK
  <2>2. claim \in [Key -> {"none", "pending", "stale", "sent"}] /\ mails \in [Key -> Nat]
        /\ doubts \in [Key -> Nat]
    BY DEF TypeOK
  <2>3. InFlight = {}
    BY <1>6 DEF Prune, Places, InFlight, Items, TypeOK
  <2>4. Places' /\ OnePlace'
    BY <1>6, <2>3, Untouched DEF Prune
  <2>5. Balance'
    BY <1>6, <2>2, <2>3 DEF Prune, Balance, InFlight
  <2> QED BY <2>1, <2>4, <2>5
<1> QED BY <1>1, <1>2, <1>3, <1>4, <1>5, <1>6 DEF World

LEMMA SoundOpen == ASSUME Sound, NEW q \in Lists, Open(q) PROVE Sound'
<1> USE DEF Sound, table, current, ghosts
<1>1. q \in Seq(Key) /\ Distinct(q)
  BY DEF Lists, Open, Distinct
<1>2. claim \in [Key -> {"none", "pending", "stale", "sent"}]
      /\ claim' \in [Key -> {"none", "pending", "stale", "sent"}]
  BY DEF TypeOK, Open
<1>3. TypeOK'
  BY <1>1, <1>2 DEF Open, TypeOK, Places
<1>4. Places'
  BY DEF Open, Places
<1>5. accepted = {} /\ accepted' = {} /\ refused = <<>> /\ refused' = <<>>
  BY DEF Open, Places
<1>6. OnePlace'
  BY <1>1, <1>2, <1>5 DEF Open, OnePlace, InFlight, Items, Distinct
<1>7. Items(q) \subseteq Claimable
  BY DEF Open, Items
<1>8. Balance'
  BY <1>2, <1>5, <1>7 DEF Open, Balance, Claimable
<1> QED BY <1>3, <1>4, <1>6, <1>8

(* What the batch has in hand moves from place to place, with its claim.   *)
LEMMA SoundNextProvider == Sound /\ NextProvider => Sound'
<1> SUFFICES ASSUME Sound, NextProvider PROVE Sound'
  OBVIOUS
<1> USE DEF Sound, table, ghosts, batch
<1>1. queue \in Seq(Key) /\ refused \in Seq(Key) /\ at \in 0 .. Providers
  BY DEF TypeOK
<1>2. /\ HandedOn \in Seq(Key) /\ Distinct(HandedOn)
      /\ Items(HandedOn) = Items(queue) \cup Items(refused)
  BY <1>1, ItemsOfConcat, DistinctConcat DEF HandedOn, OnePlace
<1>3. at' \in Provider /\ room' \in Nat
  <2>1. at + 1 \in Provider
    BY <1>1, ChainAssumption DEF NextProvider, Provider
  <2>2. Quota[at + 1] \in Nat /\ used[at + 1] \in Nat
    BY <2>1, ChainAssumption DEF TypeOK
  <2> QED BY <2>1, <2>2 DEF NextProvider, _headroom, Less
<1>4. call = 0 /\ call' = 0 /\ accepted = {} /\ accepted' = {}
  BY DEF NextProvider, Places, TypeOK
<1>5. TypeOK'
  <2>1. at' \in 0 .. Providers
    BY <1>3, ChainAssumption DEF Provider
  <2>2. queue' \in Seq(Key) /\ refused' \in Seq(Key)
    BY <1>2 DEF NextProvider
  <2>3. call' \in 0 .. Len(queue')
    BY <1>4, <2>2
  <2> QED BY <1>3, <2>1, <2>2, <2>3 DEF NextProvider, TypeOK
<1>6. Places'
  BY <1>3, <1>4, FS_EmptySet DEF NextProvider, Places
<1>7. Items(queue') = Items(queue) \cup Items(refused) /\ Items(refused') = {}
  <2>1. Items(queue') = Items(queue) \cup Items(refused)
    BY <1>2 DEF NextProvider
  <2>2. Items(refused') = {}
    BY DEF NextProvider, Items
  <2> QED BY <2>1, <2>2
<1>8. OnePlace'
  BY <1>2, <1>4, <1>7 DEF NextProvider, OnePlace, InFlight, Distinct
<1>9. Balance'
  BY <1>4 DEF NextProvider, Balance
<1> QED BY <1>5, <1>6, <1>8, <1>9

LEMMA SoundCall == Sound /\ Call => Sound'
<1> SUFFICES ASSUME Sound, Call PROVE Sound'
  OBVIOUS
<1> USE DEF Sound, table, chain, batch, ghosts
<1>1. at \in Provider /\ BatchSize[at] \in Nat /\ room \in Nat /\ Len(queue) \in Nat
  BY ChainAssumption DEF Call, Places, TypeOK
<1>2. Chunk \in 0 .. Len(queue) /\ Chunk <= room /\ Chunk \in Nat
  BY <1>1 DEF Chunk, Smaller
<1>3. TypeOK'
  BY <1>2 DEF Call, TypeOK
<1>4. Places'
  BY <1>1, <1>2, FS_EmptySet DEF Call, Places
<1>5. OnePlace' /\ Balance'
  BY DEF Call, OnePlace, Balance, InFlight, Items, Distinct
<1> QED BY <1>3, <1>4, <1>5

(* A verdict: the head of the queue is accepted, or refused.               *)
LEMMA Judged ==
  ASSUME Sound, call > 0
  PROVE  /\ queue \in Seq(Key) /\ Len(queue) > 0 /\ Distinct(queue)
         /\ Head(queue) \in Key /\ Head(queue) \in Items(queue)
         /\ Tail(queue) \in Seq(Key) /\ Len(Tail(queue)) = Len(queue) - 1
         /\ Items(Tail(queue)) = Items(queue) \ {Head(queue)}
         /\ Distinct(Tail(queue))
         /\ Head(queue) \notin accepted /\ Head(queue) \notin Items(refused)
         /\ claim[Head(queue)] = "pending"
         /\ pc = "calling" /\ at \in Provider
         /\ call - 1 \in 0 .. Len(queue) - 1 /\ call \in Nat
<1>1. queue \in Seq(Key) /\ Len(queue) > 0 /\ Distinct(queue) /\ call \in Nat
      /\ call <= Len(queue)
  BY DEF Sound, TypeOK, OnePlace
<1>2. pc = "calling" /\ at \in Provider
  BY DEF Sound, Places
<1> QED BY <1>1, <1>2, HeadAndTail DEF Sound, OnePlace, InFlight

LEMMA SoundAccept == Sound /\ Accept => Sound'
<1> SUFFICES ASSUME Sound, Accept PROVE Sound'
  OBVIOUS
<1> USE DEF Sound, table, batch
<1>1. call > 0
  BY DEF Accept
<1> DEFINE h == Head(queue)
<1>2. accepted \subseteq Key /\ mails \in [Key -> Nat] /\ doubts \in [Key -> Nat]
      /\ claim \in [Key -> {"none", "pending", "stale", "sent"}] /\ room \in Nat
  BY DEF TypeOK
<1>3. mails' = [mails EXCEPT ![h] = @ + 1] /\ mails' \in [Key -> Nat]
  <2>1. mails' = [mails EXCEPT ![h] = @ + 1]
    BY DEF Accept
  <2>2. h \in Key
    BY <1>1, Judged
  <2> QED BY <1>2, <2>1, <2>2
<1>4. TypeOK'
  BY <1>1, <1>3, Judged DEF Accept, TypeOK
<1>5. Cardinality(accepted') = Cardinality(accepted) + 1 /\ Cardinality(accepted) \in Nat
  BY <1>1, <1>2, Judged, PartsOfKey, FS_AddElement DEF Accept
<1>6. Places'
  BY <1>1, <1>2, <1>5, Judged DEF Accept, Places
<1>7. /\ Items(queue') = Items(queue) \ {h} /\ Distinct(queue') /\ h \in Items(queue)
      /\ accepted' = accepted \cup {h} /\ refused' = refused /\ claim' = claim
  BY <1>1, Judged DEF Accept
<1>8. OnePlace'
  <2>1. Distinct(refused') /\ Items(refused') = Items(refused)
    BY <1>7 DEF OnePlace, Distinct, Items
  <2>2. InFlight' = InFlight
    BY <1>7, <2>1 DEF InFlight
  <2>3. accepted' \cap (Items(queue') \cup Items(refused')) = {}
    BY <1>1, <1>7, <2>1, Judged DEF OnePlace
  <2> QED BY <1>7, <2>1, <2>2, <2>3 DEF OnePlace, Distinct
<1>9. Balance'
  <2> SUFFICES ASSUME NEW k \in Key
               PROVE  mails'[k] = doubts'[k]
                        + IF claim'[k] = "sent" \/ k \in accepted' THEN 1 ELSE 0
    BY DEF Balance
  <2>1. mails[k] = doubts[k] + IF claim[k] = "sent" \/ k \in accepted THEN 1 ELSE 0
    BY DEF Balance
  <2>2. claim[h] = "pending" /\ h \notin accepted /\ doubts' = doubts
    BY <1>1, Judged DEF Accept
  <2>3. CASE k = h
    BY <1>2, <1>3, <1>7, <2>1, <2>2, <2>3
  <2>4. CASE k # h
    BY <1>2, <1>3, <1>7, <2>1, <2>2, <2>4
  <2> QED BY <2>3, <2>4
<1> QED BY <1>4, <1>6, <1>8, <1>9

LEMMA SoundRefuse == Sound /\ Refuse => Sound'
<1> SUFFICES ASSUME Sound, Refuse PROVE Sound'
  OBVIOUS
<1> USE DEF Sound, table, ghosts
<1>1. call > 0
  BY DEF Refuse
<1> DEFINE h == Head(queue)
<1>2. refused \in Seq(Key) /\ accepted \subseteq Key /\ room \in Nat
  BY DEF TypeOK
<1>3. /\ refused' \in Seq(Key) /\ Items(refused') = Items(refused) \cup {h}
      /\ Distinct(refused')
  BY <1>1, <1>2, Judged, ItemsOfAppend, DistinctAppend DEF Refuse, OnePlace
<1>4. turnedDown' \subseteq Key \X Provider
  <2>1. turnedDown' = turnedDown \cup {<<h, at>>} /\ turnedDown \subseteq Key \X Provider
    BY DEF Refuse, TypeOK
  <2>2. h \in Key /\ at \in Provider
    BY <1>1, Judged
  <2> QED BY <2>1, <2>2
<1>5. TypeOK'
  BY <1>1, <1>3, <1>4, Judged DEF Refuse, TypeOK
<1>6. Places'
  <2>1. pc' = "calling" /\ at' \in Provider
    BY <1>1, Judged DEF Refuse
  <2>2. call' = call - 1 /\ accepted' = accepted /\ room' = room
    BY DEF Refuse
  <2>3. call + Cardinality(accepted) <= room
    BY <1>1, Judged DEF Places
  <2>4. call \in Nat /\ Cardinality(accepted) \in Nat
    BY <1>1, <1>2, PartsOfKey, Judged
  <2>5. call' + Cardinality(accepted') <= room'
    BY <1>2, <2>2, <2>3, <2>4
  <2> QED BY <2>1, <2>5 DEF Places
<1>7. /\ Items(queue') = Items(queue) \ {h} /\ Distinct(queue') /\ h \in Items(queue)
      /\ accepted' = accepted /\ claim' = claim /\ h \notin accepted
  BY <1>1, Judged DEF Refuse
<1>8. OnePlace'
  <2>1. InFlight' = InFlight
    BY <1>3, <1>7 DEF InFlight
  <2>2. Items(queue') \cap Items(refused') = {}
    BY <1>3, <1>7 DEF OnePlace
  <2> QED BY <1>3, <1>7, <2>1, <2>2 DEF OnePlace, Distinct
<1>9. Balance'
  BY <1>7 DEF Refuse, Balance
<1> QED BY <1>5, <1>6, <1>8, <1>9

(* The transaction after a call.                                           *)
LEMMA Recorded ==
  ASSUME Sound, Record, at \in Provider
  PROVE  /\ claim' \in [Key -> {"none", "pending", "stale", "sent"}]
         /\ \A k \in Key : claim'[k] = IF k \in accepted THEN "sent" ELSE claim[k]
         /\ used' \in [Provider -> Nat]
         /\ failures' \in [Address -> 0 .. MaxFailures]
         /\ delivered' \subseteq Key /\ served' \in Nat
         /\ accepted' = {} /\ call' = 0 /\ Cardinality(accepted) \in Nat
         /\ suppressed' \subseteq Address /\ pc' = pc /\ at' = at
         /\ refused' = refused /\ list' \in Seq(Key)
         /\ turnedDown' \subseteq Key \X Provider /\ excused' \subseteq Provider
         /\ others' \in Nat
<1> USE DEF Sound
<1>1. accepted \subseteq Key /\ Cardinality(accepted) \in Nat
  BY PartsOfKey DEF TypeOK
<1>2. claim \in [Key -> {"none", "pending", "stale", "sent"}]
      /\ used \in [Provider -> Nat] /\ failures \in [Address -> 0 .. MaxFailures]
      /\ served \in Nat /\ delivered \subseteq Key
  BY DEF TypeOK
<1>3. /\ claim' \in [Key -> {"none", "pending", "stale", "sent"}]
      /\ \A k \in Key : claim'[k] = IF k \in accepted THEN "sent" ELSE claim[k]
  BY <1>2 DEF Record
<1>4. used' \in [Provider -> Nat]
  BY <1>1, <1>2 DEF Record
<1>5. failures' \in [Address -> 0 .. MaxFailures]
  BY <1>2, LimitAssumption DEF Record
<1>6. /\ suppressed' \subseteq Address /\ pc' = pc /\ at' = at
      /\ refused' = refused /\ list' \in Seq(Key)
      /\ turnedDown' \subseteq Key \X Provider /\ excused' \subseteq Provider
      /\ others' \in Nat
  BY DEF Record, TypeOK
<1>7. delivered' \subseteq Key /\ served' \in Nat /\ accepted' = {} /\ call' = 0
  BY <1>1, <1>2 DEF Record
<1> QED BY <1>1, <1>3, <1>4, <1>5, <1>6, <1>7

LEMMA SoundAnswered == Sound /\ Answered => Sound'
<1> SUFFICES ASSUME Sound, Answered PROVE Sound'
  OBVIOUS
<1> USE DEF Sound
<1>1. Record /\ at \in Provider /\ pc = "calling"
  BY DEF Answered, Places
<1>2. room' \in Nat
  <2>1. room \in Nat /\ call + Cardinality(accepted) <= room /\ call = 0
    BY <1>1 DEF Places, TypeOK, Answered
  <2>2. room' = room - Cardinality(accepted)
    BY DEF Answered
  <2> QED BY <1>1, <2>1, <2>2, Recorded
<1>3. TypeOK'
  <2>1. /\ queue' \in Seq(Key) /\ mails' \in [Key -> Nat] /\ doubts' \in [Key -> Nat]
        /\ faults' \in Nat
    BY DEF Answered, TypeOK
  <2>2. call' \in 0 .. Len(queue')
    BY <1>1, <2>1, Recorded
  <2>3. /\ pc' \in {"idle", "choosing", "calling", "striking", "deferring"}
        /\ at' \in 0 .. Providers /\ refused' \in Seq(Key)
    BY <1>1, Recorded DEF TypeOK
  <2> QED BY <1>1, <1>2, <2>1, <2>2, <2>3, Recorded DEF TypeOK
<1>4. Places'
  BY <1>1, <1>2, Recorded, FS_EmptySet DEF Answered, Record, Places
<1>5. /\ queue' = queue /\ refused' = refused /\ accepted' = {}
      /\ mails' = mails /\ doubts' = doubts
  BY DEF Answered, Record
<1>6. OnePlace'
  <2>1. \A k \in Items(queue) \cup Items(refused) :
          k \in Key /\ k \notin accepted /\ claim[k] = "pending"
    <3>1. Items(queue) \cup Items(refused) \subseteq Key
      BY DEF Items, TypeOK
    <3> QED BY <3>1 DEF OnePlace, InFlight
  <2>2. InFlight' = Items(queue) \cup Items(refused)
    BY <1>5 DEF InFlight, Items
  <2>3. /\ Items(queue') = Items(queue) /\ Items(refused') = Items(refused)
        /\ Distinct(queue') /\ Distinct(refused')
    BY <1>5 DEF OnePlace, Items, Distinct
  <2>4. \A k \in InFlight' : claim'[k] = "pending"
    BY <1>1, <2>1, <2>2, Recorded
  <2>5. accepted' = {}
    BY <1>1, Recorded
  <2> QED BY <2>3, <2>4, <2>5 DEF OnePlace
<1>7. Balance'
  BY <1>1, <1>5, Recorded DEF Balance
<1> QED BY <1>3, <1>4, <1>6, <1>7

(* Mails and doubts that grow together keep the balance.                   *)
LEMMA DoubtsGrow ==
  ASSUME Sound, NEW S, NEW T, Doubt(S), Taken(T)
  PROVE  /\ mails' \in [Key -> Nat] /\ doubts' \in [Key -> Nat]
         /\ \A k \in Key : mails'[k] = mails[k] + IF k \in T THEN 1 ELSE 0
         /\ \A k \in Key : doubts'[k] = doubts[k] + IF k \in S THEN 1 ELSE 0
  BY DEF Sound, TypeOK, Doubt, Taken

LEMMA UnjudgedInQueue == Sound => Unjudged \subseteq Items(queue)
<1> SUFFICES ASSUME Sound PROVE Unjudged \subseteq Items(queue)
  OBVIOUS
<1>1. queue \in Seq(Key) /\ call \in 0 .. Len(queue)
  BY DEF Sound, TypeOK
<1> QED BY <1>1 DEF Unjudged, Items

LEMMA SoundProviderFails == Sound /\ ProviderFails => Sound'
<1> SUFFICES ASSUME Sound, ProviderFails PROVE Sound'
  OBVIOUS
<1> USE DEF Sound
<1>1. Record /\ at \in Provider /\ pc = "calling" /\ room' = 0 /\ queue' = queue
      /\ refused' = refused
  BY Judged DEF ProviderFails, Record
<1>2. mails \in [Key -> Nat] /\ doubts \in [Key -> Nat]
  BY DEF TypeOK
<1>3. PICK S \in SUBSET Items(queue) :
        /\ mails' \in [Key -> Nat] /\ doubts' \in [Key -> Nat]
        /\ \A k \in Key : mails'[k] = mails[k] + IF k \in S THEN 1 ELSE 0
        /\ \A k \in Key : doubts'[k] = doubts[k] + IF k \in S THEN 1 ELSE 0
  <2>1. CASE UNCHANGED <<mails, doubts, faults>>
    <3>1. {} \in SUBSET Items(queue) /\ \A k \in Key : k \notin {}
      OBVIOUS
    <3>2. /\ mails' \in [Key -> Nat] /\ doubts' \in [Key -> Nat]
          /\ \A k \in Key : mails'[k] = mails[k] + 0
          /\ \A k \in Key : doubts'[k] = doubts[k] + 0
      BY <1>2, <2>1
    <3> QED BY <3>1, <3>2
  <2>2. CASE \E S \in SUBSET Unjudged : Fault /\ Doubt(S) /\ Taken(S)
    BY <2>2, UnjudgedInQueue, DoubtsGrow
  <2> QED BY <2>1, <2>2 DEF ProviderFails
<1>4. faults' \in Nat
  BY DEF ProviderFails, Fault, TypeOK
<1>5. TypeOK'
  <2>1. queue' \in Seq(Key) /\ room' \in Nat
    BY <1>1 DEF TypeOK
  <2>2. call' \in 0 .. Len(queue')
    BY <1>1, <2>1, Recorded
  <2>3. /\ pc' \in {"idle", "choosing", "calling", "striking", "deferring"}
        /\ at' \in 0 .. Providers /\ refused' \in Seq(Key)
    BY <1>1, Recorded DEF TypeOK
  <2> QED BY <1>1, <1>3, <1>4, <2>1, <2>2, <2>3, Recorded DEF TypeOK
<1>6. Places'
  BY <1>1, Recorded, FS_EmptySet DEF Record, Places
<1>7. OnePlace'
  <2>1. \A k \in Items(queue) \cup Items(refused) :
          k \in Key /\ k \notin accepted /\ claim[k] = "pending"
    <3>1. Items(queue) \cup Items(refused) \subseteq Key
      BY DEF Items, TypeOK
    <3> QED BY <3>1 DEF OnePlace, InFlight
  <2>2. InFlight' = Items(queue) \cup Items(refused) /\ accepted' = {}
    BY <1>1, Recorded DEF InFlight, Items
  <2>3. /\ Items(queue') = Items(queue) /\ Items(refused') = Items(refused)
        /\ Distinct(queue') /\ Distinct(refused')
    BY <1>1 DEF OnePlace, Items, Distinct
  <2>4. \A k \in InFlight' : claim'[k] = "pending"
    BY <1>1, <2>1, <2>2, Recorded
  <2>5. accepted' = {}
    BY <1>1, Recorded
  <2> QED BY <2>3, <2>4, <2>5 DEF OnePlace
<1>8. Balance'
  <2> SUFFICES ASSUME NEW k \in Key
               PROVE  mails'[k] = doubts'[k]
                        + IF claim'[k] = "sent" \/ k \in accepted' THEN 1 ELSE 0
    BY DEF Balance
  <2>1. mails[k] = doubts[k] + IF claim[k] = "sent" \/ k \in accepted THEN 1 ELSE 0
    BY DEF Balance
  <2>2. claim'[k] = (IF k \in accepted THEN "sent" ELSE claim[k]) /\ accepted' = {}
    BY <1>1, Recorded
  <2>3. mails[k] \in Nat /\ doubts[k] \in Nat
    BY <1>2
  <2> QED BY <1>3, <2>1, <2>2, <2>3
<1> QED BY <1>5, <1>6, <1>7, <1>8

LEMMA SoundLeave == Sound /\ Leave => Sound'
<1> SUFFICES ASSUME Sound, Leave PROVE Sound'
  OBVIOUS
<1> USE DEF Sound, table, current, ghosts
<1>1. queue \in Seq(Key) /\ refused \in Seq(Key)
  BY DEF TypeOK
<1>2. /\ queue' \in Seq(Key) /\ refused' \in Seq(Key)
      /\ Distinct(queue') /\ Distinct(refused')
      /\ Items(queue') \cap Items(refused') = {}
      /\ Items(queue') \cup Items(refused') = Items(queue) \cup Items(refused)
  <2>1. CASE Systemic
    <3>1. queue' = HandedOn /\ refused' = <<>>
      BY <2>1 DEF Leave
    <3>2. <<>> \in Seq(Key) /\ Distinct(<<>>) /\ Items(<<>>) = {}
      BY DEF Distinct, Items
    <3>3. /\ HandedOn \in Seq(Key) /\ Distinct(HandedOn)
          /\ Items(HandedOn) = Items(queue) \cup Items(refused)
      BY <1>1, ItemsOfConcat, DistinctConcat DEF HandedOn, OnePlace
    <3> QED BY <3>1, <3>2, <3>3
  <2>2. CASE ~Systemic
    <3>1. queue' = queue /\ refused' = refused
      BY <2>2 DEF Leave
    <3> QED BY <1>1, <3>1 DEF OnePlace
  <2> QED BY <2>1, <2>2
<1>3. TypeOK'
  <2>1. call' \in 0 .. Len(queue')
    BY <1>2 DEF Leave
  <2>2. excused' \subseteq Provider
    BY DEF Leave, Places, TypeOK
  <2> QED BY <1>2, <2>1, <2>2 DEF Leave, TypeOK
<1>4. Places'
  BY DEF Leave, Places
<1>5. accepted = {} /\ accepted' = {} /\ claim' = claim
  BY DEF Leave
<1>6. OnePlace'
  BY <1>2, <1>5 DEF OnePlace, InFlight, Distinct
<1>7. Balance'
  BY <1>5 DEF Leave, Balance
<1> QED BY <1>3, <1>4, <1>6, <1>7

LEMMA SoundChainEnds == Sound /\ ChainEnds => Sound'
<1> SUFFICES ASSUME Sound, ChainEnds PROVE Sound'
  OBVIOUS
<1> USE DEF Sound, table, chain, current, batch, ghosts
<1>1. TypeOK' /\ Places'
  BY DEF ChainEnds, TypeOK, Places
<1>2. OnePlace' /\ Balance'
  BY DEF ChainEnds, OnePlace, Balance, InFlight, Items, Distinct
<1> QED BY <1>1, <1>2

(* Giving up the claims of items in flight.                                *)
LEMMA Freed ==
  ASSUME Sound, NEW S \in SUBSET Key, Released(S)
  PROVE  /\ claim' \in [Key -> {"none", "pending", "stale", "sent"}]
         /\ \A k \in Key : claim'[k] = IF k \in S THEN "none" ELSE claim[k]
  BY DEF Sound, TypeOK, Released

LEMMA SoundStrike == Sound /\ Strike => Sound'
<1> SUFFICES ASSUME Sound, Strike PROVE Sound'
  OBVIOUS
<1> USE DEF Sound, current, batch, ghosts
<1>1. /\ Items(refused) \subseteq Key /\ Items(queue) \subseteq Key
      /\ queue' = queue /\ refused' = <<>> /\ call = 0 /\ call' = 0
      /\ accepted = {} /\ accepted' = {}
  BY DEF Strike, Places, TypeOK, Items
<1>2. failures' \in [Address -> 0 .. MaxFailures]
  <2> SUFFICES ASSUME NEW a \in Address
               PROVE  failures'[a] \in 0 .. MaxFailures
    BY DEF Strike
  <2> DEFINE n == Cardinality({k \in Items(refused) : To[k] = a})
  <2>1. n \in Nat
    BY <1>1, PartsOfKey
  <2>2. failures[a] \in Nat /\ MaxFailures \in Nat
    BY LimitAssumption DEF TypeOK
  <2>3. failures'[a] = Smaller(MaxFailures, failures[a] + n)
    BY DEF Strike
  <2> HIDE DEF n
  <2> QED BY <2>1, <2>2, <2>3 DEF Smaller
<1>3. Released(Items(refused))
  BY DEF Strike
<1>4. TypeOK'
  <2>1. claim' \in [Key -> {"none", "pending", "stale", "sent"}]
    BY <1>1, <1>3, Freed
  <2> QED BY <1>1, <1>2, <2>1 DEF Strike, TypeOK
<1>5. Places'
  BY <1>1 DEF Strike, Places
<1>6. Items(refused') = {} /\ Items(queue') = Items(queue) /\ InFlight' = Items(queue)
  BY <1>1 DEF InFlight, Items
<1>7. OnePlace'
  <2>1. \A k \in Items(queue) : k \notin Items(refused) /\ claim[k] = "pending"
    BY DEF OnePlace, InFlight
  <2> QED BY <1>1, <1>3, <1>6, <2>1, Freed DEF OnePlace, Distinct
<1>8. Balance'
  <2>1. \A k \in Items(refused) : claim[k] = "pending"
    BY DEF OnePlace, InFlight
  <2>2. mails' = mails /\ doubts' = doubts
    BY DEF Strike
  <2> QED BY <1>1, <1>3, <2>1, <2>2, Freed DEF Balance
<1> QED BY <1>4, <1>5, <1>7, <1>8

(* Out of send_batch nothing is in flight.                                 *)
LEMMA Emptied ==
  Gone => InFlight' = {} /\ accepted' = {} /\ Places' /\ Distinct(queue')
          /\ Distinct(refused')
  BY DEF Gone, InFlight, Items, Places, Distinct

LEMMA SoundDefer == Sound /\ Defer => Sound'
<1> SUFFICES ASSUME Sound, Defer PROVE Sound'
  OBVIOUS
<1> USE DEF Sound, ghosts
<1>1. Gone /\ Released(Items(queue)) /\ Items(queue) \subseteq Key
      /\ accepted = {} /\ mails' = mails /\ doubts' = doubts
  BY DEF Defer, Places, TypeOK, Items
<1>2. TypeOK'
  <2>1. claim' \in [Key -> {"none", "pending", "stale", "sent"}]
    BY <1>1, Freed
  <2> QED BY <2>1, ChainAssumption DEF Defer, Gone, TypeOK
<1>3. OnePlace'
  BY <1>1, Emptied DEF OnePlace, Distinct, InFlight
<1>4. Balance'
  <2>1. \A k \in Items(queue) : claim[k] = "pending"
    BY DEF OnePlace, InFlight
  <2> QED BY <1>1, <2>1, Freed, Emptied DEF Balance
<1> QED BY <1>1, <1>2, <1>3, <1>4, Emptied

LEMMA SoundDies == Sound /\ Dies => Sound'
<1> SUFFICES ASSUME Sound, Dies PROVE Sound'
  OBVIOUS
<1> USE DEF Sound, table
<1>1. Gone /\ claim' = claim
  BY DEF Dies
<1>2. PICK S \in SUBSET Unjudged : Doubt(S \cup accepted) /\ Taken(S)
  BY DEF Dies
<1>3. TypeOK'
  <2>1. mails' \in [Key -> Nat] /\ doubts' \in [Key -> Nat]
    BY <1>2, DoubtsGrow
  <2> QED BY <2>1, ChainAssumption DEF Dies, Gone, Fault, TypeOK
<1>4. OnePlace'
  BY <1>1, Emptied DEF OnePlace, Distinct, InFlight
<1>5. Balance'
  <2> SUFFICES ASSUME NEW k \in Key
               PROVE  mails'[k] = doubts'[k]
                        + IF claim'[k] = "sent" \/ k \in accepted' THEN 1 ELSE 0
    BY DEF Balance
  <2>1. mails[k] = doubts[k] + IF claim[k] = "sent" \/ k \in accepted THEN 1 ELSE 0
    BY DEF Balance
  <2>2. /\ mails'[k] = mails[k] + IF k \in S THEN 1 ELSE 0
        /\ doubts'[k] = doubts[k] + IF k \in S \cup accepted THEN 1 ELSE 0
    BY <1>2, DoubtsGrow
  <2>3. mails[k] \in Nat /\ doubts[k] \in Nat
    BY DEF TypeOK
  <2>4. k \in accepted => claim[k] = "pending" /\ k \notin S
    BY UnjudgedInQueue DEF OnePlace, InFlight
  <2>5. accepted' = {}
    BY <1>1, Emptied
  <2> QED BY <1>1, <2>1, <2>2, <2>3, <2>4, <2>5
<1> QED BY <1>1, <1>3, <1>4, <1>5, Emptied

LEMMA SoundStep == Sound /\ [Next]_vars => Sound'
<1> SUFFICES ASSUME Sound, [Next]_vars PROVE Sound'
  OBVIOUS
<1>1. CASE World
  BY <1>1, SoundWorld
<1>2. ASSUME NEW q \in Lists, Open(q) PROVE Sound'
  BY <1>2, SoundOpen
<1>3. CASE Batch
  BY <1>3, SoundNextProvider, SoundCall, SoundAccept, SoundRefuse, SoundAnswered,
     SoundProviderFails, SoundLeave, SoundChainEnds, SoundStrike, SoundDefer DEF Batch
<1>4. CASE Dies
  BY <1>4, SoundDies
<1>5. CASE UNCHANGED vars
  <2> USE DEF vars, table, chain, current, batch, ghosts
  <2>1. TypeOK' /\ Places'
    BY <1>5 DEF Sound, TypeOK, Places
  <2>2. OnePlace' /\ Balance'
    BY <1>5 DEF Sound, OnePlace, Balance, InFlight, Items, Distinct
  <2> QED BY <2>1, <2>2 DEF Sound
<1> QED BY <1>1, <1>2, <1>3, <1>4, <1>5 DEF Next

LEMMA AlwaysSound == Spec => []Sound
<1> QED BY SoundInit, SoundStep, PTL DEF Spec

(* Every variable keeps its type: a call never names more items than the   *)
(* queue has, and no window or room goes below zero.                       *)
THEOREM TypeInvariant == Spec => []TypeOK
<1>1. Sound => TypeOK
  BY DEF Sound
<1> QED BY <1>1, AlwaysSound, PTL

(* send_batch mails a key once until its record is pruned, and again only  *)
(* for every acceptance that never came to be recorded.                    *)
THEOREM OneMailPerKeyHolds == Spec => []OneMailPerKey
<1>1. ASSUME Sound, NEW k \in Key PROVE mails[k] <= 1 + doubts[k]
  <2>1. mails[k] \in Nat /\ doubts[k] \in Nat
    BY <1>1 DEF Sound, TypeOK
  <2>2. mails[k] = doubts[k] + IF claim[k] = "sent" \/ k \in accepted THEN 1 ELSE 0
    BY <1>1 DEF Sound, Balance
  <2> QED BY <2>1, <2>2
<1>2. Sound => OneMailPerKey
  BY <1>1 DEF OneMailPerKey
<1> QED BY <1>2, AlwaysSound, PTL

-----------------------------------------------------------------------------
(* A window's use and what is still to go out through it fit the quota.    *)
Booked ==
  /\ WindowKept
  /\ pc = "calling" => used[at] + room <= Quota[at] + others

LEMMA BookedInit == Init => Booked
  BY ChainAssumption, LimitAssumption DEF Init, Booked, WindowKept

LEMMA WindowNumbers ==
  ASSUME Sound
  PROVE  /\ others \in Nat /\ room \in Nat
         /\ \A p \in Provider : used[p] \in Nat /\ Quota[p] \in Nat
         /\ Cardinality(accepted) \in Nat /\ call \in Nat
  BY ChainAssumption, PartsOfKey DEF Sound, TypeOK

LEMMA BookedStep == Sound /\ Booked /\ [Next]_vars => Booked'
<1> SUFFICES ASSUME Sound, Booked, [Next]_vars PROVE Booked'
  OBVIOUS
<1> USE DEF Booked, table, chain, current, batch, ghosts
<1>1. CASE UNCHANGED <<used, at, room, pc, others>>
  BY <1>1 DEF WindowKept
<1>2. ASSUME NEW p \in Provider, OtherMail(p) PROVE Booked'
  <2>1. /\ others' = others + 1 /\ UNCHANGED <<pc, at, room>>
        /\ \A q \in Provider : used'[q] = IF q = p THEN used[q] + 1 ELSE used[q]
    BY <1>2 DEF OtherMail, Sound, TypeOK
  <2>2. pc = "calling" => at \in Provider
    BY DEF Sound, Places
  <2> QED BY <2>1, <2>2, WindowNumbers DEF WindowKept
<1>3. ASSUME NEW p \in Provider, WindowFrees(p) PROVE Booked'
  <2>1. /\ UNCHANGED <<pc, at, room, others>>
        /\ \A q \in Provider : used'[q] = IF q = p THEN used[q] - 1 ELSE used[q]
    BY <1>3 DEF WindowFrees, Sound, TypeOK
  <2>2. pc = "calling" => at \in Provider
    BY DEF Sound, Places
  <2> QED BY <2>1, <2>2, WindowNumbers DEF WindowKept
<1>4. CASE NextProvider
  <2>1. /\ at + 1 \in Provider /\ at' = at + 1 /\ room' = _headroom(at + 1)
        /\ UNCHANGED <<used, others>>
    BY <1>4, ChainAssumption DEF NextProvider, Provider, Sound, TypeOK
  <2> QED BY <2>1, WindowNumbers DEF WindowKept, _headroom, Less
<1>5. CASE Answered \/ ProviderFails
  <2>1. Record /\ at \in Provider /\ pc = "calling" /\ at' = at /\ others' = others
    BY <1>5, Judged DEF Answered, ProviderFails, Sound, Places, Record
  <2>2. /\ \A p \in Provider :
             used'[p] = IF p = at THEN used[p] + Cardinality(accepted) ELSE used[p]
        /\ Cardinality(accepted) <= room
    <3>1. call + Cardinality(accepted) <= room
      BY <2>1 DEF Sound, Places
    <3>2. used' = [used EXCEPT ![at] = @ + Cardinality(accepted)]
          /\ used \in [Provider -> Nat]
      BY <2>1 DEF Record, Sound, TypeOK
    <3> QED BY <3>1, <3>2, WindowNumbers
  <2>3. room' = 0 \/ room' = room - Cardinality(accepted)
    BY <1>5 DEF Answered, ProviderFails
  <2> QED BY <2>1, <2>2, <2>3, WindowNumbers DEF WindowKept
<1>6. CASE UNCHANGED <<used, others>> /\ pc' # "calling"
  BY <1>6 DEF WindowKept
<1>7. ASSUME NEW a \in Address, Suppress(a) \/ Rearm(a)
      PROVE  UNCHANGED <<used, at, room, pc, others>>
  BY <1>7 DEF Suppress, Rearm
<1>8. ASSUME NEW k \in Key, GoesStale(k) \/ Prune(k)
      PROVE  UNCHANGED <<used, at, room, pc, others>>
  BY <1>8 DEF GoesStale, Prune
<1>9. ASSUME NEW q \in Lists, Open(q)
      PROVE  UNCHANGED <<used, others>> /\ pc' # "calling"
  BY <1>9 DEF Open
<1>10. ASSUME Call \/ Accept \/ Refuse \/ UNCHANGED vars
       PROVE  UNCHANGED <<used, at, room, pc, others>>
  BY <1>10 DEF Call, Accept, Refuse, vars
<1>11. ASSUME Leave \/ ChainEnds \/ Strike \/ Defer \/ Dies
       PROVE  UNCHANGED <<used, others>> /\ pc' # "calling"
  BY <1>11 DEF Leave, ChainEnds, Strike, Defer, Dies, Gone
<1> QED BY <1>1, <1>2, <1>3, <1>4, <1>5, <1>6, <1>7, <1>8, <1>9, <1>10, <1>11
        DEF Next, World, Batch

(* The batches push no provider past its window: _headroom counts what was *)
(* sent, a call takes no more than the room, and only other mail exceeds.  *)
THEOREM WindowKeptHolds == Spec => []WindowKept
<1>1. Sound /\ Booked /\ [Next]_vars => (Sound /\ Booked)'
  BY SoundStep, BookedStep
<1>2. Sound /\ Booked => WindowKept
  BY DEF Booked
<1> QED BY SoundInit, BookedInit, <1>1, <1>2, PTL DEF Spec

-----------------------------------------------------------------------------
(* Whom the providers asked so far have turned down, and who is excused.   *)
Covered(k, p) == <<k, p>> \in turnedDown \/ p \in excused

Left == Items(queue) \cup Items(refused)

Asked ==
  /\ pc = "idle" => at = 0
  /\ pc = "choosing" =>
       \A k \in Left, p \in Provider : p <= at => Covered(k, p)
  /\ pc = "calling" =>
       /\ \A k \in Left, p \in Provider : p < at => Covered(k, p)
       /\ \A k \in Items(refused) : <<k, at>> \in turnedDown
  /\ EveryProviderRefused

LEMMA AskedInit == Init => Asked
  BY DEF Init, Asked, EveryProviderRefused

LEMMA AskedStep == Sound /\ Asked /\ [Next]_vars => Asked'
<1> SUFFICES ASSUME Sound, Asked, [Next]_vars PROVE Asked'
  OBVIOUS
<1> USE DEF table, chain, current, batch, ghosts
<1>1. ASSUME UNCHANGED <<pc, at, queue, refused, turnedDown, excused>> PROVE Asked'
  BY <1>1 DEF Asked, Left, Items, Covered, EveryProviderRefused
<1>2. CASE World
  <2>1. UNCHANGED <<pc, at, queue, refused, turnedDown, excused>>
    BY <1>2 DEF World, OtherMail, WindowFrees, Suppress, Rearm, GoesStale, Prune
  <2> QED BY <1>1, <2>1
<1>3. CASE Call \/ Answered \/ ProviderFails \/ UNCHANGED vars
  <2>1. UNCHANGED <<pc, at, queue, refused, turnedDown, excused>>
    BY <1>3 DEF Call, Answered, ProviderFails, Record, vars
  <2> QED BY <1>1, <2>1
<1>4. ASSUME NEW q \in Lists, Open(q) PROVE Asked'
  <2>1. pc' = "choosing" /\ at' = 0
    BY <1>4 DEF Open, Asked
  <2>2. \A p \in Provider : ~(p <= 0)
    BY ChainAssumption DEF Provider
  <2> QED BY <2>1, <2>2 DEF Asked, EveryProviderRefused
<1>5. CASE NextProvider
  <2>1. /\ pc = "choosing" /\ pc' = "calling" /\ at' = at + 1 /\ queue' = HandedOn
        /\ refused' = <<>> /\ UNCHANGED <<turnedDown, excused>>
        /\ at \in Nat /\ queue \in Seq(Key) /\ refused \in Seq(Key)
    BY <1>5, ChainAssumption DEF NextProvider, Sound, TypeOK
  <2>2. Left' = Left /\ Items(refused') = {}
    <3>1. Items(HandedOn) = Left
      BY <2>1, ItemsOfConcat DEF HandedOn, Left
    <3>2. Items(<<>>) = {}
      BY DEF Items
    <3> QED BY <2>1, <3>1, <3>2 DEF Left
  <2>3. \A p \in Provider : p < at' => p <= at
    BY <2>1, ChainAssumption DEF Provider
  <2> QED BY <2>1, <2>2, <2>3 DEF Asked, Covered, EveryProviderRefused
<1>6. CASE Accept \/ Refuse
  <2>1. /\ call > 0 /\ pc = "calling" /\ pc' = pc /\ at' = at /\ excused' = excused
        /\ turnedDown \subseteq turnedDown'
    BY <1>6, Judged DEF Accept, Refuse
  <2>2. Items(queue') \subseteq Items(queue) /\ Head(queue) \in Items(queue)
        /\ Head(queue) \in Key
    <3>1. queue' = Tail(queue)
      BY <1>6 DEF Accept, Refuse
    <3> QED BY <2>1, <3>1, Judged
  <2>3. \A k \in Items(refused') : k \in Left /\ <<k, at>> \in turnedDown'
    <3>1. \A k \in Items(refused) : k \in Left /\ <<k, at>> \in turnedDown
      BY <2>1 DEF Asked, Left
    <3>2. CASE Accept
      <4>1. refused' = refused
        BY <3>2 DEF Accept
      <4> QED BY <2>1, <3>1, <4>1
    <3>3. CASE Refuse
      <4>1. /\ refused' = Append(refused, Head(queue))
            /\ turnedDown' = turnedDown \cup {<<Head(queue), at>>}
        BY <3>3 DEF Refuse
      <4>2. Items(refused') = Items(refused) \cup {Head(queue)}
        BY <2>2, <4>1, ItemsOfAppend DEF Sound, TypeOK
      <4> QED BY <2>1, <2>2, <3>1, <4>1, <4>2 DEF Left
    <3> QED BY <1>6, <3>2, <3>3
  <2>4. Left' \subseteq Left
    BY <2>2, <2>3 DEF Left
  <2>5. \A k \in Left, p \in Provider : p < at => Covered(k, p)
    BY <2>1 DEF Asked
  <2>6. \A k \in Left', p \in Provider : p < at => Covered(k, p)'
    BY <2>1, <2>4, <2>5 DEF Covered
  <2> QED BY <2>1, <2>3, <2>6 DEF Asked, EveryProviderRefused
<1>7. CASE Leave
  <2>1. /\ pc = "calling" /\ pc' = "choosing" /\ at' = at /\ turnedDown' = turnedDown
        /\ queue = <<>> \/ room = 0
        /\ excused' = IF room = 0 \/ Systemic THEN excused \cup {at} ELSE excused
    BY <1>7 DEF Leave
  <2>2. Left' = Left
    <3>1. queue \in Seq(Key) /\ refused \in Seq(Key)
      BY DEF Sound, TypeOK
    <3>2. Items(HandedOn) = Left /\ Items(<<>>) = {}
      BY <3>1, ItemsOfConcat DEF HandedOn, Left, Items
    <3>3. CASE Systemic
      <4>1. queue' = HandedOn /\ refused' = <<>>
        BY <1>7, <3>3 DEF Leave
      <4> QED BY <3>2, <4>1 DEF Left
    <3>4. CASE ~Systemic
      <4>1. queue' = queue /\ refused' = refused
        BY <1>7, <3>4 DEF Leave
      <4> QED BY <4>1 DEF Left
    <3> QED BY <3>3, <3>4
  <2>3. \A k \in Left : <<k, at>> \in turnedDown \/ at \in excused'
    <3>1. CASE queue = <<>>
      <4>1. Items(queue) = {}
        BY <3>1 DEF Items
      <4> QED BY <2>1, <4>1 DEF Left, Asked
    <3>2. CASE room = 0
      BY <2>1, <3>2
    <3> QED BY <2>1, <3>1, <3>2
  <2>4. \A k \in Left, p \in Provider : p < at => Covered(k, p)
    BY <2>1 DEF Asked
  <2>5. \A p \in Provider : p <= at => p < at \/ p = at
    BY ChainAssumption DEF Provider, Sound, TypeOK
  <2>6. \A k \in Left', p \in Provider : p <= at => Covered(k, p)'
    BY <2>1, <2>2, <2>3, <2>4, <2>5 DEF Covered
  <2> QED BY <2>1, <2>6 DEF Asked, EveryProviderRefused
<1>8. CASE ChainEnds
  <2>1. /\ pc = "choosing" /\ pc' = "striking"
        /\ at = Providers \/ HandedOn = <<>>
        /\ UNCHANGED <<queue, refused, turnedDown, excused>>
    BY <1>8 DEF ChainEnds
  <2>2. CASE at = Providers
    <3>1. \A p \in Provider : p <= at
      BY <2>2, ChainAssumption DEF Provider
    <3>2. \A k \in Items(refused), p \in Provider : Covered(k, p)
      BY <2>1, <3>1 DEF Asked, Left
    <3>3. Items(refused') = Items(refused)
      BY <2>1 DEF Items
    <3>4. EveryProviderRefused'
      BY <2>1, <3>2, <3>3 DEF EveryProviderRefused, Covered
    <3> QED BY <2>1, <3>4 DEF Asked
  <2>3. CASE HandedOn = <<>>
    <3>1. Items(refused) = {}
      <4>1. queue \in Seq(Key) /\ refused \in Seq(Key)
        BY DEF Sound, TypeOK
      <4>2. Items(<<>>) = {}
        BY DEF Items
      <4> QED BY <2>3, <4>1, <4>2, ItemsOfConcat DEF HandedOn
    <3>2. Items(refused') = {}
      BY <2>1, <3>1 DEF Items
    <3>3. EveryProviderRefused'
      BY <3>2 DEF EveryProviderRefused
    <3> QED BY <2>1, <3>3 DEF Asked
  <2> QED BY <2>1, <2>2, <2>3
<1>9. CASE Strike \/ Defer \/ Dies
  <2>1. pc' = "deferring" \/ (pc' = "idle" /\ at' = 0)
    BY <1>9 DEF Strike, Defer, Dies, Gone
  <2> QED BY <2>1 DEF Asked, EveryProviderRefused
<1> QED BY <1>2, <1>3, <1>4, <1>5, <1>6, <1>7, <1>8, <1>9 DEF Next, Batch

(* send_batch strikes an address only when every provider of the chain     *)
(* refused its item, but for those that failed, had no room, or refused    *)
(* everything they were given.                                             *)
THEOREM EveryProviderRefusedHolds == Spec => []EveryProviderRefused
<1>1. Sound /\ Asked /\ [Next]_vars => (Sound /\ Asked)'
  BY SoundStep, AskedStep
<1>2. Sound /\ Asked => EveryProviderRefused
  BY DEF Asked
<1> QED BY SoundInit, AskedInit, <1>1, <1>2, PTL DEF Spec

-----------------------------------------------------------------------------
(* An item that nobody turned down yet keeps its place: whatever stands    *)
(* before it in the queue, or was taken, stands before it in the list.     *)
Above(m, k) == \E i, j \in DOMAIN list : i < j /\ list[i] = m /\ list[j] = k

Untried(k) == \A p \in Provider : <<k, p>> \notin turnedDown

InLine ==
  /\ Distinct(list)
  /\ \A x, y \in DOMAIN queue : x < y /\ Untried(queue[y]) => Above(queue[x], queue[y])
  /\ \A k \in Items(queue), m \in delivered \cup accepted : Untried(k) => Above(m, k)
  /\ \A k \in Items(refused) : ~Untried(k)
  /\ pc = "idle" => delivered = {}

LEMMA InLineInit == Init => InLine
  BY DEF Init, InLine, Distinct, Items

(* What was turned down goes behind what was not.                          *)
LEMMA InLineHandedOn ==
  ASSUME Sound, InLine
  PROVE  /\ \A x, y \in DOMAIN HandedOn :
              x < y /\ Untried(HandedOn[y]) => Above(HandedOn[x], HandedOn[y])
         /\ \A k \in Items(HandedOn), m \in delivered \cup accepted :
              Untried(k) => Above(m, k)
<1>1. queue \in Seq(Key) /\ refused \in Seq(Key)
  BY DEF Sound, TypeOK
<1>2. /\ Len(HandedOn) = Len(queue) + Len(refused) /\ HandedOn \in Seq(Key)
      /\ \A i \in 1 .. Len(queue) : HandedOn[i] = queue[i]
  BY <1>1 DEF HandedOn
<1>3. ASSUME NEW y \in DOMAIN HandedOn, Untried(HandedOn[y]) PROVE y \in 1 .. Len(queue)
  <2> SUFFICES ASSUME y > Len(queue) PROVE FALSE
    BY <1>1, <1>2
  <2>1. y - Len(queue) \in 1 .. Len(refused) /\ HandedOn[y] = refused[y - Len(queue)]
    BY <1>1, <1>2 DEF HandedOn
  <2> QED BY <1>1, <1>3, <2>1 DEF InLine, Items
<1>4. ASSUME NEW x \in DOMAIN HandedOn, NEW y \in DOMAIN HandedOn, x < y,
             Untried(HandedOn[y])
      PROVE  Above(HandedOn[x], HandedOn[y])
  <2>1. y \in 1 .. Len(queue) /\ x \in 1 .. Len(queue)
    BY <1>1, <1>2, <1>3, <1>4
  <2>2. HandedOn[x] = queue[x] /\ HandedOn[y] = queue[y]
    BY <1>2, <2>1
  <2>3. Untried(queue[y])
    BY <1>4, <2>2
  <2> QED BY <1>1, <1>4, <2>1, <2>2, <2>3 DEF InLine
<1>5. Items(HandedOn) = Items(queue) \cup Items(refused)
  BY <1>1, ItemsOfConcat DEF HandedOn
<1> QED BY <1>4, <1>5 DEF InLine

LEMMA InLineStep == Sound /\ InLine /\ [Next]_vars => InLine'
<1> SUFFICES ASSUME Sound, InLine, [Next]_vars PROVE InLine'
  OBVIOUS
<1> USE DEF table, chain, current, batch, ghosts
<1>0. queue \in Seq(Key) /\ refused \in Seq(Key) /\ accepted \subseteq Key
  BY DEF Sound, TypeOK
<1>1. ASSUME UNCHANGED <<list, queue, refused, turnedDown>>,
             delivered' \cup accepted' = delivered \cup accepted,
             pc' = "idle" => pc = "idle" /\ delivered' = delivered
      PROVE  InLine'
  <2>1. Distinct(list)' /\ (\A k \in Items(refused) : ~Untried(k))'
    BY <1>1 DEF InLine, Distinct, Items, Untried
  <2>2. (\A x, y \in DOMAIN queue : x < y /\ Untried(queue[y]) => Above(queue[x], queue[y]))'
    BY <1>1 DEF InLine, Untried, Above
  <2>3. (\A k \in Items(queue), m \in delivered \cup accepted : Untried(k) => Above(m, k))'
    BY <1>1 DEF InLine, Items, Untried, Above
  <2> QED BY <1>1, <2>1, <2>2, <2>3 DEF InLine
<1>2. CASE World
  <2>1. UNCHANGED <<pc, list, queue, refused, turnedDown, delivered, accepted>>
    BY <1>2 DEF World, OtherMail, WindowFrees, Suppress, Rearm, GoesStale, Prune
  <2> QED BY <1>1, <2>1
<1>3. CASE Call \/ Answered \/ ProviderFails \/ ChainEnds \/ UNCHANGED vars
  <2>1. /\ UNCHANGED <<list, queue, refused, turnedDown>>
        /\ delivered' \cup accepted' = delivered \cup accepted
    BY <1>3 DEF Call, Answered, ProviderFails, Record, ChainEnds, vars
  <2>2. pc' = "idle" => pc = "idle" /\ delivered' = delivered
    BY <1>3, Judged DEF Call, Answered, ProviderFails, Record, ChainEnds, vars
  <2> QED BY <1>1, <2>1, <2>2
<1>4. ASSUME NEW q \in Lists, Open(q) PROVE InLine'
  <2>1. /\ q \in Seq(Key) /\ Distinct(q) /\ list' = q /\ queue' = q
        /\ refused' = refused /\ refused = <<>> /\ delivered' = {} /\ accepted' = {}
        /\ pc' = "choosing"
    BY <1>4 DEF Lists, Open, Distinct, InLine, Sound, Places
  <2>2. (\A x, y \in DOMAIN queue : x < y /\ Untried(queue[y]) => Above(queue[x], queue[y]))'
    BY <2>1 DEF Above
  <2>3. (\A k \in Items(refused) : ~Untried(k))'
    BY <2>1 DEF Items
  <2> QED BY <2>1, <2>2, <2>3 DEF InLine, Distinct
<1>5. CASE NextProvider \/ (Leave /\ Systemic)
  <2>1. /\ queue' = HandedOn /\ refused' = <<>> /\ UNCHANGED <<list, delivered, accepted, turnedDown>>
        /\ pc' # "idle"
    BY <1>5 DEF NextProvider, Leave
  <2>2. Distinct(list)' /\ (\A k \in Items(refused) : ~Untried(k))'
    BY <2>1 DEF InLine, Distinct, Items
  <2>3. (\A x, y \in DOMAIN queue : x < y /\ Untried(queue[y]) => Above(queue[x], queue[y]))'
    BY <2>1, InLineHandedOn DEF Untried, Above
  <2>4. (\A k \in Items(queue), m \in delivered \cup accepted : Untried(k) => Above(m, k))'
    <3>1. Items(queue') = Items(HandedOn)
      BY <2>1
    <3>2. Items(queue)' = Items(queue')
      BY DEF Items
    <3> QED BY <2>1, <3>1, <3>2, InLineHandedOn DEF Untried, Above
  <2> QED BY <2>1, <2>2, <2>3, <2>4 DEF InLine
<1>6. CASE Leave /\ ~Systemic
  BY <1>1, <1>6 DEF Leave
<1>7. CASE Accept \/ Refuse
  <2>1. /\ call > 0 /\ pc' = pc /\ pc = "calling" /\ at \in Provider
        /\ queue' = Tail(queue) /\ UNCHANGED <<list, delivered>>
        /\ turnedDown \subseteq turnedDown'
    BY <1>7, Judged DEF Accept, Refuse, Sound, Places
  <2>2. /\ Head(queue) \in Key /\ Head(queue) = queue[1] /\ Len(queue) > 0
        /\ Items(Tail(queue)) = Items(queue) \ {Head(queue)}
        /\ Tail(queue) \in Seq(Key) /\ Len(Tail(queue)) = Len(queue) - 1
        /\ \A i \in 1 .. Len(queue) - 1 : Tail(queue)[i] = queue[i + 1]
    BY <1>0, <2>1, Judged, HeadAndTail DEF Sound, OnePlace, TypeOK
  <2>3. \A k : Untried(k)' => Untried(k)
    BY <2>1 DEF Untried
  <2>4. \A m, k : Above(m, k)' <=> Above(m, k)
    BY <2>1 DEF Above
  <2>5. (\A x, y \in DOMAIN queue : x < y /\ Untried(queue[y]) => Above(queue[x], queue[y]))'
    <3>1. ASSUME NEW x \in DOMAIN Tail(queue), NEW y \in DOMAIN Tail(queue), x < y,
                 Untried(Tail(queue)[y])
          PROVE  Above(Tail(queue)[x], Tail(queue)[y])
      <4>1. x + 1 \in DOMAIN queue /\ y + 1 \in DOMAIN queue /\ x + 1 < y + 1
            /\ Tail(queue)[x] = queue[x + 1] /\ Tail(queue)[y] = queue[y + 1]
        BY <1>0, <2>2, <3>1
      <4> QED BY <3>1, <4>1 DEF InLine
    <3> QED BY <2>1, <3>1 DEF Untried, Above
  <2>6. \A k \in Items(Tail(queue)) : Untried(k) => Above(Head(queue), k)
    <3> SUFFICES ASSUME NEW k \in Items(queue), k # queue[1], Untried(k)
                 PROVE  Above(queue[1], k)
      BY <2>2
    <3>1. PICK i \in DOMAIN queue : queue[i] = k
      BY DEF Items
    <3>2. 1 \in DOMAIN queue /\ 1 < i
      BY <1>0, <2>2, <3>1
    <3> QED BY <3>1, <3>2 DEF InLine
  <2>7. (\A k \in Items(queue), m \in delivered \cup accepted : Untried(k) => Above(m, k))'
    <3>1. \A k \in Items(Tail(queue)), m \in delivered \cup accepted \cup {Head(queue)} :
            Untried(k) => Above(m, k)
      BY <2>2, <2>6 DEF InLine
    <3>2. accepted' \subseteq accepted \cup {Head(queue)}
      BY <1>7 DEF Accept, Refuse
    <3>3. Items(queue)' = Items(Tail(queue))
      BY <2>1 DEF Items
    <3> QED BY <2>1, <2>3, <2>4, <3>1, <3>2, <3>3
  <2>8. (\A k \in Items(refused) : ~Untried(k))'
    <3>1. CASE Accept
      BY <2>1, <2>3, <3>1 DEF Accept, InLine, Items
    <3>2. CASE Refuse
      <4>1. PICK h \in Key : h = Head(queue)
        BY <2>2
      <4>2. Items(Append(refused, h)) = Items(refused) \cup {h}
        BY <1>0, ItemsOfAppend
      <4>3. refused' = Append(refused, h) /\ <<h, at>> \in turnedDown'
        BY <3>2, <4>1 DEF Refuse
      <4>4. ~Untried(h)'
        BY <2>1, <4>3 DEF Untried
      <4>5. Items(refused)' = Items(refused) \cup {h}
        BY <4>2, <4>3 DEF Items
      <4> QED BY <2>3, <4>4, <4>5 DEF InLine
    <3> QED BY <1>7, <3>1, <3>2
  <2> QED BY <2>1, <2>5, <2>7, <2>8 DEF InLine, Distinct
<1>8. CASE Strike
  <2>1. /\ UNCHANGED <<list, queue, turnedDown, delivered, accepted>> /\ refused' = <<>>
        /\ pc' # "idle"
    BY <1>8 DEF Strike
  <2>2. Distinct(list)' /\ (\A k \in Items(refused) : ~Untried(k))'
    BY <2>1 DEF InLine, Distinct, Items
  <2>3. (\A x, y \in DOMAIN queue : x < y /\ Untried(queue[y]) => Above(queue[x], queue[y]))'
    BY <2>1 DEF InLine, Untried, Above
  <2>4. (\A k \in Items(queue), m \in delivered \cup accepted : Untried(k) => Above(m, k))'
    BY <2>1 DEF InLine, Items, Untried, Above
  <2> QED BY <2>1, <2>2, <2>3, <2>4 DEF InLine
<1>9. CASE Defer \/ Dies
  <2>1. list' = <<>> /\ queue' = <<>> /\ refused' = <<>> /\ delivered' = {}
    BY <1>9 DEF Defer, Dies, Gone
  <2> QED BY <2>1 DEF InLine, Distinct, Items
<1> QED BY <1>2, <1>3, <1>4, <1>5, <1>6, <1>7, <1>8, <1>9 DEF Next, Batch

(* The tail is deferred: nobody is left behind for an item further down    *)
(* the caller's list, unless a provider refused him.                       *)
THEOREM TailDeferredHolds == Spec => []TailDeferred
<1>1. Sound /\ InLine /\ [Next]_vars => (Sound /\ InLine)'
  BY SoundStep, InLineStep
<1>2. Sound /\ InLine => TailDeferred
  <2> SUFFICES ASSUME Sound, InLine, NEW i \in DOMAIN list, NEW j \in DOMAIN list, i < j,
                      list[i] \in Items(queue), list[j] \in delivered, Untried(list[i])
               PROVE  FALSE
    BY DEF TailDeferred, Untried
  <2>1. Above(list[j], list[i])
    BY DEF InLine
  <2>2. PICK a, b \in DOMAIN list : a < b /\ list[a] = list[j] /\ list[b] = list[i]
    BY <2>1 DEF Above
  <2>3. a = j /\ b = i
    BY <2>2 DEF InLine, Distinct
  <2>4. list \in Seq(Key)
    BY DEF Sound, TypeOK
  <2>5. DOMAIN list = 1 .. Len(list) /\ Len(list) \in Nat
    BY <2>4
  <2> QED BY <2>2, <2>3, <2>5
<1> QED BY SoundInit, InLineInit, <1>1, <1>2, PTL DEF Spec

-----------------------------------------------------------------------------
(* The steps of the batch as steps of the promise.                         *)
(* A step inside the batch, which its callers cannot see.                  *)
LEMMA Unseen ==
  ASSUME InFlight' = InFlight, claim' = claim, pc' = "idle" <=> pc = "idle"
  PROVE  UNCHANGED Promise!vars
  BY DEF Promise!vars, Orphans

LEMMA InsideTheBatch ==
  Sound /\ (NextProvider \/ Call \/ Accept \/ Refuse \/ Leave \/ ChainEnds)
    => UNCHANGED Promise!vars
<1> USE DEF table, chain, current, batch, ghosts
<1>1. ASSUME Sound, NextProvider PROVE UNCHANGED Promise!vars
  <2>1. queue' = HandedOn /\ refused' = <<>> /\ accepted' = accepted
        /\ claim' = claim /\ pc = "choosing" /\ pc' = "calling"
    BY <1>1 DEF NextProvider
  <2>2. Items(HandedOn) = Items(queue) \cup Items(refused) /\ Items(<<>>) = {}
    <3>1. queue \in Seq(Key) /\ refused \in Seq(Key)
      BY <1>1 DEF Sound, TypeOK
    <3>2. Items(<<>>) = {}
      BY DEF Items
    <3> QED BY <3>1, <3>2, ItemsOfConcat DEF HandedOn
  <2> QED BY <2>1, <2>2, Unseen DEF InFlight
<1>2. ASSUME Sound, Call PROVE UNCHANGED Promise!vars
  BY <1>2, Unseen DEF Call, InFlight, Items
<1>3. ASSUME Sound, Accept PROVE UNCHANGED Promise!vars
  <2>1. /\ queue' = Tail(queue) /\ accepted' = accepted \cup {Head(queue)}
        /\ refused' = refused /\ claim' = claim /\ pc' = pc /\ call > 0
    BY <1>3 DEF Accept
  <2>2. /\ Items(Tail(queue)) = Items(queue) \ {Head(queue)}
        /\ Head(queue) \in Items(queue)
    BY <1>3, <2>1, Judged
  <2> QED BY <2>1, <2>2, Unseen DEF InFlight
<1>4. ASSUME Sound, Refuse PROVE UNCHANGED Promise!vars
  <2>1. /\ queue' = Tail(queue) /\ refused' = Append(refused, Head(queue))
        /\ accepted' = accepted /\ claim' = claim /\ pc' = pc /\ call > 0
    BY <1>4 DEF Refuse
  <2>2. /\ Items(Tail(queue)) = Items(queue) \ {Head(queue)}
        /\ Head(queue) \in Items(queue) /\ Head(queue) \in Key
    BY <1>4, <2>1, Judged
  <2>3. Items(Append(refused, Head(queue))) = Items(refused) \cup {Head(queue)}
    BY <1>4, <2>2, ItemsOfAppend DEF Sound, TypeOK
  <2> QED BY <2>1, <2>2, <2>3, Unseen DEF InFlight
<1>5. ASSUME Sound, Leave PROVE UNCHANGED Promise!vars
  <2>1. /\ accepted' = accepted /\ claim' = claim
        /\ pc = "calling" /\ pc' = "choosing"
        /\ queue' = IF Systemic THEN HandedOn ELSE queue
        /\ refused' = IF Systemic THEN <<>> ELSE refused
    BY <1>5 DEF Leave
  <2>2. Items(HandedOn) = Items(queue) \cup Items(refused) /\ Items(<<>>) = {}
    <3>1. queue \in Seq(Key) /\ refused \in Seq(Key)
      BY <1>5 DEF Sound, TypeOK
    <3>2. Items(<<>>) = {}
      BY DEF Items
    <3> QED BY <3>1, <3>2, ItemsOfConcat DEF HandedOn
  <2>3. Items(queue') \cup Items(refused') = Items(queue) \cup Items(refused)
    BY <2>1, <2>2
  <2> QED BY <2>1, <2>3, Unseen DEF InFlight
<1>6. ASSUME Sound, ChainEnds PROVE UNCHANGED Promise!vars
  BY <1>6, Unseen DEF ChainEnds, InFlight, Items
<1> QED BY <1>1, <1>2, <1>3, <1>4, <1>5, <1>6

LEMMA WorldKeepsThePromise == Sound /\ World => [Promise!Next]_(Promise!vars)
<1> USE DEF table, chain, current, batch, ghosts
<1>1. ASSUME Sound, NEW p \in Provider, OtherMail(p) \/ WindowFrees(p)
      PROVE  UNCHANGED Promise!vars
  BY <1>1, Unseen DEF OtherMail, WindowFrees, InFlight, Items
<1>2. ASSUME Sound, NEW a \in Address, Suppress(a) \/ Rearm(a)
      PROVE  UNCHANGED Promise!vars
  BY <1>2, Unseen DEF Suppress, Rearm, InFlight, Items
<1>3. ASSUME Sound, NEW k \in Key, GoesStale(k) PROVE UNCHANGED Promise!vars
  <2>1. InFlight' = InFlight /\ pc' = pc
    BY <1>3 DEF GoesStale, InFlight, Items
  <2>2. \A j \in Key : /\ claim'[j] = "sent" <=> claim[j] = "sent"
                       /\ claim'[j] \in {"pending", "stale"}
                            <=> claim[j] \in {"pending", "stale"}
    BY <1>3 DEF GoesStale, Sound, TypeOK
  <2> QED BY <2>1, <2>2 DEF Promise!vars, Orphans
<1>4. ASSUME Sound, NEW k \in Key, Prune(k) PROVE Promise!Prune(k)
  <2>1. pc = "idle" /\ pc' = "idle" /\ InFlight' = InFlight
    BY <1>4 DEF Prune, InFlight, Items
  <2>2. \A j \in Key : claim'[j] = IF j = k THEN "none" ELSE claim[j]
    BY <1>4 DEF Prune, Sound, TypeOK
  <2> QED BY <2>1, <2>2 DEF Promise!Prune, Orphans
<1> QED BY <1>1, <1>2, <1>3, <1>4 DEF World, Promise!Next

LEMMA OpenBegins == ASSUME Sound, NEW q \in Lists, Open(q) PROVE Promise!Begin(Items(q))
<1> USE DEF table, current, ghosts
<1>1. pc = "idle" /\ pc' = "choosing" /\ InFlight = {}
  BY DEF Open, Sound, Places, InFlight, Items, TypeOK
<1>2. InFlight' = Items(q)
  BY <1>1 DEF Open, InFlight
<1>3. Items(q) \subseteq Claimable
  BY DEF Open, Items
<1>4. \A k \in Key : claim'[k] = IF k \in Items(q) THEN "pending" ELSE claim[k]
  BY DEF Open
<1> QED BY <1>1, <1>2, <1>3, <1>4 DEF Promise!Begin, Orphans, Claimable

LEMMA RecordDelivers ==
  ASSUME Sound, Record, at \in Provider, queue' = queue
  PROVE  Promise!Deliver(accepted)
<1>1. accepted' = {} /\ pc' = pc /\ refused' = refused
      /\ \A k \in Key : claim'[k] = IF k \in accepted THEN "sent" ELSE claim[k]
  BY Recorded
<1>2. Items(queue') = Items(queue) /\ Items(refused') = Items(refused)
  BY <1>1 DEF Items
<1>3. accepted \subseteq InFlight /\ InFlight' = InFlight \ accepted
  BY <1>1, <1>2 DEF InFlight, Sound, OnePlace
<1>4. \A k \in accepted : k \in Key /\ claim[k] = "pending"
  BY <1>3 DEF Sound, OnePlace, TypeOK
<1> QED BY <1>1, <1>3, <1>4 DEF Promise!Deliver, Orphans

LEMMA StrikeReleases == ASSUME Sound, Strike PROVE Promise!Release(Items(refused))
<1> USE DEF current, batch, ghosts
<1>1. /\ Items(refused) \in SUBSET Key /\ Released(Items(refused))
      /\ pc = "striking" /\ pc' = "deferring"
      /\ queue' = queue /\ refused' = <<>> /\ accepted = {} /\ accepted' = {}
  BY DEF Strike, Sound, Places, TypeOK, Items
<1>2. \A k \in Key : claim'[k] = IF k \in Items(refused) THEN "none" ELSE claim[k]
  BY <1>1, Freed
<1>3. Items(queue') = Items(queue) /\ Items(refused') = {}
  BY <1>1 DEF Items
<1>4. Items(refused) \subseteq InFlight /\ InFlight' = InFlight \ Items(refused)
  BY <1>1, <1>3 DEF InFlight, Sound, OnePlace
<1>5. \A k \in Items(refused) : claim[k] = "pending"
  BY <1>4 DEF Sound, OnePlace
<1> QED BY <1>1, <1>2, <1>4, <1>5 DEF Promise!Release, Orphans

LEMMA DeferReturns == ASSUME Sound, Defer PROVE Promise!Return
<1>1. /\ Items(queue) \in SUBSET Key /\ Released(Items(queue)) /\ Gone
      /\ pc = "deferring" /\ pc' = "idle"
  BY DEF Defer, Gone, Sound, TypeOK, Items
<1>2. InFlight = Items(queue) /\ InFlight' = {}
  BY <1>1, Emptied DEF Sound, Places, InFlight, Items
<1>3. \A k \in Key : claim'[k] = IF k \in Items(queue) THEN "none" ELSE claim[k]
  BY <1>1, Freed
<1>4. \A k \in Items(queue) : claim[k] = "pending"
  BY <1>2 DEF Sound, OnePlace
<1> QED BY <1>1, <1>2, <1>3, <1>4 DEF Promise!Return, Orphans

LEMMA DiesAborts == ASSUME Sound, Dies PROVE Promise!Abort
<1>1. pc # "idle" /\ pc' = "idle" /\ claim' = claim /\ InFlight' = {}
  BY Emptied DEF Dies, Gone, table
<1>2. InFlight \subseteq Key /\ \A k \in InFlight : claim[k] = "pending"
  <2>1. Items(queue) \subseteq Key /\ Items(refused) \subseteq Key /\ accepted \subseteq Key
    BY DEF Sound, TypeOK, Items
  <2> QED BY <2>1 DEF Sound, OnePlace, InFlight
<1> QED BY <1>1, <1>2 DEF Promise!Abort, Orphans

(* send_batch keeps what its callers rely on: an item is recorded once     *)
(* until it is pruned, and a batch that returns leaves none in between.    *)
THEOREM KeepsThePromiseHolds == Spec => KeepsThePromise
<1>1. Init => Promise!Init
  BY DEF Init, Promise!Init, Orphans, InFlight, Items
<1>2. Sound /\ [Next]_vars => [Promise!Next]_(Promise!vars)
  <2> SUFFICES ASSUME Sound, [Next]_vars PROVE [Promise!Next]_(Promise!vars)
    OBVIOUS
  <2>1. CASE World
    BY <2>1, WorldKeepsThePromise
  <2>2. ASSUME NEW q \in Lists, Open(q) PROVE Promise!Next
    <3>1. Items(q) \in SUBSET Key
      BY DEF Lists, Items
    <3> QED BY <2>2, <3>1, OpenBegins DEF Promise!Next
  <2>3. CASE NextProvider \/ Call \/ Accept \/ Refuse \/ Leave \/ ChainEnds
    BY <2>3, InsideTheBatch
  <2>4. CASE Answered \/ ProviderFails
    <3>1. Record /\ at \in Provider /\ queue' = queue /\ accepted \in SUBSET Key
      BY <2>4, Judged DEF Answered, ProviderFails, Sound, Places, TypeOK
    <3>2. Promise!Deliver(accepted)
      BY <3>1, RecordDelivers
    <3>3. \E S \in SUBSET Key : Promise!Deliver(S)
      BY <3>1, <3>2 DEF Promise!Deliver
    <3> QED BY <3>3 DEF Promise!Next
  <2>5. CASE Strike
    <3>1. Items(refused) \in SUBSET Key
      BY DEF Sound, TypeOK, Items
    <3> QED BY <2>5, <3>1, StrikeReleases DEF Promise!Next
  <2>6. CASE Defer
    BY <2>6, DeferReturns DEF Promise!Next
  <2>7. CASE Dies
    BY <2>7, DiesAborts DEF Promise!Next
  <2>8. CASE UNCHANGED vars
    <3>1. claim' = claim /\ pc' = pc /\ InFlight' = InFlight
      BY <2>8 DEF vars, table, chain, current, InFlight, Items
    <3> QED BY <3>1, Unseen
  <2> QED BY <2>1, <2>2, <2>3, <2>4, <2>5, <2>6, <2>7, <2>8
          DEF Next, Batch
<1> QED BY <1>1, <1>2, AlwaysSound, PTL DEF Spec, KeepsThePromise, Promise!Spec
=============================================================================
