-------------------------- MODULE Services_proofs ---------------------------
(***************************************************************************)
(* Proofs about the chat adapters and their connections and about the      *)
(* workspace tools, and that the composition MCServices checks implements  *)
(* the specification of every service.                                     *)
(***************************************************************************)
EXTENDS MCServices, Gateway_proofs, Stores_proofs, SequenceTheorems, FiniteSetTheorems, TLAPS

-----------------------------------------------------------------------------
\* The chat adapters.

\* An event that is being handled, and a Send.
HandlerSet == [n : Numbers, chat : ChatKeys, publishes : BOOLEAN, step : {"mark", "keep", "publish"}]
SendSet == [step : {"none", "forget", "edit", "reply", "call", "plain", "ack"}, chat : ChatKeys \cup {<<>>},
            item : 0 .. MaxArrivals]

AdaptersType ==
    /\ platform \in AllPlatforms /\ arrived \in 0 .. MaxArrivals
    /\ handlers \subseteq HandlerSet /\ kept \in [ChatKeys -> 0 .. MaxArrivals] /\ marks \subseteq Numbers
    /\ sending \in SendSet /\ sends \in 0 .. MaxSends /\ late \in BOOLEAN /\ apiFaults \in 0 .. MaxApiFaults
    /\ uses \in [Numbers -> Nat] /\ excused \subseteq Numbers

DedupType == dedup \subseteq PlatformIds /\ dedupRing \in Seq(PlatformIds) /\ acceptedIds \in Seq(PlatformIds)

\* An event is published at most once.
InboundKept ==
    IsFiniteSet(handlers) /\ inbound \in Nat /\ inbound + Cardinality(handlers) <= arrived

\* Numbers are of events that arrived, and no two handlers have the same event.
NumbersKept ==
    /\ \A h \in handlers : h.n <= arrived
    /\ \A g, h \in handlers : g.n = h.n => g = h
    /\ \A c \in ChatKeys : kept[c] <= arrived
    /\ sending.item <= arrived
    /\ \A n \in Numbers : n > arrived => uses[n] = 0

\* Which Send takes which steps.
SendKept ==
    /\ sending.step = "none" => sending = NoSend
    /\ sending.step # "none" => sending.chat \in ChatKeys
    /\ sending.step \in {"forget", "edit", "plain"} => platform = "telegram"
    /\ sending.step = "reply" => platform = "line"
    /\ sending.step = "ack" => platform = "slack"
    /\ sending.step = "edit" => sending.item # 0
    /\ \A h \in handlers : h.step = "mark" => Marks

\* What waits to be used was not used: the event that is about to be kept, the one a chat
\* keeps, which no other chat keeps, and the one a Send has loaded, which is kept, if at
\* all, where the Send is about to delete.
UsesKept ==
    /\ \A n \in Numbers : uses[n] <= 1
    /\ \A h \in handlers : h.step # "publish" =>
          uses[h.n] = 0 /\ sending.item # h.n /\ \A c \in ChatKeys : kept[c] # h.n
    /\ \A c \in ChatKeys : kept[c] # 0 => uses[kept[c]] = 0
    /\ \A c, d \in ChatKeys : c # d /\ kept[c] = kept[d] => kept[c] = 0
    /\ sending.step \in {"forget", "edit", "reply"} /\ sending.item # 0 =>
          /\ uses[sending.item] = 0
          /\ \A c \in ChatKeys : kept[c] = sending.item => sending.step = "forget" /\ c = sending.chat

\* A mark has its handler, its chat, or the Send that is about to replace it.
MarksKept ==
    /\ ~Marks => marks = {}
    /\ Marks /\ sending.step \in {"call", "plain", "ack"} => sending.item = 0 \/ sending.item \in excused
    /\ \A n \in marks \ excused :
         \/ \E h \in handlers : h.n = n /\ h.step = "keep"
         \/ \E c \in ChatKeys : kept[c] = n
         \/ sending.item = n /\ sending.step \in {"forget", "edit"}

\* The ring of OneBot holds the last of the ids it accepted, each once.
RingKept ==
    /\ Len(dedupRing) <= DedupSize
    /\ platform # "onebot" => dedupRing = <<>>
    /\ platform = "onebot" =>
         /\ Len(dedupRing) <= Len(acceptedIds)
         /\ Len(dedupRing) < DedupSize => Len(dedupRing) = Len(acceptedIds)
         /\ \A k \in 1 .. Len(dedupRing) :
              dedupRing[k] \in dedup /\ dedupRing[k] = acceptedIds[k + Len(acceptedIds) - Len(dedupRing)]
         /\ \A k, l \in 1 .. Len(dedupRing) : dedupRing[k] = dedupRing[l] => k = l

\* The table of QQ holds all it accepted, until it has accepted more than it has room for.
TableKept ==
    /\ platform \notin {"onebot", "qq"} => acceptedIds = <<>>
    /\ platform = "qq" =>
         /\ IsFiniteSet(dedup) /\ Cardinality(dedup) <= Len(acceptedIds)
         /\ Len(acceptedIds) <= TableCap => \A k \in 1 .. Len(acceptedIds) : acceptedIds[k] \in dedup

\* What a message has met is no longer shown: the mark that was shown when a Send began is
\* kept by the chat of the Send alone, and not once Telegram has deleted it.
ReachedKept ==
    /\ sees \in 0 .. MaxArrivals /\ sees <= arrived /\ (sees # 0 => Marks)
    /\ \A n \in reached : n \in Numbers /\ n <= arrived
    /\ \A c \in ChatKeys : kept[c] # 0 => kept[c] \notin reached
    /\ \A h \in handlers : h.step # "publish" => h.n \notin reached /\ h.n # sees
    /\ \A c \in ChatKeys : kept[c] # 0 /\ kept[c] = sees =>
          /\ c = sending.chat /\ sending.step \in {"forget", "call", "ack"}
          /\ platform = "telegram" => sending.step = "forget"
    /\ sending.step = "forget" => sees = sending.item

MarkInv == AdaptersType /\ InboundKept /\ NumbersKept /\ SendKept /\ UsesKept /\ MarksKept
DedupInv == DedupType /\ RingKept /\ TableKept /\ DuplicateAfterEviction

-----------------------------------------------------------------------------
\* Duplicates.

LEMMA IdsSeen ==
    ASSUME AdaptersNext
    PROVE  /\ platform' = platform
           /\ UNCHANGED dedupVars \/ \E e \in PlatformEvents : AsksForDuplicates(e) /\ Remembered(e)
<1>1. ASSUME NEW e \in PlatformEvents, NEW thread, NEW fetched, Arrive(e, fetched, thread)
      PROVE  platform' = platform /\ (UNCHANGED dedupVars \/ (AsksForDuplicates(e) /\ Remembered(e)))
  BY <1>1 DEF Arrive, Remembered
<1>2. ASSUME NEW h \in handlers, Mark(h) \/ Keep(h) \/ HandleMessage(h) PROVE platform' = platform /\ UNCHANGED dedupVars
  BY <1>2 DEF Mark, Keep, HandleMessage
<1>3. ASSUME NEW c \in ChatKeys, SendStart(c) PROVE platform' = platform /\ UNCHANGED dedupVars
  BY <1>3 DEF SendStart, inboundVars
<1>4. ASSUME TelegramForget \/ TelegramEdit \/ LineReply \/ SendCall \/ PlainCall \/ DiscordLate \/ SlackAck
      PROVE  platform' = platform /\ UNCHANGED dedupVars
  BY <1>4 DEF TelegramForget, TelegramEdit, LineReply, SendCall, PlainCall, DiscordLate, SlackAck, inboundVars
<1> QED
  BY <1>1, <1>2, <1>3, <1>4 DEF AdaptersNext

\* A new id is appended, and what was accepted before stays where it was.
LEMMA AcceptedGrows ==
    ASSUME NEW S, NEW s \in Seq(S), NEW id \in S
    PROVE  /\ Append(s, id) \in Seq(S) /\ Len(s) \in Nat /\ Len(Append(s, id)) = Len(s) + 1
           /\ DOMAIN s = 1 .. Len(s) /\ DOMAIN Append(s, id) = 1 .. Len(s) + 1
           /\ Append(s, id)[Len(s) + 1] = id /\ \A k \in 1 .. Len(s) : Append(s, id)[k] = s[k]
BY AppendProperties

LEMMA RingType ==
    ASSUME DedupType, RingKept, NEW id \in PlatformIds, platform = "onebot", OneBotRemember(id), id \notin dedup,
           acceptedIds' = Append(acceptedIds, id), platform' = platform
    PROVE  DedupType' /\ RingKept'
<1> DEFINE full == Len(dedupRing) = DedupSize
           rest == IF full THEN Tail(dedupRing) ELSE dedupRing
<1>1. /\ dedupRing \in Seq(PlatformIds) /\ acceptedIds \in Seq(PlatformIds) /\ Len(dedupRing) \in Nat /\ Len(acceptedIds) \in Nat
      /\ Len(dedupRing) <= DedupSize /\ DedupSize \in Nat /\ DedupSize > 0
  BY AdaptersAssumption DEF DedupType, RingKept
<1>2. /\ dedupRing' = Append(rest, id)
      /\ dedup' = (IF full THEN dedup \ {Head(dedupRing)} ELSE dedup) \cup {id}
  BY DEF OneBotRemember
<1>3. /\ rest \in Seq(PlatformIds) /\ Len(rest) = (IF full THEN Len(dedupRing) - 1 ELSE Len(dedupRing))
      /\ \A k \in 1 .. Len(rest) : rest[k] = dedupRing[IF full THEN k + 1 ELSE k]
  <2>1. CASE full
    <3>1. dedupRing # <<>>
      <4>1. Len(dedupRing) # 0
        BY <1>1, <2>1
      <4> QED
        BY <4>1
    <3>2. /\ Tail(dedupRing) \in Seq(PlatformIds) /\ Len(Tail(dedupRing)) = Len(dedupRing) - 1
          /\ \A k \in 1 .. Len(Tail(dedupRing)) : Tail(dedupRing)[k] = dedupRing[k + 1]
      BY <1>1, <3>1, HeadTailProperties
    <3> QED
      BY <2>1, <3>2
  <2>2. CASE ~full
    BY <1>1, <2>2
  <2> QED
    BY <2>1, <2>2
<1>4. full => Head(dedupRing) = dedupRing[1]
  OBVIOUS
<1> HIDE DEF rest
<1>5. /\ dedupRing' \in Seq(PlatformIds) /\ Len(dedupRing') = Len(rest) + 1
      /\ dedupRing'[Len(rest) + 1] = id /\ \A k \in 1 .. Len(rest) : dedupRing'[k] = rest[k]
  BY <1>2, <1>3, AcceptedGrows
<1>6. /\ acceptedIds' \in Seq(PlatformIds) /\ Len(acceptedIds') = Len(acceptedIds) + 1
      /\ acceptedIds'[Len(acceptedIds) + 1] = id /\ \A k \in 1 .. Len(acceptedIds) : acceptedIds'[k] = acceptedIds[k]
  BY <1>1, AcceptedGrows
<1>7. Len(rest) \in Nat
  BY <1>3
<1> DEFINE R == Len(rest)
           L == Len(acceptedIds)
           old(k) == IF full THEN k + 1 ELSE k
<1>8. \A k \in 1 .. R : old(k) \in 1 .. Len(dedupRing) /\ (full => old(k) # 1)
  BY <1>1, <1>3, <1>7
<1>9. /\ Len(dedupRing) <= L
      /\ Len(dedupRing) < DedupSize => Len(dedupRing) = L
      /\ \A k \in 1 .. Len(dedupRing) : dedupRing[k] \in dedup /\ dedupRing[k] = acceptedIds[k + L - Len(dedupRing)]
      /\ \A k, l \in 1 .. Len(dedupRing) : dedupRing[k] = dedupRing[l] => k = l
  BY DEF RingKept
<1>10. R + 1 <= DedupSize /\ R <= L /\ (R + 1 < DedupSize => R = L)
  BY <1>1, <1>3, <1>7, <1>9
<1>11. ASSUME NEW k \in 1 .. R
       PROVE  /\ rest[k] \in dedup /\ rest[k] \in dedup' /\ rest[k] = acceptedIds[k + L - R]
              /\ k + L - R \in 1 .. L
  <2>1. old(k) \in 1 .. Len(dedupRing) /\ rest[k] = dedupRing[old(k)]
    BY <1>3, <1>8
  <2>2. rest[k] \in dedup
    BY <1>9, <2>1
  <2>3. full => dedupRing[old(k)] # dedupRing[1]
    <3>1. full => 1 \in 1 .. Len(dedupRing)
      BY <1>1
    <3> QED
      BY <1>8, <1>9, <2>1, <3>1
  <2>4. rest[k] \in dedup'
    BY <1>2, <1>4, <2>1, <2>2, <2>3
  <2>5. old(k) + L - Len(dedupRing) = k + L - R
    BY <1>1, <1>3, <1>7
  <2>6. rest[k] = acceptedIds[k + L - R]
    BY <1>9, <2>1, <2>5
  <2>7. k + L - R \in 1 .. L
    BY <1>1, <1>7, <1>10
  <2> QED
    BY <2>2, <2>4, <2>6, <2>7
<1>12. \A k, l \in 1 .. R : rest[k] = rest[l] => k = l
  <2> SUFFICES ASSUME NEW k \in 1 .. R, NEW l \in 1 .. R, rest[k] = rest[l] PROVE k = l
    OBVIOUS
  <2>1. old(k) \in 1 .. Len(dedupRing) /\ old(l) \in 1 .. Len(dedupRing)
    BY <1>8
  <2>2. rest[k] = dedupRing[old(k)] /\ rest[l] = dedupRing[old(l)]
    BY <1>3
  <2> HIDE DEF old
  <2>3. old(k) = old(l)
    BY <1>9, <2>1, <2>2
  <2> QED
    BY <1>7, <2>3 DEF old
<1> HIDE DEF R, L, old, full
<1>13. dedup' \subseteq PlatformIds
  BY <1>2 DEF DedupType
<1>14. ASSUME NEW k \in 1 .. Len(dedupRing')
       PROVE  dedupRing'[k] \in dedup' /\ dedupRing'[k] = acceptedIds'[k + Len(acceptedIds') - Len(dedupRing')]
  <2>1. k \in 1 .. R \/ k = R + 1
    BY <1>5, <1>7 DEF R
  <2>2. CASE k = R + 1
    <3>1. k + Len(acceptedIds') - Len(dedupRing') = L + 1
      BY <1>1, <1>5, <1>6, <1>7, <2>2 DEF R, L
    <3> QED
      BY <1>2, <1>5, <1>6, <2>2, <3>1 DEF R, L
  <2>3. CASE k \in 1 .. R
    <3>1. k + Len(acceptedIds') - Len(dedupRing') = k + L - R
      BY <1>1, <1>5, <1>6, <1>7, <2>3 DEF R, L
    <3> QED
      BY <1>5, <1>6, <1>11, <2>3, <3>1 DEF R, L
  <2> QED
    BY <2>1, <2>2, <2>3
<1>15. ASSUME NEW k \in 1 .. Len(dedupRing'), NEW l \in 1 .. Len(dedupRing'), dedupRing'[k] = dedupRing'[l] PROVE k = l
  <2>1. (k \in 1 .. R \/ k = R + 1) /\ (l \in 1 .. R \/ l = R + 1)
    BY <1>5, <1>7 DEF R
  <2>2. \A i \in 1 .. R : dedupRing'[i] = rest[i] /\ rest[i] \in dedup
    BY <1>5, <1>11 DEF R
  <2>3. dedupRing'[R + 1] = id
    BY <1>5 DEF R
  <2> QED
    BY <1>12, <1>15, <2>1, <2>2, <2>3
<1>16. /\ Len(dedupRing') <= DedupSize /\ Len(dedupRing') <= Len(acceptedIds')
       /\ Len(dedupRing') < DedupSize => Len(dedupRing') = Len(acceptedIds')
  BY <1>1, <1>5, <1>6, <1>7, <1>10 DEF R, L
<1>17. DedupType'
  BY <1>5, <1>6, <1>13 DEF DedupType
<1> QED
  BY <1>14, <1>15, <1>16, <1>17 DEF RingKept

LEMMA RingFresh ==
    ASSUME DedupType, RingKept, platform = "onebot", NEW id, id \notin dedup, NEW i \in 1 .. Len(acceptedIds),
           acceptedIds[i] = id
    PROVE  Len(acceptedIds) + 1 - i > DedupSize
<1> DEFINE L == Len(acceptedIds)
           R == Len(dedupRing)
<1>1. L \in Nat /\ R \in Nat /\ DedupSize \in Nat
  BY AdaptersAssumption DEF DedupType
<1>2. R <= L /\ R <= DedupSize /\ (R < DedupSize => R = L)
  BY DEF RingKept
<1>3. \A k \in 1 .. R : acceptedIds[k + L - R] \in dedup
  BY DEF RingKept
<1> HIDE DEF L, R
<1>4. i \in 1 .. L
  BY DEF L
<1>5. ~(i > L - R)
  <2> SUFFICES ASSUME i > L - R PROVE FALSE
    OBVIOUS
  <2>1. i - L + R \in 1 .. R /\ (i - L + R) + L - R = i
    BY <1>1, <1>2, <1>4
  <2> QED
    BY <1>3, <2>1
<1>6. L + 1 - i > DedupSize
  BY <1>1, <1>2, <1>4, <1>5
<1> QED
  BY <1>6 DEF L

LEMMA TableStep ==
    ASSUME DedupType, RingKept, TableKept, NEW id \in PlatformIds, platform = "qq", QQRemember(id), id \notin dedup,
           acceptedIds' = Append(acceptedIds, id), platform' = platform
    PROVE  DedupType' /\ RingKept' /\ TableKept'
<1>1. /\ acceptedIds \in Seq(PlatformIds) /\ Len(acceptedIds) \in Nat /\ TableCap \in Nat /\ dedup \subseteq PlatformIds
      /\ IsFiniteSet(dedup) /\ Cardinality(dedup) <= Len(acceptedIds) /\ Cardinality(dedup) \in Nat
  BY AdaptersAssumption, FS_CardinalityType DEF DedupType, TableKept
<1>2. /\ acceptedIds' \in Seq(PlatformIds) /\ Len(acceptedIds') = Len(acceptedIds) + 1
      /\ acceptedIds'[Len(acceptedIds) + 1] = id /\ \A k \in 1 .. Len(acceptedIds) : acceptedIds'[k] = acceptedIds[k]
  BY <1>1, AcceptedGrows
<1>3. IsFiniteSet(dedup \cup {id}) /\ Cardinality(dedup \cup {id}) = Cardinality(dedup) + 1
  BY <1>1, FS_AddElement
<1>4. dedup' \subseteq dedup \cup {id} /\ dedupRing' = dedupRing
  BY DEF QQRemember
<1>5. IsFiniteSet(dedup') /\ Cardinality(dedup') <= Cardinality(dedup) + 1 /\ Cardinality(dedup') \in Nat
  BY <1>3, <1>4, FS_Subset, FS_CardinalityType
<1>6. Cardinality(dedup') <= Len(acceptedIds')
  BY <1>1, <1>2, <1>5
<1>7. ASSUME Len(acceptedIds') <= TableCap, NEW k \in 1 .. Len(acceptedIds') PROVE acceptedIds'[k] \in dedup'
  <2>1. Cardinality(dedup) < TableCap /\ Len(acceptedIds) <= TableCap
    BY <1>1, <1>2, <1>7
  <2>2. dedup' = dedup \cup {id}
    BY <2>1 DEF QQRemember
  <2>3. k \in 1 .. Len(acceptedIds) \/ k = Len(acceptedIds) + 1
    BY <1>1, <1>2
  <2>4. \A i \in 1 .. Len(acceptedIds) : acceptedIds[i] \in dedup
    BY <2>1 DEF TableKept
  <2> QED
    BY <1>2, <2>2, <2>3, <2>4
<1>8. DedupType'
  BY <1>1, <1>2, <1>4 DEF DedupType
<1>9. RingKept'
  BY <1>4 DEF RingKept
<1>10. TableKept'
  BY <1>5, <1>6, <1>7 DEF TableKept
<1> QED
  BY <1>8, <1>9, <1>10

LEMMA TableFresh ==
    ASSUME DedupType, TableKept, platform = "qq", NEW id, id \notin dedup, NEW i \in 1 .. Len(acceptedIds),
           acceptedIds[i] = id
    PROVE  Len(acceptedIds) + 1 > TableCap + 1
<1>1. Len(acceptedIds) \in Nat /\ TableCap \in Nat
  BY AdaptersAssumption DEF DedupType
<1>2. ~(Len(acceptedIds) <= TableCap)
  BY DEF TableKept
<1> QED
  BY <1>1, <1>2

LEMMA InitDedup == AdaptersInit => DedupInv
<1> SUFFICES ASSUME AdaptersInit PROVE DedupInv
  OBVIOUS
<1>1. dedup = {} /\ dedupRing = <<>> /\ acceptedIds = <<>>
  BY DEF AdaptersInit
<1>2. <<>> \in Seq(PlatformIds) /\ Len(<<>>) = 0 /\ DOMAIN <<>> = {} /\ 1 .. 0 = {}
  OBVIOUS
<1>3. DedupType /\ DuplicateAfterEviction
  BY <1>1, <1>2 DEF DedupType, DuplicateAfterEviction
<1>4. RingKept
  <2>1. 0 <= DedupSize
    BY AdaptersAssumption
  <2> QED
    BY <1>1, <1>2, <2>1 DEF RingKept
<1>5. TableKept
  BY <1>1, <1>2, FS_EmptySet DEF TableKept
<1> QED
  BY <1>3, <1>4, <1>5 DEF DedupInv

LEMMA StepDedup == DedupInv /\ [AdaptersNext]_adapterVars => DedupInv'
<1> SUFFICES ASSUME DedupInv, [AdaptersNext]_adapterVars PROVE DedupInv'
  OBVIOUS
<1>1. DedupType /\ RingKept /\ TableKept /\ DuplicateAfterEviction
  BY DEF DedupInv
<1>2. CASE UNCHANGED dedupVars /\ platform' = platform
  BY <1>1, <1>2 DEF dedupVars, DedupInv, DedupType, RingKept, TableKept, DuplicateAfterEviction
<1>3. ASSUME NEW e \in PlatformEvents, AsksForDuplicates(e), Remembered(e), platform' = platform PROVE DedupInv'
  <2>1. /\ e.id \in PlatformIds /\ e.id \notin dedup /\ acceptedIds' = Append(acceptedIds, e.id)
        /\ platform \in {"onebot", "qq"}
        /\ IF platform = "onebot" THEN OneBotRemember(e.id) ELSE QQRemember(e.id)
    BY <1>3 DEF Remembered, AsksForDuplicates, PlatformEvents
  <2>2. DedupType' /\ RingKept' /\ TableKept'
    <3>1. CASE platform = "onebot"
      <4>1. DedupType' /\ RingKept'
        BY <1>1, <1>3, <2>1, <3>1, RingType
      <4>2. TableKept'
        BY <1>3, <3>1 DEF TableKept
      <4> QED
        BY <4>1, <4>2
    <3>2. CASE platform = "qq"
      BY <1>1, <1>3, <2>1, <3>2, TableStep
    <3> QED
      BY <2>1, <3>1, <3>2
  <2>3. /\ Len(acceptedIds) \in Nat /\ DOMAIN acceptedIds = 1 .. Len(acceptedIds)
        /\ DOMAIN acceptedIds' = 1 .. Len(acceptedIds) + 1
        /\ acceptedIds'[Len(acceptedIds) + 1] = e.id
        /\ \A k \in 1 .. Len(acceptedIds) : acceptedIds'[k] = acceptedIds[k]
    BY <1>1, <2>1, AcceptedGrows DEF DedupType
  <2>4. ASSUME NEW i \in DOMAIN acceptedIds', NEW j \in DOMAIN acceptedIds', i < j, acceptedIds'[i] = acceptedIds'[j]
        PROVE  IF platform' = "onebot" THEN j - i > DedupSize ELSE j > TableCap + 1
    <3>1. i \in 1 .. Len(acceptedIds) /\ (j \in 1 .. Len(acceptedIds) \/ j = Len(acceptedIds) + 1)
      BY <2>3, <2>4
    <3>2. CASE j \in 1 .. Len(acceptedIds)
      BY <1>1, <1>3, <2>3, <2>4, <3>1, <3>2 DEF DuplicateAfterEviction
    <3>3. CASE j = Len(acceptedIds) + 1
      <4>1. acceptedIds[i] = e.id
        BY <2>3, <2>4, <3>1, <3>3
      <4> QED
        BY <1>1, <1>3, <2>1, <3>1, <3>3, <4>1, RingFresh, TableFresh
    <3> QED
      BY <3>1, <3>2, <3>3
  <2>5. DuplicateAfterEviction'
    BY <2>4 DEF DuplicateAfterEviction
  <2> QED
    BY <2>2, <2>5 DEF DedupInv
<1>4. CASE AdaptersNext
  BY <1>2, <1>3, <1>4, IdsSeen
<1>5. CASE UNCHANGED adapterVars
  BY <1>2, <1>5 DEF adapterVars, dedupVars
<1> QED
  BY <1>4, <1>5

LEMMA AlwaysDedup == AdaptersSpec => []DedupInv
BY InitDedup, StepDedup, PTL DEF AdaptersSpec

\* A message with an id is handled twice only if OneBot has since remembered as many others as
\* its ring holds, or QQ has filled its table (isDuplicate, onebot.go, qq.go).
THEOREM DuplicatesDropped == AdaptersSpec => []DuplicateAfterEviction
<1>1. DedupInv => DuplicateAfterEviction
  BY DEF DedupInv
<1> QED
  BY <1>1, AlwaysDedup, PTL

-----------------------------------------------------------------------------
\* Marks.

LEMMA FatePublishes == \A a, b : Fate(a, b).publishes \in BOOLEAN
BY DEF Fate

LEMMA FateType ==
    ASSUME platform \in AllPlatforms, NEW e, NEW fetched
    PROVE  FateOf(e, fetched).publishes \in BOOLEAN
<1>1. Slack(e, fetched).publishes \in BOOLEAN
  BY FatePublishes DEF Slack, SlackMention, SlackCommand, SlackMessage
<1>2. /\ TelegramMessage(e).publishes \in BOOLEAN /\ DiscordMessage(e).publishes \in BOOLEAN
      /\ LineEvent(e, fetched).publishes \in BOOLEAN /\ OneBotMessage(e).publishes \in BOOLEAN
      /\ QQGroupMessage(e).publishes \in BOOLEAN /\ QQMessage(e).publishes \in BOOLEAN
      /\ DingTalkMessage(e).publishes \in BOOLEAN /\ FeishuMessage(e).publishes \in BOOLEAN
      /\ WhatsAppMessage(e).publishes \in BOOLEAN /\ MaixCamMessage(e).publishes \in BOOLEAN
  BY FatePublishes DEF TelegramMessage, DiscordMessage, LineEvent, OneBotMessage, QQGroupMessage, QQMessage,
      DingTalkMessage, FeishuMessage, WhatsAppMessage, MaixCamMessage
<1> QED
  BY <1>1, <1>2 DEF FateOf, AllPlatforms

LEMMA ApiFaultType ==
    ASSUME AdaptersType, ApiFault PROVE apiFaults' \in 0 .. MaxApiFaults
BY AdaptersAssumption DEF AdaptersType, ApiFault

\* An event has a number of its own, and at most a handler.
LEMMA ArriveFacts ==
    ASSUME AdaptersType, NEW e \in PlatformEvents, NEW thread, NEW fetched, Arrive(e, fetched, thread)
    PROVE  /\ arrived' = arrived + 1 /\ arrived + 1 \in Numbers
           /\ UNCHANGED <<platform, kept, marks, inbound, apiFaults, uses, excused>> /\ UNCHANGED sendVars
           /\ \/ handlers' = handlers
              \/ \E g \in HandlerSet : g.n = arrived + 1 /\ (g.step = "mark" => Marks) /\ handlers' = handlers \cup {g}
<1> DEFINE n == arrived + 1
           fate == FateOf(e, fetched)
           marked == Keeps /\ ~(platform = "slack" /\ e.kind = "command")
           g == [n |-> n, chat |-> KeyOf(e, thread, n), publishes |-> fate.publishes,
                 step |-> IF marked THEN (IF Marks THEN "mark" ELSE "keep") ELSE "publish"]
<1>1. arrived \in Nat /\ MaxArrivals \in Nat /\ MaxKept \in Nat /\ MaxKept <= MaxArrivals
  BY AdaptersAssumption DEF AdaptersType
<1>2. arrived < MaxArrivals
  BY <1>1 DEF Arrive
<1>3. arrived + 1 \in Numbers /\ thread \in 0 .. MaxArrivals /\ arrived + 1 \in 0 .. MaxArrivals
  BY <1>1, <1>2 DEF Arrive, Threads, Numbers
<1>4. KeyOf(e, thread, n) \in ChatKeys
  BY <1>1, <1>3 DEF KeyOf, ChatKeys, PlatformEvents
<1>5. fate.publishes \in BOOLEAN
  BY FateType DEF AdaptersType
<1>6. g \in HandlerSet /\ g.n = n /\ (g.step = "mark" => Marks)
  BY <1>3, <1>4, <1>5 DEF HandlerSet
<1>7. handlers' = handlers \/ handlers' = handlers \cup {g}
  BY DEF Arrive
<1>8. UNCHANGED <<platform, kept, marks, inbound, apiFaults, uses, excused>> /\ UNCHANGED sendVars /\ arrived' = arrived + 1
  BY DEF Arrive
<1> HIDE DEF g
<1> QED
  BY <1>3, <1>6, <1>7, <1>8

\* What becomes of the handlers when one goes on.
LEMMA SteppedFacts ==
    ASSUME AdaptersType, InboundKept, NumbersKept, NEW h \in handlers, NEW to \in {"keep", "publish"}, Stepped(h, to),
           UNCHANGED <<arrived, inbound>>
    PROVE  /\ handlers' \subseteq HandlerSet /\ InboundKept'
           /\ \A f \in handlers' : f.n <= arrived
           /\ \A f, g \in handlers' : f.n = g.n => f = g
           /\ \A g \in handlers' : (g \in handlers /\ g.n # h.n) \/ (g.n = h.n /\ g.step = to)
           /\ \A g \in handlers : g # h => g \in handlers'
           /\ \E g \in handlers' : g.n = h.n /\ g.step = to
<1> DEFINE k == [h EXCEPT !.step = to]
<1>1. k \in HandlerSet /\ k.n = h.n /\ k.step = to
  BY DEF HandlerSet, AdaptersType
<1>2. handlers' = (handlers \ {h}) \cup {k}
  BY DEF Stepped
<1> HIDE DEF k
<1>3. handlers \subseteq HandlerSet /\ IsFiniteSet(handlers)
  BY DEF AdaptersType, InboundKept
<1>4. \A g \in handlers \ {h} : g.n # h.n
  BY DEF NumbersKept
<1>5. IsFiniteSet(handlers \ {h}) /\ Cardinality(handlers \ {h}) = Cardinality(handlers) - 1
  BY <1>3, FS_RemoveElement
<1>6. IsFiniteSet(handlers') /\ Cardinality(handlers') <= Cardinality(handlers)
  <2>1. k \notin handlers \ {h}
    BY <1>1, <1>4
  <2>2. IsFiniteSet(handlers') /\ Cardinality(handlers') = Cardinality(handlers) - 1 + 1
    BY <1>2, <1>5, <2>1, FS_AddElement
  <2>3. Cardinality(handlers) \in Nat
    BY <1>3, FS_CardinalityType
  <2> QED
    BY <2>2, <2>3
<1>7. InboundKept'
  <2>1. Cardinality(handlers) \in Nat /\ Cardinality(handlers') \in Nat
    BY <1>3, <1>6, FS_CardinalityType
  <2>2. arrived \in Nat /\ inbound \in Nat /\ inbound + Cardinality(handlers) <= arrived
    BY DEF AdaptersType, InboundKept
  <2>3. inbound + Cardinality(handlers') <= arrived
    BY <1>6, <2>1, <2>2
  <2> QED
    BY <1>6, <2>2, <2>3 DEF InboundKept
<1>8. \A g \in handlers' : (g \in handlers /\ g.n # h.n) \/ g = k
  BY <1>2, <1>4
<1>9. handlers' \subseteq HandlerSet
  BY <1>1, <1>2, <1>3
<1>10. \A f \in handlers' : f.n <= arrived
  BY <1>1, <1>8 DEF NumbersKept
<1>11. \A f, g \in handlers' : f.n = g.n => f = g
  BY <1>1, <1>8 DEF NumbersKept
<1> QED
  BY <1>1, <1>2, <1>7, <1>8, <1>9, <1>10, <1>11

LEMMA ArriveStep ==
    ASSUME MarkInv, NEW e \in PlatformEvents, NEW thread, NEW fetched, Arrive(e, fetched, thread)
    PROVE  MarkInv'
<1>1. AdaptersType /\ InboundKept /\ NumbersKept /\ SendKept /\ UsesKept /\ MarksKept
  BY DEF MarkInv
<1>2. /\ arrived' = arrived + 1 /\ arrived + 1 \in Numbers
      /\ UNCHANGED <<platform, kept, marks, inbound, apiFaults, uses, excused, sending, sends, late>>
      /\ \/ handlers' = handlers
         \/ \E g \in HandlerSet : g.n = arrived + 1 /\ (g.step = "mark" => Marks) /\ handlers' = handlers \cup {g}
  BY <1>1, ArriveFacts DEF sendVars
<1>3. /\ \A g \in handlers' : g \in HandlerSet /\ (g \in handlers \/ g.n = arrived + 1)
      /\ \A f, g \in handlers' : f \notin handlers /\ g \notin handlers => f = g
      /\ handlers \subseteq handlers'
      /\ \E g : handlers' \subseteq handlers \cup {g}
  <2>1. handlers \subseteq HandlerSet
    BY <1>1 DEF AdaptersType
  <2>2. CASE handlers' = handlers
    BY <2>1, <2>2
  <2>3. CASE \E g \in HandlerSet : g.n = arrived + 1 /\ (g.step = "mark" => Marks) /\ handlers' = handlers \cup {g}
    BY <2>1, <2>3
  <2> QED
    BY <1>2, <2>2, <2>3
<1>4. arrived \in Nat /\ arrived + 1 > arrived /\ \A c \in ChatKeys : kept[c] \in Nat
  BY <1>1 DEF AdaptersType
<1>5. AdaptersType'
  <2>1. arrived' \in 0 .. MaxArrivals
    BY <1>2, <1>4, AdaptersAssumption DEF Numbers
  <2> QED
    BY <1>1, <1>2, <1>3, <2>1 DEF AdaptersType
<1>6. InboundKept'
  <2>1. PICK g : handlers' \subseteq handlers \cup {g}
    BY <1>3
  <2>2. IsFiniteSet(handlers) /\ inbound \in Nat /\ Cardinality(handlers) \in Nat /\ inbound + Cardinality(handlers) <= arrived
    BY <1>1, FS_CardinalityType DEF InboundKept
  <2>3. IsFiniteSet(handlers \cup {g}) /\ Cardinality(handlers \cup {g}) <= Cardinality(handlers) + 1
    <3>1. /\ IsFiniteSet(handlers \cup {g})
          /\ Cardinality(handlers \cup {g}) = IF g \in handlers THEN Cardinality(handlers) ELSE Cardinality(handlers) + 1
      BY <2>2, FS_AddElement
    <3> QED
      BY <2>2, <3>1
  <2>4. IsFiniteSet(handlers') /\ Cardinality(handlers') <= Cardinality(handlers \cup {g})
    BY <2>1, <2>3, FS_Subset
  <2>5. Cardinality(handlers') \in Nat /\ Cardinality(handlers \cup {g}) \in Nat
    BY <2>3, <2>4, FS_CardinalityType
  <2>6. inbound + Cardinality(handlers') <= arrived + 1
    BY <1>4, <2>2, <2>3, <2>4, <2>5
  <2> QED
    BY <1>2, <2>2, <2>4, <2>6 DEF InboundKept
<1>7. NumbersKept'
  <2>1. \A h \in handlers' : h.n <= arrived + 1
    <3>1. \A h \in handlers : h.n \in Nat /\ h.n <= arrived
      BY <1>1 DEF NumbersKept, AdaptersType, HandlerSet, Numbers
    <3> QED
      BY <1>3, <1>4, <3>1
  <2>2. \A g, h \in handlers' : g.n = h.n => g = h
    <3>1. \A h \in handlers : h.n # arrived + 1
      <4>1. \A h \in handlers : h.n \in Nat /\ h.n <= arrived
        BY <1>1 DEF NumbersKept, AdaptersType, HandlerSet, Numbers
      <4> QED
        BY <1>4, <4>1
    <3> QED
      BY <1>1, <1>3, <3>1 DEF NumbersKept
  <2>3. /\ \A c \in ChatKeys : kept[c] <= arrived + 1
        /\ sending.item <= arrived + 1
        /\ \A n \in Numbers : n > arrived + 1 => uses[n] = 0
    <3>1. sending.item \in Nat
      BY <1>1 DEF AdaptersType, SendSet
    <3> QED
      BY <1>1, <1>4, <3>1 DEF NumbersKept, Numbers
  <2> QED
    BY <1>2, <2>1, <2>2, <2>3 DEF NumbersKept
<1>8. SendKept'
  <2>1. \A g \in handlers' : g.step = "mark" => Marks
    BY <1>1, <1>2 DEF SendKept
  <2> QED
    BY <1>1, <1>2, <2>1 DEF SendKept, NoSend, Marks
<1>9. UsesKept'
  <2>1. ASSUME NEW h \in handlers', h.step # "publish"
        PROVE  uses[h.n] = 0 /\ sending.item # h.n /\ \A c \in ChatKeys : kept[c] # h.n
    <3>1. CASE h \in handlers
      BY <1>1, <2>1, <3>1 DEF UsesKept
    <3>2. CASE h.n = arrived + 1
      <4>1. sending.item \in Nat
        BY <1>1 DEF AdaptersType, SendSet
      <4> QED
        BY <1>1, <1>2, <1>4, <3>2, <4>1 DEF NumbersKept
    <3> QED
      BY <1>3, <3>1, <3>2
  <2> QED
    BY <1>1, <1>2, <2>1 DEF UsesKept
<1>10. MarksKept'
  <2>1. \A n \in marks \ excused :
         \/ \E h \in handlers' : h.n = n /\ h.step = "keep"
         \/ \E c \in ChatKeys : kept[c] = n
         \/ sending.item = n /\ sending.step \in {"forget", "edit"}
    BY <1>1, <1>3 DEF MarksKept
  <2> QED
    BY <1>1, <1>2, <2>1 DEF MarksKept, Marks
<1> QED
  BY <1>5, <1>6, <1>7, <1>8, <1>9, <1>10 DEF MarkInv

LEMMA MarkStep ==
    ASSUME MarkInv, NEW h \in handlers, Mark(h)
    PROVE  MarkInv'
<1>1. AdaptersType /\ InboundKept /\ NumbersKept /\ SendKept /\ UsesKept /\ MarksKept
  BY DEF MarkInv
<1>2. /\ h.step = "mark"
      /\ UNCHANGED <<platform, arrived, kept, inbound, uses, excused, sending, sends, late>>
  BY DEF Mark, sendVars
<1>3. h.n \in Numbers /\ Marks
  BY <1>1, <1>2 DEF AdaptersType, HandlerSet, SendKept
<1>4. PICK to \in {"keep", "publish"} :
        /\ Stepped(h, to)
        /\ (marks' = marks \cup {h.n} /\ to = "keep" /\ UNCHANGED apiFaults) \/ (ApiFault /\ UNCHANGED marks)
  BY DEF Mark
<1>5. /\ handlers' \subseteq HandlerSet /\ InboundKept'
      /\ \A f \in handlers' : f.n <= arrived
      /\ \A f, g \in handlers' : f.n = g.n => f = g
      /\ \A g \in handlers' : (g \in handlers /\ g.n # h.n) \/ (g.n = h.n /\ g.step = to)
      /\ \A g \in handlers : g # h => g \in handlers'
      /\ \E g \in handlers' : g.n = h.n /\ g.step = to
  BY <1>1, <1>2, <1>4, SteppedFacts
<1>6. AdaptersType'
  <2>1. marks' \subseteq Numbers /\ apiFaults' \in 0 .. MaxApiFaults
    BY <1>1, <1>3, <1>4, ApiFaultType DEF AdaptersType
  <2> QED
    BY <1>1, <1>2, <1>5, <2>1 DEF AdaptersType
<1>7. NumbersKept'
  BY <1>1, <1>2, <1>5 DEF NumbersKept
<1>8. SendKept'
  BY <1>1, <1>2, <1>3, <1>5 DEF SendKept, NoSend, Marks
<1>9. UsesKept'
  <2>1. ASSUME NEW g \in handlers', g.step # "publish"
        PROVE  uses[g.n] = 0 /\ sending.item # g.n /\ \A c \in ChatKeys : kept[c] # g.n
    <3>1. CASE g \in handlers
      BY <1>1, <2>1, <3>1 DEF UsesKept
    <3>2. CASE g.n = h.n
      BY <1>1, <1>2, <3>2 DEF UsesKept
    <3> QED
      BY <1>5, <3>1, <3>2
  <2> QED
    BY <1>1, <1>2, <2>1 DEF UsesKept
<1>10. MarksKept'
  <2>1. ASSUME NEW n \in marks' \ excused
        PROVE  \/ \E g \in handlers' : g.n = n /\ g.step = "keep"
               \/ \E c \in ChatKeys : kept[c] = n
               \/ sending.item = n /\ sending.step \in {"forget", "edit"}
    <3>1. CASE n \in marks
      BY <1>1, <1>2, <1>5, <2>1, <3>1 DEF MarksKept
    <3>2. CASE n = h.n /\ to = "keep"
      BY <1>5, <3>2
    <3> QED
      BY <1>4, <2>1, <3>1, <3>2
  <2> QED
    BY <1>1, <1>2, <1>3, <2>1 DEF MarksKept, Marks
<1> QED
  BY <1>5, <1>6, <1>7, <1>8, <1>9, <1>10 DEF MarkInv

LEMMA KeepStep ==
    ASSUME MarkInv, NEW h \in handlers, Keep(h)
    PROVE  MarkInv'
<1>1. AdaptersType /\ InboundKept /\ NumbersKept /\ SendKept /\ UsesKept /\ MarksKept
  BY DEF MarkInv
<1>2. /\ h.step = "keep"
      /\ UNCHANGED <<platform, arrived, marks, inbound, apiFaults, uses, sending, sends, late>>
      /\ kept' = [kept EXCEPT ![h.chat] = h.n]
      /\ excused' = excused \cup ({kept[h.chat]} \ {0})
      /\ Stepped(h, "publish")
  BY DEF Keep, sendVars
<1>3. h.n \in Numbers /\ h.n # 0 /\ h.chat \in ChatKeys /\ h.n <= arrived
  BY <1>1, AdaptersAssumption DEF AdaptersType, HandlerSet, NumbersKept, Numbers
<1>4. /\ handlers' \subseteq HandlerSet /\ InboundKept'
      /\ \A f \in handlers' : f.n <= arrived
      /\ \A f, g \in handlers' : f.n = g.n => f = g
      /\ \A g \in handlers' : (g \in handlers /\ g.n # h.n) \/ (g.n = h.n /\ g.step = "publish")
      /\ \A g \in handlers : g # h => g \in handlers'
  BY <1>1, <1>2, SteppedFacts
<1>5. kept \in [ChatKeys -> 0 .. MaxArrivals] /\ kept'[h.chat] = h.n /\ \A c \in ChatKeys : c # h.chat => kept'[c] = kept[c]
  BY <1>1, <1>2, <1>3 DEF AdaptersType
<1>6. h.n \in 0 .. MaxArrivals /\ \A n \in 0 .. MaxArrivals : n # 0 => n \in Numbers
  BY <1>3, AdaptersAssumption DEF Numbers
<1>7. AdaptersType'
  <2>1. kept' \in [ChatKeys -> 0 .. MaxArrivals]
    BY <1>2, <1>5, <1>6
  <2>2. excused' \subseteq Numbers
    BY <1>1, <1>2, <1>3, <1>5, <1>6 DEF AdaptersType
  <2> QED
    BY <1>1, <1>2, <1>4, <2>1, <2>2 DEF AdaptersType
<1>8. NumbersKept'
  BY <1>1, <1>2, <1>3, <1>4, <1>5 DEF NumbersKept
<1>9. SendKept'
  BY <1>1, <1>2, <1>4 DEF SendKept, NoSend, Marks
<1>10. UsesKept'
  <2>1. uses[h.n] = 0 /\ sending.item # h.n /\ \A c \in ChatKeys : kept[c] # h.n
    BY <1>1, <1>2 DEF UsesKept
  <2>2. ASSUME NEW g \in handlers', g.step # "publish"
        PROVE  uses[g.n] = 0 /\ sending.item # g.n /\ \A c \in ChatKeys : kept'[c] # g.n
    BY <1>1, <1>4, <1>5, <2>2 DEF UsesKept
  <2>3. \A c \in ChatKeys : kept'[c] # 0 => uses[kept'[c]] = 0
    BY <1>1, <1>5, <2>1 DEF UsesKept
  <2>4. \A c, d \in ChatKeys : c # d /\ kept'[c] = kept'[d] => kept'[c] = 0
    BY <1>1, <1>5, <2>1 DEF UsesKept
  <2>5. sending.step \in {"forget", "edit", "reply"} /\ sending.item # 0 =>
          /\ uses[sending.item] = 0
          /\ \A c \in ChatKeys : kept'[c] = sending.item => sending.step = "forget" /\ c = sending.chat
    BY <1>1, <1>5, <2>1 DEF UsesKept
  <2>6. \A n \in Numbers : uses[n] <= 1
    BY <1>1 DEF UsesKept
  <2> QED
    BY <1>2, <2>2, <2>3, <2>4, <2>5, <2>6 DEF UsesKept
<1>11. MarksKept'
  <2>1. ASSUME NEW n \in marks \ excused'
        PROVE  \/ \E g \in handlers' : g.n = n /\ g.step = "keep"
               \/ \E c \in ChatKeys : kept'[c] = n
               \/ sending.item = n /\ sending.step \in {"forget", "edit"}
    <3>1. n \in marks \ excused /\ n # 0 /\ (n = kept[h.chat] => FALSE)
      BY <1>1, <1>2, <2>1, AdaptersAssumption DEF AdaptersType, Numbers
    <3>2. CASE \E g \in handlers : g.n = n /\ g.step = "keep"
      BY <1>3, <1>4, <1>5, <3>2
    <3>3. CASE \E c \in ChatKeys : kept[c] = n
      BY <1>5, <3>1, <3>3
    <3> QED
      BY <1>1, <3>1, <3>2, <3>3 DEF MarksKept
  <2> QED
    BY <1>1, <1>2, <2>1 DEF MarksKept, Marks
<1> QED
  BY <1>4, <1>7, <1>8, <1>9, <1>10, <1>11 DEF MarkInv

LEMMA HandleMessageStep ==
    ASSUME MarkInv, NEW h \in handlers, HandleMessage(h)
    PROVE  MarkInv'
<1>1. AdaptersType /\ InboundKept /\ NumbersKept /\ SendKept /\ UsesKept /\ MarksKept
  BY DEF MarkInv
<1>2. /\ h.step = "publish" /\ handlers' = handlers \ {h}
      /\ inbound' = IF h.publishes THEN inbound + 1 ELSE inbound
      /\ UNCHANGED <<platform, arrived, kept, marks, apiFaults, uses, excused, sending, sends, late>>
  BY DEF HandleMessage, sendVars
<1>3. InboundKept'
  <2>1. IsFiniteSet(handlers) /\ Cardinality(handlers) \in Nat /\ inbound \in Nat /\ arrived \in Nat
    BY <1>1, FS_CardinalityType DEF InboundKept, AdaptersType
  <2>2. IsFiniteSet(handlers') /\ Cardinality(handlers') = Cardinality(handlers) - 1
    BY <1>2, <2>1, FS_RemoveElement
  <2>3. inbound' \in Nat /\ inbound' + Cardinality(handlers') <= arrived
    BY <1>1, <1>2, <2>1, <2>2 DEF InboundKept
  <2> QED
    BY <1>2, <2>2, <2>3 DEF InboundKept
<1>4. AdaptersType'
  BY <1>1, <1>2 DEF AdaptersType
<1>5. NumbersKept'
  BY <1>1, <1>2 DEF NumbersKept
<1>6. SendKept'
  BY <1>1, <1>2 DEF SendKept, NoSend, Marks
<1>7. UsesKept'
  BY <1>1, <1>2 DEF UsesKept
<1>8. MarksKept'
  BY <1>1, <1>2 DEF MarksKept, Marks
<1> QED
  BY <1>3, <1>4, <1>5, <1>6, <1>7, <1>8 DEF MarkInv

LEMMA SendStartFacts ==
    ASSUME AdaptersType, NEW c \in ChatKeys, SendStart(c)
    PROVE  /\ sending' \in SendSet
           /\ \/ sending' = NoSend /\ platform # "line"
              \/ /\ sending'.chat = c
                 /\ \/ platform = "telegram" /\ sending'.step = "forget" /\ sending'.item = kept[c]
                    \/ platform = "line" /\ sending'.step = "reply" /\ sending'.item = kept[c]
                    \/ /\ platform \notin {"telegram", "line"} /\ sending'.step = "call"
                       /\ sending'.item = 0 \/ (~Marks /\ sending'.item = kept[c])
<1>1. kept[c] \in 0 .. MaxArrivals /\ 0 \in 0 .. MaxArrivals /\ platform \in AllPlatforms /\ sending' \in SendOf(c)
  BY AdaptersAssumption DEF AdaptersType, SendStart
<1>2. ASSUME NEW i \in 0 .. MaxArrivals
      PROVE  Calls(c, i) \in SendSet /\ Calls(c, i).step = "call" /\ Calls(c, i).chat = c /\ Calls(c, i).item = i
  BY DEF Calls, SendSet
<1>2a. ASSUME NEW i \in 0 .. MaxArrivals
      PROVE  \A s \in {"forget", "reply"} :
                /\ [Calls(c, i) EXCEPT !.step = s] \in SendSet /\ [Calls(c, i) EXCEPT !.step = s].step = s
                /\ [Calls(c, i) EXCEPT !.step = s].chat = c /\ [Calls(c, i) EXCEPT !.step = s].item = i
  BY DEF Calls, SendSet
<1>3. NoSend \in SendSet
  BY <1>1 DEF NoSend, SendSet
<1>4. CASE platform = "telegram"
  <2>1. sending' = [Calls(c, kept[c]) EXCEPT !.step = "forget"]
    BY <1>1, <1>4 DEF SendOf, TelegramSend
  <2> QED
    BY <1>1, <1>2a, <1>4, <2>1
<1>5. CASE platform = "line"
  <2>1. sending' = [Calls(c, kept[c]) EXCEPT !.step = "reply"]
    BY <1>1, <1>5 DEF SendOf, LineSend
  <2> QED
    BY <1>1, <1>2a, <1>5, <2>1
<1>6. CASE platform = "dingtalk"
  <2>1. sending' = NoSend \/ sending' = Calls(c, kept[c])
    BY <1>1, <1>6 DEF SendOf, DingTalkSend
  <2> QED
    BY <1>1, <1>2, <1>3, <1>6, <2>1 DEF Marks
<1>7. CASE platform \notin {"telegram", "line", "dingtalk"}
  <2>1. sending' = NoSend \/ sending' = Calls(c, 0)
    BY <1>1, <1>7 DEF SendOf, AllPlatforms, SlackSend, DiscordSend, FeishuSend, QQSend, OneBotSend, WhatsAppSend,
        MaixCamSend
  <2> QED
    BY <1>1, <1>2, <1>3, <1>7, <2>1
<1> QED
  BY <1>4, <1>5, <1>6, <1>7

LEMMA SendStartStep ==
    ASSUME MarkInv, NEW c \in ChatKeys, SendStart(c)
    PROVE  MarkInv'
<1>1. AdaptersType /\ InboundKept /\ NumbersKept /\ SendKept /\ UsesKept /\ MarksKept
  BY DEF MarkInv
<1>2. /\ UNCHANGED <<platform, arrived, handlers, inbound, late, marks, apiFaults, uses, excused>>
      /\ sending = NoSend /\ sends < MaxSends /\ sends' = sends + 1
      /\ kept' = IF platform = "line" THEN [kept EXCEPT ![c] = 0] ELSE kept
  BY DEF SendStart, inboundVars
<1>3. /\ sending' \in SendSet
      /\ \/ sending' = NoSend /\ platform # "line"
         \/ /\ sending'.chat = c
            /\ \/ platform = "telegram" /\ sending'.step = "forget" /\ sending'.item = kept[c]
               \/ platform = "line" /\ sending'.step = "reply" /\ sending'.item = kept[c]
               \/ /\ platform \notin {"telegram", "line"} /\ sending'.step = "call"
                  /\ sending'.item = 0 \/ (~Marks /\ sending'.item = kept[c])
  BY <1>1, SendStartFacts
<1>4. NoSend.step = "none" /\ NoSend.item = 0
  BY DEF NoSend
<1>5. /\ kept \in [ChatKeys -> 0 .. MaxArrivals] /\ 0 \in 0 .. MaxArrivals
      /\ \A d \in ChatKeys : d # c => kept'[d] = kept[d]
      /\ kept'[c] = IF platform = "line" THEN 0 ELSE kept[c]
  BY <1>1, <1>2, AdaptersAssumption DEF AdaptersType
<1>6. sending'.item = 0 \/ sending'.item = kept[c]
  BY <1>3, <1>4
<1>7. AdaptersType'
  <2>1. kept' \in [ChatKeys -> 0 .. MaxArrivals]
    BY <1>2, <1>5
  <2>2. sends' \in 0 .. MaxSends
    BY <1>1, <1>2, AdaptersAssumption DEF AdaptersType
  <2> QED
    BY <1>1, <1>2, <1>3, <2>1, <2>2 DEF AdaptersType
<1>8. InboundKept'
  BY <1>1, <1>2 DEF InboundKept
<1>9. NumbersKept'
  <2>1. arrived >= 0 /\ arrived \in Nat
    BY <1>1 DEF AdaptersType
  <2>2. sending'.item <= arrived
    BY <1>1, <1>6, <2>1 DEF NumbersKept
  <2>3. \A d \in ChatKeys : kept'[d] <= arrived
    BY <1>1, <1>5, <2>1 DEF NumbersKept
  <2> QED
    BY <1>1, <1>2, <2>2, <2>3 DEF NumbersKept
<1>10. SendKept'
  BY <1>1, <1>2, <1>3, <1>4 DEF SendKept, Marks
<1>11. UsesKept'
  <2>1. \A h \in handlers : h.n # 0
    BY <1>1, AdaptersAssumption DEF AdaptersType, HandlerSet, Numbers
  <2>2. \A h \in handlers : h.step # "publish" =>
          uses[h.n] = 0 /\ sending'.item # h.n /\ \A d \in ChatKeys : kept'[d] # h.n
    BY <1>1, <1>5, <1>6, <2>1 DEF UsesKept
  <2>3. \A d \in ChatKeys : kept'[d] # 0 => uses[kept'[d]] = 0
    BY <1>1, <1>5 DEF UsesKept
  <2>4. \A d, b \in ChatKeys : d # b /\ kept'[d] = kept'[b] => kept'[d] = 0
    BY <1>1, <1>5 DEF UsesKept
  <2>5. ASSUME sending'.step \in {"forget", "edit", "reply"}, sending'.item # 0
        PROVE  /\ uses[sending'.item] = 0
               /\ \A d \in ChatKeys : kept'[d] = sending'.item => sending'.step = "forget" /\ d = sending'.chat
    <3>1. /\ sending'.chat = c /\ sending'.item = kept[c]
          /\ platform = "line" \/ (platform = "telegram" /\ sending'.step = "forget")
      BY <1>3, <1>4, <2>5
    <3>2. uses[kept[c]] = 0
      BY <1>1, <2>5, <3>1 DEF UsesKept
    <3>3. \A d \in ChatKeys : d # c => kept'[d] # kept[c]
      BY <1>1, <1>5, <2>5, <3>1 DEF UsesKept
    <3> QED
      BY <1>5, <2>5, <3>1, <3>2, <3>3
  <2> QED
    BY <1>1, <1>2, <2>2, <2>3, <2>4, <2>5 DEF UsesKept
<1>12. MarksKept'
  <2>1. platform = "line" => marks = {}
    BY <1>1 DEF MarksKept, Marks
  <2>2. sending.step = "none"
    BY <1>2, <1>4
  <2>3. \A n \in marks \ excused :
         \/ \E h \in handlers : h.n = n /\ h.step = "keep"
         \/ \E d \in ChatKeys : kept'[d] = n
    BY <1>1, <1>2, <2>1, <2>2 DEF MarksKept
  <2>4. Marks /\ sending'.step \in {"call", "plain", "ack"} => sending'.item = 0
    BY <1>3, <1>4 DEF Marks
  <2>5. ~Marks => marks = {}
    BY <1>1 DEF MarksKept
  <2> QED
    BY <1>2, <2>3, <2>4, <2>5 DEF MarksKept, Marks
<1> QED
  BY <1>7, <1>8, <1>9, <1>10, <1>11, <1>12 DEF MarkInv

LEMMA ForgetStep ==
    ASSUME MarkInv, TelegramForget
    PROVE  MarkInv'
<1>1. AdaptersType /\ InboundKept /\ NumbersKept /\ SendKept /\ UsesKept /\ MarksKept
  BY DEF MarkInv
<1>2. /\ UNCHANGED <<platform, arrived, handlers, inbound, sends, late, marks, apiFaults, uses>>
      /\ sending.step = "forget"
      /\ \/ /\ sending.item = 0 /\ sending' = [sending EXCEPT !.step = "call"]
            /\ UNCHANGED <<kept, excused>>
         \/ /\ sending.item # 0 /\ sending' = [sending EXCEPT !.step = "edit"]
            /\ kept' = [kept EXCEPT ![sending.chat] = 0]
            /\ excused' = excused \cup ({kept[sending.chat]} \ {0, sending.item})
  BY DEF TelegramForget, GoesOn, inboundVars
<1>3. /\ sending.chat \in ChatKeys /\ platform = "telegram"
      /\ kept \in [ChatKeys -> 0 .. MaxArrivals] /\ sending \in SendSet /\ 0 \in 0 .. MaxArrivals
      /\ \A n \in 0 .. MaxArrivals : n # 0 => n \in Numbers
  BY <1>1, <1>2, AdaptersAssumption DEF AdaptersType, SendKept, Numbers
<1>4. /\ sending' \in SendSet /\ sending'.item = sending.item /\ sending'.chat = sending.chat
      /\ sending'.step = IF sending.item = 0 THEN "call" ELSE "edit"
  BY <1>2, <1>3 DEF SendSet
<1>5. /\ \A d \in ChatKeys : d # sending.chat => kept'[d] = kept[d]
      /\ kept'[sending.chat] = kept[sending.chat] \/ kept'[sending.chat] = 0
      /\ sending.item # 0 => kept'[sending.chat] = 0
      /\ kept' \in [ChatKeys -> 0 .. MaxArrivals]
  BY <1>2, <1>3
<1>6. AdaptersType'
  <2>1. excused' \subseteq Numbers
    BY <1>1, <1>2, <1>3 DEF AdaptersType
  <2> QED
    BY <1>1, <1>2, <1>4, <1>5, <2>1 DEF AdaptersType
<1>7. InboundKept'
  BY <1>1, <1>2 DEF InboundKept
<1>8. NumbersKept'
  <2>1. arrived \in Nat
    BY <1>1 DEF AdaptersType
  <2>2. \A d \in ChatKeys : kept'[d] <= arrived
    BY <1>1, <1>5, <2>1 DEF NumbersKept
  <2> QED
    BY <1>1, <1>2, <1>4, <2>2 DEF NumbersKept
<1>9. SendKept'
  BY <1>1, <1>2, <1>3, <1>4 DEF SendKept, Marks
<1>10. UsesKept'
  <2>1. \A h \in handlers : h.n # 0
    BY <1>1, AdaptersAssumption DEF AdaptersType, HandlerSet, Numbers
  <2>2. \A h \in handlers : h.step # "publish" =>
          uses[h.n] = 0 /\ sending'.item # h.n /\ \A d \in ChatKeys : kept'[d] # h.n
    BY <1>1, <1>4, <1>5, <2>1 DEF UsesKept
  <2>3. \A d \in ChatKeys : kept'[d] # 0 => uses[kept'[d]] = 0
    BY <1>1, <1>5 DEF UsesKept
  <2>4. \A d, b \in ChatKeys : d # b /\ kept'[d] = kept'[b] => kept'[d] = 0
    BY <1>1, <1>5 DEF UsesKept
  <2>5. ASSUME sending.item # 0
        PROVE  uses[sending.item] = 0 /\ \A d \in ChatKeys : kept'[d] # sending.item
    BY <1>1, <1>2, <1>5, <2>5 DEF UsesKept
  <2> QED
    BY <1>1, <1>2, <1>4, <2>2, <2>3, <2>4, <2>5 DEF UsesKept
<1>11. MarksKept'
  <2>1. ASSUME NEW n \in marks \ excused'
        PROVE  \/ \E g \in handlers : g.n = n /\ g.step = "keep"
               \/ \E c \in ChatKeys : kept'[c] = n
               \/ sending.item = n /\ sending'.step = "edit"
    <3>1. n \in marks \ excused /\ n # 0
      BY <1>1, <1>2, <2>1, AdaptersAssumption DEF AdaptersType, Numbers
    <3>2. CASE \E c \in ChatKeys : kept[c] = n
      BY <1>2, <1>4, <1>5, <2>1, <3>1, <3>2
    <3>3. CASE sending.item = n
      BY <1>4, <3>1, <3>3
    <3> QED
      BY <1>1, <3>1, <3>2, <3>3 DEF MarksKept
  <2>2. sending'.step \in {"call", "plain", "ack"} => sending'.item = 0
    BY <1>4
  <2> QED
    BY <1>1, <1>2, <1>3, <1>4, <2>1, <2>2 DEF MarksKept, Marks
<1> QED
  BY <1>6, <1>7, <1>8, <1>9, <1>10, <1>11 DEF MarkInv

LEMMA EditStep ==
    ASSUME MarkInv, TelegramEdit
    PROVE  MarkInv'
<1>1. AdaptersType /\ InboundKept /\ NumbersKept /\ SendKept /\ UsesKept /\ MarksKept
  BY DEF MarkInv
<1> DEFINE i == sending.item
<1>2. /\ UNCHANGED <<platform, arrived, handlers, inbound, sends, late, kept>>
      /\ sending.step = "edit" /\ uses' = [uses EXCEPT ![i] = @ + 1]
      /\ \/ marks' = marks \ {i} /\ sending' = NoSend /\ UNCHANGED <<apiFaults, excused>>
         \/ /\ ApiFault /\ excused' = excused \cup {i} /\ UNCHANGED marks
            /\ sending' = [sending EXCEPT !.step = "call"]
  BY DEF TelegramEdit, SendOver, GoesOn, inboundVars
<1>3. /\ i \in Numbers /\ i # 0 /\ i <= arrived /\ uses[i] = 0 /\ platform = "telegram" /\ sending.chat \in ChatKeys
      /\ \A c \in ChatKeys : kept[c] # i
  BY <1>1, <1>2, AdaptersAssumption DEF AdaptersType, SendSet, SendKept, UsesKept, NumbersKept, Numbers
<1>4. uses' \in [Numbers -> Nat] /\ uses'[i] = 1 /\ \A n \in Numbers : n # i => uses'[n] = uses[n]
  BY <1>1, <1>2, <1>3 DEF AdaptersType
<1>5. /\ sending' \in SendSet
      /\ sending' = NoSend \/ (sending'.step = "call" /\ sending'.item = i /\ i \in excused' /\ sending'.chat \in ChatKeys)
      /\ NoSend.item = 0 /\ NoSend.step = "none"
  <2>1. NoSend \in SendSet /\ NoSend.item = 0 /\ NoSend.step = "none"
    BY AdaptersAssumption DEF NoSend, SendSet
  <2>2. /\ [sending EXCEPT !.step = "call"] \in SendSet /\ [sending EXCEPT !.step = "call"].step = "call"
        /\ [sending EXCEPT !.step = "call"].item = i /\ [sending EXCEPT !.step = "call"].chat = sending.chat
    BY <1>1 DEF AdaptersType, SendSet
  <2> HIDE DEF i
  <2> QED
    BY <1>2, <1>3, <2>1, <2>2
<1> HIDE DEF i
<1>6. AdaptersType'
  <2>1. marks' \subseteq Numbers /\ excused' \subseteq Numbers
    BY <1>1, <1>2, <1>3 DEF AdaptersType
  <2>2. apiFaults' \in 0 .. MaxApiFaults
    BY <1>1, <1>2, ApiFaultType DEF AdaptersType
  <2> QED
    BY <1>1, <1>2, <1>4, <1>5, <2>1, <2>2 DEF AdaptersType
<1>7. InboundKept'
  BY <1>1, <1>2 DEF InboundKept
<1>8. NumbersKept'
  <2>1. arrived \in Nat /\ i \in Nat
    BY <1>1, <1>3 DEF AdaptersType, Numbers
  <2>2. sending'.item <= arrived
    BY <1>3, <1>5, <2>1
  <2>3. \A n \in Numbers : n > arrived => uses'[n] = 0
    BY <1>1, <1>3, <1>4, <2>1 DEF NumbersKept, Numbers
  <2> QED
    BY <1>1, <1>2, <2>2, <2>3 DEF NumbersKept
<1>9. SendKept'
  BY <1>1, <1>2, <1>5 DEF SendKept, Marks
<1>10. UsesKept'
  <2>1. ASSUME NEW h \in handlers, h.step # "publish"
        PROVE  uses'[h.n] = 0 /\ sending'.item # h.n /\ \A d \in ChatKeys : kept[d] # h.n
    <3>1. h.n \in Numbers /\ h.n # 0
      BY <1>1, AdaptersAssumption DEF AdaptersType, HandlerSet, Numbers
    <3>2. h.n # i /\ uses[h.n] = 0 /\ \A d \in ChatKeys : kept[d] # h.n
      BY <1>1, <2>1 DEF UsesKept, i
    <3> QED
      BY <1>4, <1>5, <3>1, <3>2
  <2>2. ASSUME NEW d \in ChatKeys, kept[d] # 0 PROVE uses'[kept[d]] = 0
    <3>1. kept[d] \in Numbers
      BY <1>1, <2>2, AdaptersAssumption DEF AdaptersType, Numbers
    <3> QED
      BY <1>1, <1>3, <1>4, <2>2, <3>1 DEF UsesKept
  <2>3. \A n \in Numbers : uses'[n] <= 1
    BY <1>1, <1>4 DEF UsesKept
  <2> QED
    BY <1>1, <1>2, <1>5, <2>1, <2>2, <2>3 DEF UsesKept
<1>11. MarksKept'
  <2>1. ASSUME NEW n \in marks' \ excused'
        PROVE  \/ \E g \in handlers : g.n = n /\ g.step = "keep"
               \/ \E c \in ChatKeys : kept[c] = n
    <3>1. n \in marks \ excused /\ n # i
      BY <1>2, <2>1
    <3> QED
      BY <1>1, <3>1 DEF MarksKept, i
  <2> QED
    BY <1>1, <1>2, <1>3, <1>5, <2>1 DEF MarksKept, Marks
<1> QED
  BY <1>6, <1>7, <1>8, <1>9, <1>10, <1>11 DEF MarkInv

LEMMA NoSendFacts == NoSend \in SendSet /\ NoSend.item = 0 /\ NoSend.step = "none"
BY AdaptersAssumption DEF NoSend, SendSet

LEMMA ReplyStep ==
    ASSUME MarkInv, LineReply
    PROVE  MarkInv'
<1>1. AdaptersType /\ InboundKept /\ NumbersKept /\ SendKept /\ UsesKept /\ MarksKept
  BY DEF MarkInv
<1> DEFINE i == sending.item
<1>2. /\ UNCHANGED <<platform, arrived, handlers, inbound, sends, late, kept, marks, excused>>
      /\ sending.step = "reply"
      /\ uses' = uses \/ (i # 0 /\ uses' = [uses EXCEPT ![i] = @ + 1])
      /\ UNCHANGED apiFaults \/ ApiFault
      /\ sending' = NoSend \/ sending' = [sending EXCEPT !.step = "call"]
  BY DEF LineReply, SendOver, GoesOn, inboundVars
<1>3. /\ platform = "line" /\ sending.chat \in ChatKeys /\ i \in 0 .. MaxArrivals /\ i <= arrived
      /\ i # 0 => i \in Numbers /\ uses[i] = 0 /\ \A c \in ChatKeys : kept[c] # i
  BY <1>1, <1>2, AdaptersAssumption DEF AdaptersType, SendSet, SendKept, UsesKept, NumbersKept, Numbers
<1>4. /\ uses' \in [Numbers -> Nat] /\ (i # 0 => uses'[i] = 0 \/ uses'[i] = 1)
      /\ \A n \in Numbers : n # i => uses'[n] = uses[n]
  BY <1>1, <1>2, <1>3 DEF AdaptersType
<1>5. /\ sending' \in SendSet
      /\ sending' = NoSend \/ (sending'.step = "call" /\ sending'.item = i /\ sending'.chat \in ChatKeys)
  <2>1. /\ [sending EXCEPT !.step = "call"] \in SendSet /\ [sending EXCEPT !.step = "call"].step = "call"
        /\ [sending EXCEPT !.step = "call"].item = i /\ [sending EXCEPT !.step = "call"].chat = sending.chat
    BY <1>1 DEF AdaptersType, SendSet
  <2> HIDE DEF i
  <2> QED
    BY <1>2, <1>3, <2>1, NoSendFacts
<1> HIDE DEF i
<1>6. AdaptersType'
  <2>1. apiFaults' \in 0 .. MaxApiFaults
    BY <1>1, <1>2, ApiFaultType DEF AdaptersType
  <2> QED
    BY <1>1, <1>2, <1>4, <1>5, <2>1 DEF AdaptersType
<1>7. InboundKept'
  BY <1>1, <1>2 DEF InboundKept
<1>8. NumbersKept'
  <2>1. arrived \in Nat /\ i \in Nat
    BY <1>1, <1>3 DEF AdaptersType
  <2>2. sending'.item <= arrived
    BY <1>3, <1>5, <2>1, NoSendFacts
  <2>3. \A n \in Numbers : n > arrived => uses'[n] = 0
    BY <1>1, <1>3, <1>4, <2>1 DEF NumbersKept, Numbers
  <2> QED
    BY <1>1, <1>2, <2>2, <2>3 DEF NumbersKept
<1>9. SendKept'
  BY <1>1, <1>2, <1>5, NoSendFacts DEF SendKept, Marks
<1>10. UsesKept'
  <2>1. ASSUME NEW h \in handlers, h.step # "publish"
        PROVE  uses'[h.n] = 0 /\ sending'.item # h.n /\ \A d \in ChatKeys : kept[d] # h.n
    <3>1. h.n \in Numbers /\ h.n # 0
      BY <1>1, AdaptersAssumption DEF AdaptersType, HandlerSet, Numbers
    <3>2. h.n # i /\ uses[h.n] = 0 /\ \A d \in ChatKeys : kept[d] # h.n
      BY <1>1, <2>1 DEF UsesKept, i
    <3> QED
      BY <1>4, <1>5, <3>1, <3>2, NoSendFacts
  <2>2. ASSUME NEW d \in ChatKeys, kept[d] # 0 PROVE uses'[kept[d]] = 0
    <3>1. kept[d] \in Numbers
      BY <1>1, <2>2, AdaptersAssumption DEF AdaptersType, Numbers
    <3> QED
      BY <1>1, <1>3, <1>4, <2>2, <3>1 DEF UsesKept
  <2>3. \A n \in Numbers : uses'[n] <= 1
    <3>1. i \in Numbers => i # 0
      BY AdaptersAssumption DEF Numbers
    <3> QED
      BY <1>1, <1>4, <3>1 DEF UsesKept
  <2> QED
    BY <1>1, <1>2, <1>5, <2>1, <2>2, <2>3, NoSendFacts DEF UsesKept
<1>11. MarksKept'
  BY <1>1, <1>2, <1>3 DEF MarksKept, Marks
<1> QED
  BY <1>6, <1>7, <1>8, <1>9, <1>10, <1>11 DEF MarkInv

\* The call goes out, or a call that was given up ends.
LEMMA SentStep ==
    ASSUME MarkInv, SendCall \/ PlainCall \/ DiscordLate
    PROVE  MarkInv'
<1>1. AdaptersType /\ InboundKept /\ NumbersKept /\ SendKept /\ UsesKept /\ MarksKept
  BY DEF MarkInv
<1>2. /\ UNCHANGED <<platform, arrived, handlers, inbound, sends, kept, marks, uses, excused>>
      /\ UNCHANGED apiFaults \/ ApiFault
      /\ late' = late \/ late' = FALSE \/ late' = (late \/ platform = "discord")
      /\ \/ sending' = sending
         \/ sending.step \in {"call", "plain"} /\ sending' = NoSend
         \/ sending.step = "call" /\ platform = "slack" /\ sending' = [sending EXCEPT !.step = "ack"]
         \/ sending.step = "call" /\ platform = "telegram" /\ sending' = [sending EXCEPT !.step = "plain"]
  BY DEF SendCall, PlainCall, DiscordLate, SendOver, GoesOn, inboundVars
<1>3. /\ sending' \in SendSet
      /\ \/ sending' = sending
         \/ sending' = NoSend
         \/ /\ sending.step = "call" /\ sending'.item = sending.item /\ sending'.chat = sending.chat
            /\ (platform = "slack" /\ sending'.step = "ack") \/ (platform = "telegram" /\ sending'.step = "plain")
  <2>1. \A s \in {"ack", "plain"} :
          /\ [sending EXCEPT !.step = s] \in SendSet /\ [sending EXCEPT !.step = s].step = s
          /\ [sending EXCEPT !.step = s].item = sending.item /\ [sending EXCEPT !.step = s].chat = sending.chat
    BY <1>1 DEF AdaptersType, SendSet
  <2>2. sending \in SendSet
    BY <1>1 DEF AdaptersType
  <2> QED
    BY <1>2, <2>1, <2>2, NoSendFacts
<1>4. sending'.item = sending.item \/ sending'.item = 0
  BY <1>3, NoSendFacts
<1>5. AdaptersType'
  <2>1. apiFaults' \in 0 .. MaxApiFaults /\ late' \in BOOLEAN
    BY <1>1, <1>2, ApiFaultType DEF AdaptersType
  <2> QED
    BY <1>1, <1>2, <1>3, <2>1 DEF AdaptersType
<1>6. InboundKept'
  BY <1>1, <1>2 DEF InboundKept
<1>7. NumbersKept'
  <2>1. arrived \in Nat
    BY <1>1 DEF AdaptersType
  <2> QED
    BY <1>1, <1>2, <1>4, <2>1 DEF NumbersKept
<1>8. SendKept'
  <2>1. CASE sending' = sending
    BY <1>1, <1>2, <2>1 DEF SendKept, Marks
  <2>2. CASE sending' = NoSend
    BY <1>1, <1>2, <2>2, NoSendFacts DEF SendKept, Marks
  <2>3. CASE sending.step = "call" /\ sending'.chat = sending.chat
             /\ ((platform = "slack" /\ sending'.step = "ack") \/ (platform = "telegram" /\ sending'.step = "plain"))
    BY <1>1, <1>2, <2>3 DEF SendKept, Marks
  <2> QED
    BY <1>3, <2>1, <2>2, <2>3
<1>9. UsesKept'
  <2>1. \A h \in handlers : h.n # 0
    BY <1>1, AdaptersAssumption DEF AdaptersType, HandlerSet, Numbers
  <2>2. \A h \in handlers : h.step # "publish" =>
          uses[h.n] = 0 /\ sending'.item # h.n /\ \A d \in ChatKeys : kept[d] # h.n
    BY <1>1, <1>4, <2>1 DEF UsesKept
  <2>3. sending'.step \in {"forget", "edit", "reply"} => sending' = sending
    BY <1>3, NoSendFacts
  <2> QED
    BY <1>1, <1>2, <2>2, <2>3 DEF UsesKept
<1>10. MarksKept'
  <2>1. sending.step \in {"forget", "edit"} => sending' = sending
    BY <1>2
  <2>2. Marks /\ sending'.step \in {"call", "plain", "ack"} => sending'.item = 0 \/ sending'.item \in excused
    BY <1>1, <1>3, <1>4, NoSendFacts DEF MarksKept
  <2> QED
    BY <1>1, <1>2, <2>1, <2>2 DEF MarksKept, Marks
<1> QED
  BY <1>5, <1>6, <1>7, <1>8, <1>9, <1>10 DEF MarkInv

LEMMA AckStep ==
    ASSUME MarkInv, SlackAck
    PROVE  MarkInv'
<1>1. AdaptersType /\ InboundKept /\ NumbersKept /\ SendKept /\ UsesKept /\ MarksKept
  BY DEF MarkInv
<1> DEFINE c == sending.chat
           n == kept[c]
<1>2. /\ UNCHANGED <<platform, arrived, handlers, inbound, sends, late>>
      /\ sending.step = "ack" /\ sending' = NoSend
      /\ \/ n = 0 /\ UNCHANGED <<kept, marks, uses, apiFaults, excused>>
         \/ /\ n # 0 /\ kept' = [kept EXCEPT ![c] = 0] /\ uses' = [uses EXCEPT ![n] = @ + 1]
            /\ \/ marks' = marks \ {n} /\ UNCHANGED <<apiFaults, excused>>
               \/ ApiFault /\ excused' = excused \cup {n} /\ UNCHANGED marks
  BY DEF SlackAck, SendOver, inboundVars
<1>3. c \in ChatKeys /\ n \in 0 .. MaxArrivals /\ n <= arrived /\ (n # 0 => n \in Numbers /\ uses[n] = 0)
  BY <1>1, <1>2, AdaptersAssumption DEF AdaptersType, SendKept, UsesKept, NumbersKept, Numbers
<1>4. /\ uses' \in [Numbers -> Nat]
      /\ \A m \in Numbers : m # n => uses'[m] = uses[m]
      /\ n # 0 => uses'[n] = 1
      /\ kept' \in [ChatKeys -> 0 .. MaxArrivals] /\ kept'[c] = 0
      /\ \A d \in ChatKeys : d # c => kept'[d] = kept[d]
  <2>1. kept \in [ChatKeys -> 0 .. MaxArrivals] /\ uses \in [Numbers -> Nat] /\ 0 \in 0 .. MaxArrivals
    BY <1>1, AdaptersAssumption DEF AdaptersType
  <2>2. CASE n = 0 /\ UNCHANGED <<kept, uses>>
    BY <1>3, <2>1, <2>2
  <2>3. CASE n # 0 /\ kept' = [kept EXCEPT ![c] = 0] /\ uses' = [uses EXCEPT ![n] = @ + 1]
    <3> HIDE DEF n
    <3> QED
      BY <1>3, <2>1, <2>3
  <2> QED
    BY <1>2, <2>2, <2>3
<1>5. \A d \in ChatKeys : d # c /\ kept[d] = n => n = 0
  BY <1>1, <1>3 DEF UsesKept
<1>6. \A m \in marks' \ excused' : m \in marks \ excused /\ (n # 0 => m # n)
  BY <1>2
<1>7. \A m \in Numbers : m # 0
  BY AdaptersAssumption DEF Numbers
<1>8. marks' \subseteq Numbers /\ excused' \subseteq Numbers /\ apiFaults' \in 0 .. MaxApiFaults
  BY <1>1, <1>2, <1>3, ApiFaultType DEF AdaptersType
<1>9. \A h \in handlers : h.step # "publish" => h.n \in Numbers /\ uses[h.n] = 0 /\ \A d \in ChatKeys : kept[d] # h.n
  BY <1>1 DEF UsesKept, AdaptersType, HandlerSet
<1> HIDE DEF c
<1>10. AdaptersType'
  BY <1>1, <1>2, <1>4, <1>8, NoSendFacts DEF AdaptersType
<1>11. InboundKept'
  BY <1>1, <1>2 DEF InboundKept
<1>12. NumbersKept'
  <2>1. arrived \in Nat /\ n \in Nat
    BY <1>1, <1>3 DEF AdaptersType
  <2>2. \A d \in ChatKeys : kept'[d] <= arrived
    BY <1>1, <1>4, <2>1 DEF NumbersKept
  <2>3. \A m \in Numbers : m > arrived => uses'[m] = 0
    BY <1>1, <1>3, <1>4, <2>1 DEF NumbersKept, Numbers
  <2> QED
    BY <1>1, <1>2, <2>1, <2>2, <2>3, NoSendFacts DEF NumbersKept
<1>13. SendKept'
  BY <1>1, <1>2, NoSendFacts DEF SendKept, Marks
<1>14. UsesKept'
  <2>1. \A h \in handlers : h.step # "publish" =>
          uses'[h.n] = 0 /\ sending'.item # h.n /\ \A d \in ChatKeys : kept'[d] # h.n
    <3> SUFFICES ASSUME NEW h \in handlers, h.step # "publish"
                 PROVE  uses'[h.n] = 0 /\ sending'.item # h.n /\ \A d \in ChatKeys : kept'[d] # h.n
      OBVIOUS
    <3>1. h.n \in Numbers /\ h.n # 0 /\ h.n # n /\ uses[h.n] = 0 /\ \A d \in ChatKeys : kept[d] # h.n
      BY <1>3, <1>7, <1>9
    <3> QED
      BY <1>2, <1>4, <3>1, NoSendFacts
  <2>2. ASSUME NEW d \in ChatKeys, kept'[d] # 0 PROVE uses'[kept'[d]] = 0
    <3>1. d # c /\ kept'[d] = kept[d]
      BY <1>4, <2>2
    <3>2. kept[d] # n /\ kept[d] \in Numbers
      BY <1>1, <1>5, <2>2, <3>1, AdaptersAssumption DEF AdaptersType, Numbers
    <3> QED
      BY <1>1, <1>4, <2>2, <3>1, <3>2 DEF UsesKept
  <2>3. \A d, b \in ChatKeys : d # b /\ kept'[d] = kept'[b] => kept'[d] = 0
    BY <1>1, <1>4 DEF UsesKept
  <2>4. \A m \in Numbers : uses'[m] <= 1
    BY <1>1, <1>4, <1>7 DEF UsesKept
  <2> QED
    BY <1>2, <2>1, <2>2, <2>3, <2>4, NoSendFacts DEF UsesKept
<1>15. MarksKept'
  <2>1. ASSUME NEW m \in marks' \ excused'
        PROVE  \/ \E g \in handlers : g.n = m /\ g.step = "keep"
               \/ \E d \in ChatKeys : kept'[d] = m
    <3>1. m \in marks \ excused /\ m # n
      BY <1>1, <1>6, <1>7, <2>1 DEF AdaptersType
    <3>2. ASSUME NEW d \in ChatKeys, kept[d] = m PROVE kept'[d] = m
      BY <1>4, <3>1, <3>2
    <3>3. sending.step = "ack"
      BY <1>2
    <3> QED
      BY <1>1, <3>1, <3>2, <3>3 DEF MarksKept
  <2>2. ~Marks => marks' = {}
    BY <1>1, <1>2 DEF MarksKept
  <2> QED
    BY <1>2, <2>1, <2>2, NoSendFacts DEF MarksKept, Marks
<1> QED
  BY <1>10, <1>11, <1>12, <1>13, <1>14, <1>15 DEF MarkInv

LEMMA InitMarks == AdaptersInit => MarkInv
<1> SUFFICES ASSUME AdaptersInit PROVE MarkInv
  OBVIOUS
<1>1. /\ platform \in AllPlatforms /\ arrived = 0 /\ handlers = {} /\ kept = [c \in ChatKeys |-> 0] /\ marks = {}
      /\ inbound = 0 /\ sending = NoSend /\ sends = 0 /\ late = FALSE /\ apiFaults = 0
      /\ uses = [n \in Numbers |-> 0] /\ excused = {}
  BY DEF AdaptersInit
<1>2. AdaptersType
  <2>1. 0 \in 0 .. MaxArrivals /\ 0 \in 0 .. MaxSends /\ 0 \in 0 .. MaxApiFaults
    BY AdaptersAssumption
  <2> QED
    BY <1>1, <2>1, NoSendFacts DEF AdaptersType
<1>3. InboundKept
  BY <1>1, FS_EmptySet DEF InboundKept
<1>4. NumbersKept
  BY <1>1, NoSendFacts DEF NumbersKept
<1>5. SendKept /\ MarksKept
  BY <1>1, NoSendFacts DEF SendKept, MarksKept
<1>6. UsesKept
  BY <1>1, NoSendFacts DEF UsesKept
<1> QED
  BY <1>2, <1>3, <1>4, <1>5, <1>6 DEF MarkInv

LEMMA StepMarks == MarkInv /\ [AdaptersNext]_adapterVars => MarkInv'
<1> SUFFICES ASSUME MarkInv, [AdaptersNext]_adapterVars PROVE MarkInv'
  OBVIOUS
<1>1. CASE AdaptersNext
  BY <1>1, ArriveStep, MarkStep, KeepStep, HandleMessageStep, SendStartStep, ForgetStep, EditStep, ReplyStep, SentStep,
     AckStep DEF AdaptersNext
<1>2. CASE UNCHANGED adapterVars
  BY <1>2 DEF adapterVars, MarkInv, AdaptersType, InboundKept, NumbersKept, SendKept, UsesKept, MarksKept, Marks
<1> QED
  BY <1>1, <1>2

LEMMA AlwaysMarks == AdaptersSpec => []MarkInv
BY InitMarks, StepMarks, PTL DEF AdaptersSpec

-----------------------------------------------------------------------------
\* What messages have met.

LEMMA InitReached == AdaptersInit => ReachedKept
<1> SUFFICES ASSUME AdaptersInit PROVE ReachedKept
  OBVIOUS
<1>1. /\ arrived = 0 /\ handlers = {} /\ kept = [c \in ChatKeys |-> 0] /\ sending = NoSend
      /\ sees = 0 /\ reached = {}
  BY DEF AdaptersInit
<1>2. 0 \in 0 .. MaxArrivals
  BY AdaptersAssumption
<1> QED
  BY <1>1, <1>2, NoSendFacts DEF ReachedKept

LEMMA ArriveReached ==
    ASSUME MarkInv, ReachedKept, NEW e \in PlatformEvents, NEW thread, NEW fetched, Arrive(e, fetched, thread)
    PROVE  ReachedKept'
<1>1. AdaptersType /\ NumbersKept
  BY DEF MarkInv
<1>2. /\ arrived' = arrived + 1
      /\ UNCHANGED <<platform, kept, sending, sees, reached>>
      /\ \/ handlers' = handlers
         \/ \E g \in HandlerSet : g.n = arrived + 1 /\ (g.step = "mark" => Marks) /\ handlers' = handlers \cup {g}
  BY <1>1, ArriveFacts DEF sendVars
<1>3. arrived \in Nat /\ sees \in Nat /\ sees <= arrived /\ \A n \in reached : n \in Nat /\ n <= arrived
  BY <1>1 DEF AdaptersType, ReachedKept, Numbers
<1>4. sees <= arrived + 1 /\ sees # arrived + 1 /\ arrived + 1 \notin reached /\ \A n \in reached : n <= arrived + 1
  BY <1>3
<1>5. \A h \in handlers' : h.step # "publish" => h.n \notin reached /\ h.n # sees
  BY <1>2, <1>4 DEF ReachedKept
<1> QED
  BY <1>2, <1>4, <1>5 DEF ReachedKept, Marks

LEMMA HandlerReached ==
    ASSUME MarkInv, ReachedKept, NEW h \in handlers, Mark(h) \/ Keep(h) \/ HandleMessage(h)
    PROVE  ReachedKept'
<1>1. AdaptersType /\ InboundKept /\ NumbersKept
  BY DEF MarkInv
<1>2. UNCHANGED <<platform, arrived, sending, sees, reached>>
  BY DEF Mark, Keep, HandleMessage, sendVars
<1>3. ASSUME NEW to \in {"keep", "publish"}, Stepped(h, to), h.step # "publish"
      PROVE  \A g \in handlers' : g.step # "publish" => g.n \notin reached /\ g.n # sees
  <2>1. \A g \in handlers' : g \in handlers \/ (g.n = h.n)
    <3>1. [h EXCEPT !.step = to].n = h.n
      BY <1>1 DEF AdaptersType, HandlerSet
    <3> QED
      BY <1>3, <3>1 DEF Stepped
  <2> QED
    BY <1>3, <2>1 DEF ReachedKept
<1>4. CASE Mark(h)
  <2>1. /\ \E to \in {"keep", "publish"} : Stepped(h, to)
        /\ h.step # "publish" /\ kept' = kept
    BY <1>4 DEF Mark
  <2> QED
    BY <1>2, <1>3, <2>1 DEF ReachedKept, Marks
<1>5. CASE Keep(h)
  <2>1. h.step = "keep" /\ Stepped(h, "publish") /\ kept' = [kept EXCEPT ![h.chat] = h.n]
    BY <1>5 DEF Keep
  <2>2. h.chat \in ChatKeys /\ kept \in [ChatKeys -> 0 .. MaxArrivals]
    BY <1>1 DEF AdaptersType, HandlerSet
  <2>3. \A c \in ChatKeys : kept'[c] = kept[c] \/ kept'[c] = h.n
    BY <2>1, <2>2
  <2>4. h.n \notin reached /\ h.n # sees
    BY <2>1 DEF ReachedKept
  <2>5. \A c \in ChatKeys : kept'[c] # 0 => kept'[c] \notin reached
    BY <2>3, <2>4 DEF ReachedKept
  <2>6. \A c \in ChatKeys : kept'[c] # 0 /\ kept'[c] = sees =>
          /\ c = sending.chat /\ sending.step \in {"forget", "call", "ack"}
          /\ platform = "telegram" => sending.step = "forget"
    BY <2>3, <2>4 DEF ReachedKept
  <2> QED
    BY <1>2, <1>3, <2>1, <2>5, <2>6 DEF ReachedKept, Marks
<1>6. CASE HandleMessage(h)
  <2>1. handlers' \subseteq handlers /\ kept' = kept
    BY <1>6 DEF HandleMessage
  <2> QED
    BY <1>2, <2>1 DEF ReachedKept, Marks
<1> QED
  BY <1>4, <1>5, <1>6

LEMMA StartReached ==
    ASSUME MarkInv, ReachedKept, NEW c \in ChatKeys, SendStart(c)
    PROVE  ReachedKept'
<1>1. AdaptersType /\ NumbersKept /\ UsesKept
  BY DEF MarkInv
<1>2. /\ UNCHANGED <<platform, arrived, handlers, reached>>
      /\ sees' = IF Marks THEN kept[c] ELSE 0
      /\ sending' \in SendOf(c)
      /\ kept' = IF platform = "line" THEN [kept EXCEPT ![c] = 0] ELSE kept
  BY DEF SendStart, inboundVars
<1>3. kept \in [ChatKeys -> 0 .. MaxArrivals] /\ 0 \in 0 .. MaxArrivals /\ arrived \in Nat /\ kept[c] <= arrived
  BY <1>1, AdaptersAssumption DEF AdaptersType, NumbersKept
<1>4. \A d \in ChatKeys : kept'[d] = kept[d] \/ kept'[d] = 0
  BY <1>2, <1>3
<1>5. sees' \in 0 .. MaxArrivals /\ sees' <= arrived /\ (sees' # 0 => Marks /\ sees' = kept[c])
  BY <1>2, <1>3
<1>6. \A h \in handlers : h.step # "publish" => h.n # sees'
  <2>1. \A h \in handlers : h.n # 0
    BY <1>1, AdaptersAssumption DEF AdaptersType, HandlerSet, Numbers
  <2> QED
    BY <1>1, <1>5, <2>1 DEF UsesKept
<1>7. Marks => /\ sending'.chat = c
               /\ platform = "telegram" => sending'.step = "forget" /\ sending'.item = kept[c]
               /\ platform = "slack" => sending'.step = "call"
  BY <1>2 DEF Marks, SendOf, TelegramSend, SlackSend, Calls
<1>8. \A d \in ChatKeys : kept'[d] # 0 /\ kept'[d] = sees' =>
          /\ d = sending'.chat /\ sending'.step \in {"forget", "call", "ack"}
          /\ platform = "telegram" => sending'.step = "forget"
  <2> SUFFICES ASSUME NEW d \in ChatKeys, kept'[d] # 0, kept'[d] = sees'
               PROVE  /\ d = sending'.chat /\ sending'.step \in {"forget", "call", "ack"}
                      /\ platform = "telegram" => sending'.step = "forget"
    OBVIOUS
  <2>1. Marks /\ kept[d] = kept[c] /\ kept[d] # 0
    BY <1>4, <1>5
  <2>2. d = c
    BY <1>1, <2>1 DEF UsesKept
  <2> QED
    BY <1>7, <2>1, <2>2 DEF Marks
<1>9. sending'.step = "forget" => sees' = sending'.item
  <2>1. sending'.step = "forget" => platform = "telegram"
    <3>1. MarkInv'
      BY SendStartStep
    <3> QED
      BY <1>2, <3>1 DEF MarkInv, SendKept
  <2> QED
    BY <1>2, <1>7, <2>1 DEF Marks
<1> QED
  BY <1>2, <1>4, <1>5, <1>6, <1>8, <1>9 DEF ReachedKept, Marks

\* A Send ends; if it got there, no chat keeps what was shown.
LEMMA OverReached ==
    ASSUME MarkInv, ReachedKept, NEW there \in BOOLEAN, SendOver(there), UNCHANGED <<platform, arrived, handlers>>,
           \A c \in ChatKeys : kept'[c] = kept[c] \/ kept'[c] = 0,
           there /\ sees # 0 => \A c \in ChatKeys : kept'[c] # sees
    PROVE  ReachedKept'
<1>1. /\ sending' = NoSend /\ sees' = 0
      /\ reached' = IF there THEN reached \cup ({sees} \ {0}) ELSE reached
  BY DEF SendOver
<1>2. 0 \in 0 .. MaxArrivals /\ arrived \in Nat /\ 0 <= arrived
  BY AdaptersAssumption DEF MarkInv, AdaptersType
<1>3. \A n \in reached' : n \in reached \/ (n = sees /\ sees # 0 /\ there)
  BY <1>1
<1>4. \A n \in reached' : n \in Numbers /\ n <= arrived
  <2>1. sees # 0 => sees \in Numbers
    BY AdaptersAssumption DEF ReachedKept, Numbers
  <2> QED
    BY <1>3, <2>1 DEF ReachedKept
<1>5. \A c \in ChatKeys : kept'[c] # 0 => kept'[c] \notin reached'
  BY <1>3 DEF ReachedKept
<1>6. \A h \in handlers : h.step # "publish" => h.n \notin reached' /\ h.n # 0
  <2>1. \A h \in handlers : h.n # 0
    BY AdaptersAssumption DEF MarkInv, AdaptersType, HandlerSet, Numbers
  <2> QED
    BY <1>3, <2>1 DEF ReachedKept
<1> QED
  BY <1>1, <1>2, <1>4, <1>5, <1>6, NoSendFacts DEF ReachedKept

\* A Send goes on, and keeps its chat.
LEMMA OnReached ==
    ASSUME MarkInv, ReachedKept, NEW to \in {"edit", "call", "plain", "ack"}, GoesOn(to),
           UNCHANGED <<platform, arrived, handlers>>,
           \A c \in ChatKeys : kept'[c] = kept[c] \/ kept'[c] = 0,
           platform = "slack" => sending.step = "call" /\ to = "ack",
           platform = "telegram" /\ sees # 0 => \A c \in ChatKeys : kept'[c] # sees
    PROVE  ReachedKept'
<1>1. sending' = [sending EXCEPT !.step = to] /\ UNCHANGED <<sees, reached>>
  BY DEF GoesOn
<1>2. sending \in SendSet
  BY DEF MarkInv, AdaptersType
<1>3. sending'.step = to /\ sending'.chat = sending.chat
  BY <1>1, <1>2 DEF SendSet
<1>4. \A c \in ChatKeys : kept'[c] # 0 => kept'[c] = kept[c]
  OBVIOUS
<1>5. \A c \in ChatKeys : kept'[c] # 0 /\ kept'[c] = sees =>
          /\ c = sending'.chat /\ sending'.step \in {"forget", "call", "ack"}
          /\ platform = "telegram" => sending'.step = "forget"
  <2> SUFFICES ASSUME NEW c \in ChatKeys, kept'[c] # 0, kept'[c] = sees
               PROVE  /\ c = sending'.chat /\ sending'.step \in {"forget", "call", "ack"}
                      /\ platform # "telegram"
    OBVIOUS
  <2>1. c = sending.chat /\ Marks
    BY <1>4 DEF ReachedKept
  <2>2. platform = "slack"
    BY <2>1 DEF Marks
  <2> QED
    BY <1>3, <2>1, <2>2
<1>6. /\ UNCHANGED Marks
      /\ \A c \in ChatKeys : kept'[c] # 0 => kept'[c] \notin reached
  BY <1>4 DEF ReachedKept, Marks
<1> QED
  BY <1>1, <1>3, <1>5, <1>6 DEF ReachedKept

\* On Telegram no chat keeps what was shown once the Send has forgotten it.
LEMMA ForgottenReached ==
    ASSUME ReachedKept, platform = "telegram", sending.step # "forget"
    PROVE  sees # 0 => \A c \in ChatKeys : kept[c] # sees
BY DEF ReachedKept

LEMMA SendReached ==
    ASSUME MarkInv, ReachedKept,
           TelegramForget \/ TelegramEdit \/ LineReply \/ SendCall \/ PlainCall \/ DiscordLate \/ SlackAck
    PROVE  ReachedKept'
<1>1. AdaptersType /\ SendKept /\ UsesKept
  BY DEF MarkInv
<1>2. UNCHANGED <<platform, arrived, handlers>>
  BY DEF TelegramForget, TelegramEdit, LineReply, SendCall, PlainCall, DiscordLate, SlackAck, inboundVars
<1>3. kept \in [ChatKeys -> 0 .. MaxArrivals]
  BY <1>1 DEF AdaptersType
<1>4. CASE TelegramForget
  <2>1. sending.step = "forget" /\ platform = "telegram" /\ sending.chat \in ChatKeys /\ sees = sending.item
    BY <1>1, <1>4 DEF TelegramForget, SendKept, ReachedKept
  <2>2. CASE sending.item = 0 /\ GoesOn("call") /\ kept' = kept
    BY <1>2, <2>1, <2>2, OnReached
  <2>3. CASE sending.item # 0 /\ GoesOn("edit") /\ kept' = [kept EXCEPT ![sending.chat] = 0]
    <3>1. \A c \in ChatKeys : kept'[c] = IF c = sending.chat THEN 0 ELSE kept[c]
      BY <1>3, <2>1, <2>3
    <3>2. \A c \in ChatKeys : kept'[c] # sees
      BY <2>1, <2>3, <3>1 DEF ReachedKept
    <3> QED
      BY <1>2, <2>1, <2>3, <3>1, <3>2, OnReached
  <2> QED
    BY <1>4, <2>2, <2>3 DEF TelegramForget
<1>5. CASE TelegramEdit
  <2>1. sending.step = "edit" /\ platform = "telegram" /\ kept' = kept /\ (SendOver(TRUE) \/ GoesOn("call"))
    BY <1>1, <1>5 DEF TelegramEdit, SendKept
  <2>2. sees # 0 => \A c \in ChatKeys : kept'[c] # sees
    BY <2>1, ForgottenReached
  <2> QED
    BY <1>2, <2>1, <2>2, OverReached, OnReached
<1>6. CASE LineReply
  <2>1. sending.step = "reply" /\ platform = "line" /\ kept' = kept /\ (SendOver(TRUE) \/ GoesOn("call"))
    BY <1>1, <1>6 DEF LineReply, SendKept
  <2>2. sees = 0
    BY <2>1 DEF ReachedKept, Marks
  <2> QED
    BY <1>2, <2>1, <2>2, OverReached, OnReached
<1>7. CASE SendCall
  <2>1. /\ sending.step = "call" /\ kept' = kept
        /\ \/ platform = "slack" /\ GoesOn("ack")
           \/ platform = "telegram" /\ GoesOn("plain")
           \/ platform # "slack" /\ SendOver(TRUE)
           \/ SendOver(FALSE)
    BY <1>7 DEF SendCall
  <2>2. CASE platform = "slack" /\ GoesOn("ack")
    BY <1>2, <2>1, <2>2, OnReached
  <2>3. CASE platform = "telegram" /\ GoesOn("plain")
    <3>1. sees # 0 => \A c \in ChatKeys : kept'[c] # sees
      BY <2>1, <2>3, ForgottenReached
    <3> QED
      BY <1>2, <2>1, <2>3, <3>1, OnReached
  <2>4. CASE platform # "slack" /\ SendOver(TRUE)
    <3>1. sees # 0 => \A c \in ChatKeys : kept'[c] # sees
      BY <2>1, <2>4, ForgottenReached DEF ReachedKept, Marks
    <3> QED
      BY <1>2, <2>1, <2>4, <3>1, OverReached
  <2>5. CASE SendOver(FALSE)
    BY <1>2, <2>1, <2>5, OverReached
  <2> QED
    BY <2>1, <2>2, <2>3, <2>4, <2>5
<1>8. CASE PlainCall
  <2>1. sending.step = "plain" /\ platform = "telegram" /\ kept' = kept /\ (SendOver(TRUE) \/ SendOver(FALSE))
    BY <1>1, <1>8 DEF PlainCall, SendKept
  <2>2. sees # 0 => \A c \in ChatKeys : kept'[c] # sees
    BY <2>1, ForgottenReached
  <2> QED
    BY <1>2, <2>1, <2>2, OverReached
<1>9. CASE DiscordLate
  <2>1. UNCHANGED <<sending, sees, reached, kept>>
    BY <1>9 DEF DiscordLate
  <2> QED
    BY <1>2, <2>1 DEF ReachedKept, Marks
<1>10. CASE SlackAck
  <2>1. /\ sending.step = "ack" /\ platform = "slack" /\ sending.chat \in ChatKeys /\ SendOver(TRUE)
        /\ \/ kept[sending.chat] = 0 /\ kept' = kept
           \/ kept' = [kept EXCEPT ![sending.chat] = 0]
    BY <1>1, <1>10 DEF SlackAck, SendKept
  <2>2. \A c \in ChatKeys : kept'[c] = IF c = sending.chat THEN 0 ELSE kept[c]
    BY <1>3, <2>1
  <2>3. sees # 0 => \A c \in ChatKeys : kept'[c] # sees
    BY <2>2 DEF ReachedKept
  <2> QED
    BY <1>2, <2>1, <2>2, <2>3, OverReached
<1> QED
  BY <1>4, <1>5, <1>6, <1>7, <1>8, <1>9, <1>10

LEMMA StepReached == MarkInv /\ ReachedKept /\ [AdaptersNext]_adapterVars => ReachedKept'
<1> SUFFICES ASSUME MarkInv, ReachedKept, [AdaptersNext]_adapterVars PROVE ReachedKept'
  OBVIOUS
<1>1. CASE AdaptersNext
  BY <1>1, ArriveReached, HandlerReached, StartReached, SendReached DEF AdaptersNext
<1>2. CASE UNCHANGED adapterVars
  BY <1>2 DEF adapterVars, ReachedKept, Marks
<1> QED
  BY <1>1, <1>2

LEMMA AlwaysReached == AdaptersSpec => [](MarkInv /\ ReachedKept)
BY InitMarks, InitReached, StepMarks, StepReached, PTL DEF AdaptersSpec

\* Every variable of the adapters is of its type; an event becomes one inbound message at most,
\* and the ring of OneBot has its size.
THEOREM AdaptersTyped == AdaptersSpec => []AdaptersTypeOK
<1>1. MarkInv /\ ReachedKept /\ DedupInv => AdaptersTypeOK
  <2> SUFFICES ASSUME MarkInv, ReachedKept, DedupInv PROVE AdaptersTypeOK
    OBVIOUS
  <2>1. AdaptersType /\ InboundKept /\ DedupType /\ RingKept
    BY DEF MarkInv, DedupInv
  <2>2. \A h \in handlers : h.n \in Numbers /\ h.chat \in ChatKeys /\ h.step \in {"mark", "keep", "publish"}
    BY <2>1 DEF AdaptersType, HandlerSet
  <2>3. sending.step \in {"none", "forget", "edit", "reply", "call", "plain", "ack"}
    BY <2>1 DEF AdaptersType, SendSet
  <2>4. inbound <= arrived
    <3>1. Cardinality(handlers) \in Nat /\ inbound \in Nat /\ arrived \in Nat /\ inbound + Cardinality(handlers) <= arrived
      BY <2>1, FS_CardinalityType DEF InboundKept, AdaptersType
    <3> QED
      BY <3>1
  <2>5. sees \in 0 .. MaxArrivals /\ reached \subseteq Numbers
    BY DEF ReachedKept
  <2> QED
    BY <2>1, <2>2, <2>3, <2>4, <2>5 DEF AdaptersTypeOK, AdaptersType, DedupType, RingKept
<1> QED
  BY <1>1, AlwaysReached, AlwaysDedup, PTL

\* A placeholder, a reaction or a reply token is used for one answer at most, and a message
\* that reaches the chat leaves behind no mark it began with, but for the marks named in
\* MarksAnswered.  That a message comes is not said: Slack marks what it drops, too.
THEOREM MarksMeet == AdaptersSpec => []MarksAnswered
<1>1. MarkInv /\ ReachedKept => MarksAnswered
  <2> SUFFICES ASSUME MarkInv, ReachedKept PROVE MarksAnswered
    OBVIOUS
  <2>1. \A n \in Numbers : uses[n] <= 1
    BY DEF MarkInv, UsesKept
  <2>2. ASSUME NEW n \in marks \ excused
        PROVE  \/ \E h \in handlers : h.n = n
               \/ n \notin reached /\ \E c \in ChatKeys : kept[c] = n
               \/ sending.item = n
    <3>1. n # 0
      BY AdaptersAssumption DEF MarkInv, AdaptersType, Numbers
    <3>2. ASSUME NEW c \in ChatKeys, kept[c] = n PROVE n \notin reached
      BY <3>1, <3>2 DEF ReachedKept
    <3> QED
      BY <3>2 DEF MarkInv, MarksKept
  <2> QED
    BY <2>1, <2>2 DEF MarksAnswered
<1> QED
  BY <1>1, AlwaysReached, PTL

-----------------------------------------------------------------------------
\* Their connections.

\* The library panics at the read that uses up its patience, and nothing goes on after it.
Patient == stage # "panicked" => badReads < PanicReads

LinksInv == LinksTypeOK /\ Patient

LEMMA InitLinks == LinksInit => LinksInv
<1> SUFFICES ASSUME LinksInit PROVE LinksInv
  OBVIOUS
<1>1. badReads \in 0 .. PanicReads /\ badReads < PanicReads
  BY LinksAssumption DEF LinksInit
<1>2. device \in [Devices -> {"away", "accepted", "top", "decode", "done"}]
  BY DEF LinksInit
<1> QED
  BY <1>1, <1>2 DEF LinksInit, LinksInv, LinksTypeOK, Patient

LEMMA StartType ==
    ASSUME adapter \in Sessions, NEW opened \in BOOLEAN, NEW start \in StartOf(opened)
    PROVE  /\ start.held \in BOOLEAN /\ start.live \in BOOLEAN
           /\ start.stage \in {"starting", "started", "failed"}
<1> DEFINE OK(s) == /\ s.held \in BOOLEAN /\ s.live \in BOOLEAN
                    /\ s.stage \in {"starting", "started", "failed"}
<1>1. ASSUME NEW b \in BOOLEAN
      PROVE  OK(Started(b)) /\ OK([Started(TRUE) EXCEPT !.stage = "failed"]) /\ OK([Started(TRUE) EXCEPT !.held = b])
  BY DEF Started
<1>2. OK([held |-> TRUE, live |-> FALSE, stage |-> "starting"])
  OBVIOUS
<1> HIDE DEF OK
<1>3. /\ \A s \in TelegramStart(opened) \cup SlackStart(opened) \cup DingTalkStart(opened) : OK(s)
      /\ \A s \in DiscordStart(opened) : OK(s)
      /\ \A s \in QQStart(opened) : OK(s)
      /\ \A s \in FeishuStart(opened) \cup LineStart(opened) : OK(s)
  BY <1>1, <1>2 DEF TelegramStart, SlackStart, DingTalkStart, DiscordStart, QQStart, FeishuStart, LineStart
<1>4. OK(start)
  BY <1>3 DEF Sessions, StartOf
<1> QED
  BY <1>4 DEF OK

LEMMA StepLinks == LinksInv /\ [LinksNext]_linkVars => LinksInv'
<1> SUFFICES ASSUME LinksInv, [LinksNext]_linkVars PROVE LinksInv'
  OBVIOUS
<1>1. CASE UNCHANGED linkVars
  BY <1>1 DEF LinksInv, LinksTypeOK, Patient, linkVars
<1>2. CASE LinksNext
  <2>1. LinksTypeOK /\ badReads \in Nat /\ PanicReads \in Nat /\ badReads < PanicReads
    BY <1>2, LinksAssumption DEF LinksInv, Patient, LinksNext, LinksTypeOK
  <2> DEFINE Same == UNCHANGED <<adapter, badReads>>
             Camera == device' \in [Devices -> {"away", "accepted", "top", "decode", "done"}]
                       /\ clients' \subseteq Devices /\ closed' \subseteq Devices
  <2>2. ASSUME UNCHANGED cameraVars PROVE Camera
    BY <2>1, <2>2 DEF cameraVars, LinksTypeOK
  <2>3. CASE CancelStart \/ LoseLink \/ QQStarted \/ SessionOver
    BY <2>1, <2>2, <2>3 DEF CancelStart, LoseLink, QQStarted, SessionOver, LinksInv, LinksTypeOK, Patient
  <2>4. CASE Reconnect \/ Redialled \/ ListenTop \/ Received
    BY <2>1, <2>2, <2>4 DEF Reconnect, Redialled, ListenTop, Received, LinksInv, LinksTypeOK, Patient
  <2>5. CASE ReadFails \/ AcceptFails \/ StopOneBot \/ StopWhatsApp \/ StopSession
    BY <2>1, <2>2, <2>5 DEF ReadFails, AcceptFails, StopOneBot, StopWhatsApp, StopSession, LinksInv, LinksTypeOK, Patient
  <2>6. ASSUME NEW dialled \in BOOLEAN, NEW reconnects \in BOOLEAN, StartOneBot(dialled, reconnects)
        PROVE  LinksInv'
    <3>1. live' \in BOOLEAN
      BY <2>6 DEF StartOneBot
    <3> QED
      BY <2>1, <2>2, <2>6, <3>1 DEF StartOneBot, LinksInv, LinksTypeOK, Patient
  <2>7. ASSUME NEW dialled \in BOOLEAN, StartWhatsApp(dialled) \/ StartMaixCam(dialled)
        PROVE  LinksInv'
    BY <2>1, <2>2, <2>7 DEF StartWhatsApp, StartMaixCam, LinksInv, LinksTypeOK, Patient
  <2>8. CASE ReadFailsAgain
    <3>1. badReads' \in 0 .. PanicReads /\ (badReads' # PanicReads => badReads' < PanicReads)
      BY <2>1, <2>8 DEF ReadFailsAgain
    <3> QED
      BY <2>1, <2>2, <2>8, <3>1 DEF ReadFailsAgain, LinksInv, LinksTypeOK, Patient
  <2>9. CASE StopMaixCam
    BY <2>1, <2>9 DEF StopMaixCam, LinksInv, LinksTypeOK, Patient
  <2>10. ASSUME NEW d \in Devices, AcceptDevice(d) \/ RegisterDevice(d)
         PROVE  LinksInv'
    BY <2>1, <2>10 DEF AcceptDevice, RegisterDevice, LinksInv, LinksTypeOK, Patient
  <2>11. ASSUME NEW d \in Devices, DeviceTop(d) \/ DeviceSends(d) \/ DeviceCut(d)
         PROVE  LinksInv'
    <3>1. Camera
      BY <2>1, <2>11 DEF DeviceTop, DeviceSends, DeviceCut, DeviceEnds, LinksTypeOK
    <3>2. UNCHANGED <<adapter, stage, live, ended, held, link, listener, reconnecting, badReads>>
      BY <2>11 DEF DeviceTop, DeviceSends, DeviceCut
    <3> QED
      BY <2>1, <3>1, <3>2 DEF LinksInv, LinksTypeOK, Patient
  <2>12. ASSUME NEW opened \in BOOLEAN, StartSession(opened)
         PROVE  LinksInv'
    <3>1. held' \in BOOLEAN /\ live' \in BOOLEAN /\ stage' \in {"starting", "started", "failed"}
      BY <2>12, StartType DEF StartSession
    <3> QED
      BY <2>1, <2>2, <2>12, <3>1 DEF StartSession, LinksInv, LinksTypeOK, Patient
  <2> QED
    BY <1>2, <2>3, <2>4, <2>5, <2>6, <2>7, <2>8, <2>9, <2>10, <2>11, <2>12 DEF LinksNext
<1> QED
  BY <1>1, <1>2

\* Every variable of a chat adapter's connection has its type, for any number of devices.
THEOREM LinksTyped == LinksSpec => []LinksTypeOK
<1>1. LinksInv => LinksTypeOK
  BY DEF LinksInv
<1> QED
  BY <1>1, InitLinks, StepLinks, PTL DEF LinksSpec

-----------------------------------------------------------------------------
\* The workspace tools.

FilesUpTo(n) == [there : BOOLEAN, text : Seq(0 .. n)]

CallsUpTo(n) ==
    [id : 1 .. n, kind : {"asked", "refused", "read", "append", "edit", "write", "exec", "delegate"},
     step : {"asked", "ready", "cut", "runs", "drains", "locks", "waits", "over"}, old : 0 .. MaxAsked,
     seen : FilesUpTo(n), result : {"none", "ok", "failed", "emptied", "created", "timeout"},
     by : Delegates \cup {"none"}]

\* Only a call that has begun has a kind, only one that replaces the file is on its way there,
\* and one that appends is over in one step.
CallSound(c) ==
    /\ c.step = "asked" => c.kind = "asked"
    /\ c.kind = "append" => c.step = "over"
    /\ c.step \in {"ready", "cut"} => c.kind \in {"edit", "write"}

\* What is in the file, and what a call has read there, was put there by a call that was asked for.
ToolsType ==
    /\ file \in FilesUpTo(asked)
    /\ loop \in [Workers -> {"idle", "due", "top", "llm", "tools"} \cup Over]
    /\ iteration \in [Workers -> 0 .. MaxRounds]
    /\ asked \in 0 .. MaxAsked /\ toolFaults \in 0 .. MaxToolFaults
    /\ alone \in [Workers -> BOOLEAN]
    /\ spawned \subseteq Delegates /\ announcing \in Delegates \cup {"none"}
    /\ round \in [Workers -> Seq(CallsUpTo(asked))]
    /\ \A w \in Workers : loop[w] # "tools" <=> round[w] = <<>>
    /\ \A w \in Workers : \A i \in DOMAIN round[w] : CallSound(round[w][i])

\* The calls of a round are told apart by their numbers.
OwnIds ==
    \A w \in Workers : \A i, j \in DOMAIN round[w] : round[w][i].id = round[w][j].id => i = j

Missing(t, b) == \A k \in DOMAIN t : t[k] # b
OnceIn(t, b) == \E k \in DOMAIN t : t[k] = b /\ \A j \in DOMAIN t : t[j] = b => j = k

\* As long as a round only appends, and nobody else changes the file, each of its calls that
\* has appended is there once and the others are not there yet.
AppendsThere(w) ==
    \A i \in DOMAIN round[w] :
        /\ round[w][i].step = "asked" => Missing(file.text, round[w][i].id)
        /\ round[w][i].kind = "append" /\ round[w][i].result = "ok" => OnceIn(file.text, round[w][i].id)

AppendsSafe == \A w \in Workers : loop[w] = "tools" /\ alone[w] /\ OnlyAppends(w) => AppendsThere(w)

ToolsInv == ToolsType /\ OwnIds /\ AppendsSafe

\* The step of one call.
CallStep(w, i, c) ==
    /\ c \in CallsUpTo(asked) /\ CallSound(c)
    /\ c.id = round[w][i].id /\ c.step # "asked"
    /\ round[w][i].kind \in {"asked", c.kind}
    /\ asked' = asked /\ round' = [round EXCEPT ![w][i] = c]

LEMMA MoreAsked ==
    ASSUME NEW n \in Nat, NEW m \in Nat, n <= m
    PROVE  FilesUpTo(n) \subseteq FilesUpTo(m) /\ CallsUpTo(n) \subseteq CallsUpTo(m)
<1>1. 0 .. n \subseteq 0 .. m /\ 1 .. n \subseteq 1 .. m
  OBVIOUS
<1>2. Seq(0 .. n) \subseteq Seq(0 .. m)
  BY <1>1
<1>3. FilesUpTo(n) \subseteq FilesUpTo(m)
  BY <1>2 DEF FilesUpTo
<1> QED
  BY <1>1, <1>3 DEF CallsUpTo

LEMMA InitTools == ToolsInit => ToolsInv
<1> SUFFICES ASSUME ToolsInit PROVE ToolsInv
  OBVIOUS
<1>1. <<>> \in Seq(0 .. 0) /\ <<0>> \in Seq(0 .. 0)
  OBVIOUS
<1>2. file \in FilesUpTo(0)
  <2>1. Absent \in FilesUpTo(0) /\ \A t \in Seq(0 .. 0) : Holding(t) \in FilesUpTo(0)
    BY <1>1 DEF FilesUpTo, Absent, Holding
  <2> QED
    BY <1>1, <2>1 DEF ToolsInit
<1>3. \A w \in Workers : round[w] = <<>> /\ loop[w] = "idle"
  BY DEF ToolsInit
<1>4. round \in [Workers -> Seq(CallsUpTo(0))]
  BY DEF ToolsInit
<1>5. ToolsType
  BY <1>2, <1>3, <1>4, ToolsAssumption DEF ToolsInit, ToolsType
<1>6. OwnIds /\ AppendsSafe
  BY <1>3 DEF OwnIds, AppendsSafe
<1> QED
  BY <1>5, <1>6 DEF ToolsInv

LEMMA CallFacts ==
    ASSUME ToolsType, OwnIds, NEW w \in Workers, NEW i \in DOMAIN round[w], NEW c, CallStep(w, i, c)
    PROVE  /\ round' \in [Workers -> Seq(CallsUpTo(asked))]
           /\ \A v \in Workers : DOMAIN round'[v] = DOMAIN round[v] /\ (round'[v] = <<>> <=> round[v] = <<>>)
           /\ \A v \in Workers : v # w => round'[v] = round[v]
           /\ round'[w][i] = c /\ \A j \in DOMAIN round[w] : j # i => round'[w][j] = round[w][j]
           /\ \A v \in Workers : \A j \in DOMAIN round[v] : round'[v][j].id = round[v][j].id
           /\ (OwnIds /\ \A v \in Workers : \A j \in DOMAIN round[v] : CallSound(round[v][j]))'
           /\ loop[w] = "tools" /\ round[w][i] \in CallsUpTo(asked)
<1>1. round[w] \in Seq(CallsUpTo(asked)) /\ DOMAIN round[w] = 1 .. Len(round[w])
  BY DEF ToolsType
<1>2. i \in 1 .. Len(round[w]) /\ c \in CallsUpTo(asked)
  BY <1>1 DEF CallStep
<1>3. /\ [round[w] EXCEPT ![i] = c] \in Seq(CallsUpTo(asked))
      /\ Len([round[w] EXCEPT ![i] = c]) = Len(round[w])
      /\ \A j \in 1 .. Len(round[w]) : [round[w] EXCEPT ![i] = c][j] = IF j = i THEN c ELSE round[w][j]
  BY <1>1, <1>2, ExceptSeq
<1>4. round' = [round EXCEPT ![w] = [round[w] EXCEPT ![i] = c]] /\ round \in [Workers -> Seq(CallsUpTo(asked))]
  BY DEF CallStep, ToolsType
<1>5. /\ round' \in [Workers -> Seq(CallsUpTo(asked))]
      /\ round'[w] = [round[w] EXCEPT ![i] = c] /\ \A v \in Workers : v # w => round'[v] = round[v]
  BY <1>3, <1>4
<1>6. DOMAIN round'[w] = DOMAIN round[w] /\ round'[w] # <<>> /\ round[w] # <<>>
  BY <1>1, <1>2, <1>5
<1>7. round'[w][i] = c /\ \A j \in DOMAIN round[w] : j # i => round'[w][j] = round[w][j]
  BY <1>1, <1>2, <1>3, <1>5
<1>8. \A v \in Workers : DOMAIN round'[v] = DOMAIN round[v] /\ (round'[v] = <<>> <=> round[v] = <<>>)
  BY <1>5, <1>6
<1>9. \A v \in Workers : \A j \in DOMAIN round[v] : round'[v][j].id = round[v][j].id
  BY <1>5, <1>7 DEF CallStep
<1>10. OwnIds'
  BY <1>8, <1>9 DEF OwnIds
<1>11. (\A v \in Workers : \A j \in DOMAIN round[v] : CallSound(round[v][j]))'
  <2> SUFFICES ASSUME NEW v \in Workers, NEW j \in DOMAIN round[v] PROVE CallSound(round'[v][j])
    BY <1>8
  <2>1. CallSound(round[v][j]) /\ CallSound(c)
    BY DEF ToolsType, CallStep
  <2> QED
    BY <2>1, <1>5, <1>7
<1>12. loop[w] = "tools" /\ round[w][i] \in CallsUpTo(asked)
  BY <1>1, <1>2, <1>6 DEF ToolsType
<1> QED
  BY <1>5, <1>7, <1>8, <1>9, <1>10, <1>11, <1>12

\* A call that leaves the text alone, and appends nothing.
LEMMA QuietAppends ==
    ASSUME ToolsInv, NEW w \in Workers, NEW i \in DOMAIN round[w], NEW c, CallStep(w, i, c),
           file'.text = file.text, c.kind # "append" \/ c.result # "ok",
           \A v \in Workers : (alone'[v] => alone[v]) /\ (loop'[v] = "tools" => loop[v] = "tools")
    PROVE  AppendsSafe'
<1> SUFFICES ASSUME NEW v \in Workers, loop'[v] = "tools", alone'[v], OnlyAppends(v)'
             PROVE  AppendsThere(v)'
  BY DEF AppendsSafe
<1>1. loop[v] = "tools" /\ alone[v]
  OBVIOUS
<1>2. /\ \A u \in Workers : DOMAIN round'[u] = DOMAIN round[u]
      /\ \A u \in Workers : u # w => round'[u] = round[u]
      /\ round'[w][i] = c /\ \A j \in DOMAIN round[w] : j # i => round'[w][j] = round[w][j]
      /\ \A u \in Workers : \A j \in DOMAIN round[u] : round'[u][j].id = round[u][j].id
  BY CallFacts DEF ToolsInv
<1>3. \A j \in DOMAIN round[v] : /\ round'[v][j].step = "asked" => round[v][j].step = "asked"
                                 /\ round'[v][j].kind = "append" /\ round'[v][j].result = "ok" =>
                                       round[v][j].kind = "append" /\ round[v][j].result = "ok"
  BY <1>2 DEF CallStep
<1>4. CASE OnlyAppends(v)
  <2>1. AppendsThere(v)
    BY <1>1, <1>4 DEF ToolsInv, AppendsSafe
  <2> QED
    BY <1>2, <1>3, <2>1 DEF AppendsThere
<1>5. CASE ~OnlyAppends(v)
  <2>1. v = w
    BY <1>2, <1>5 DEF OnlyAppends, Changes
  <2>2. PICK j \in Changes(w) : round[w][j].kind # "append"
    BY <1>5, <2>1 DEF OnlyAppends
  <2>3. j = i
    BY <1>2, <2>1, <2>2 DEF OnlyAppends, Changes
  <2>4. c.kind \notin {"edit", "write"}
    BY <1>2, <2>1 DEF OnlyAppends, Changes
  <2> QED
    BY <2>2, <2>3, <2>4 DEF CallStep, Changes
<1> QED
  BY <1>4, <1>5

\* A call that appends.
LEMMA AppendAppends ==
    ASSUME ToolsInv, NEW w \in Workers, NEW i \in DOMAIN round[w], NEW c, CallStep(w, i, c),
           round[w][i].step = "asked", c.kind = "append",
           file.text \in Seq(0 .. asked), file'.text = Append(file.text, c.id), Changed(w), loop' = loop
    PROVE  AppendsSafe'
<1> SUFFICES ASSUME NEW v \in Workers, loop'[v] = "tools", alone'[v], OnlyAppends(v)'
             PROVE  AppendsThere(v)'
  BY DEF AppendsSafe
<1>1. v = w /\ alone[w] /\ loop[w] = "tools"
  BY DEF Changed
<1>2. /\ DOMAIN round'[w] = DOMAIN round[w] /\ round'[w][i] = c
      /\ \A j \in DOMAIN round[w] : j # i => round'[w][j] = round[w][j]
      /\ \A j \in DOMAIN round[w] : round'[w][j].id = round[w][j].id
  BY CallFacts DEF ToolsInv
<1>3. CallSound(round[w][i]) /\ round[w][i].kind = "asked"
  BY DEF ToolsInv, ToolsType, CallSound
<1>4. OnlyAppends(w)
  BY <1>1, <1>2, <1>3 DEF OnlyAppends, Changes
<1>5. AppendsThere(w)
  BY <1>1, <1>4 DEF ToolsInv, AppendsSafe
<1> DEFINE t == file.text
           u == file'.text
           n == Len(t)
<1>6. /\ DOMAIN t = 1 .. n /\ DOMAIN u = 1 .. n + 1 /\ n \in Nat
      /\ u[n + 1] = c.id /\ \A k \in 1 .. n : u[k] = t[k]
  <2>1. c.id \in 0 .. asked
    <3>1. c.id \in 1 .. asked /\ asked \in Nat
      BY ToolsAssumption DEF CallStep, CallsUpTo, ToolsInv, ToolsType
    <3> QED
      BY <3>1
  <2>2. /\ Append(t, c.id) \in Seq(0 .. asked) /\ Len(Append(t, c.id)) = n + 1
        /\ \A k \in 1 .. n : Append(t, c.id)[k] = t[k] /\ Append(t, c.id)[n + 1] = c.id
    BY <2>1, AppendProperties
  <2> QED
    BY <2>2
<1>7. Missing(t, c.id)
  BY <1>5 DEF AppendsThere, CallStep
<1> HIDE DEF t, u, n
<1>8. ASSUME NEW b, b # c.id, Missing(t, b) PROVE Missing(u, b)
  BY <1>6, <1>8 DEF Missing
<1>9. ASSUME NEW b, b # c.id, OnceIn(t, b) PROVE OnceIn(u, b)
  <2>1. PICK k \in DOMAIN t : t[k] = b /\ \A j \in DOMAIN t : t[j] = b => j = k
    BY <1>9 DEF OnceIn
  <2>2. k \in DOMAIN u /\ u[k] = b /\ \A j \in DOMAIN u : u[j] = b => j = k
    BY <1>6, <1>9, <2>1
  <2> QED
    BY <2>2 DEF OnceIn
<1>10. OnceIn(u, c.id)
  BY <1>6, <1>7 DEF OnceIn, Missing
<1>11. ASSUME NEW j \in DOMAIN round[w], j # i PROVE round[w][j].id # c.id
  BY <1>11 DEF ToolsInv, OwnIds, CallStep
<1>12. ASSUME NEW j \in DOMAIN round[w]
       PROVE  /\ round'[w][j].step = "asked" => Missing(u, round'[w][j].id)
              /\ round'[w][j].kind = "append" /\ round'[w][j].result = "ok" => OnceIn(u, round'[w][j].id)
  <2>1. CASE j = i
    BY <1>2, <1>10, <2>1 DEF CallStep
  <2>2. CASE j # i
    <3>1. /\ round[w][j].step = "asked" => Missing(t, round[w][j].id)
          /\ round[w][j].kind = "append" /\ round[w][j].result = "ok" => OnceIn(t, round[w][j].id)
      BY <1>5 DEF AppendsThere, t
    <3>2. round'[w][j] = round[w][j] /\ round[w][j].id # c.id
      BY <1>2, <1>11, <2>2
    <3> QED
      BY <1>8, <1>9, <3>1, <3>2
  <2> QED
    BY <2>1, <2>2
<1> QED
  BY <1>1, <1>2, <1>12 DEF AppendsThere, u

\* A call that replaces the file: then the round does not only append, and the others' rounds
\* are not alone.
LEMMA OverwriteAppends ==
    ASSUME ToolsInv, NEW w \in Workers, NEW i \in DOMAIN round[w], NEW c, CallStep(w, i, c),
           c.kind \in {"edit", "write"}, Changed(w), loop' = loop
    PROVE  AppendsSafe'
<1> SUFFICES ASSUME NEW v \in Workers, loop'[v] = "tools", alone'[v], OnlyAppends(v)'
             PROVE  FALSE
  BY DEF AppendsSafe
<1>1. v = w
  BY DEF Changed
<1>2. DOMAIN round'[w] = DOMAIN round[w] /\ round'[w][i] = c
  BY CallFacts DEF ToolsInv
<1> QED
  BY <1>1, <1>2 DEF OnlyAppends, Changes

LEMMA TextFacts ==
    ASSUME NEW n \in Nat, NEW c \in CallsUpTo(n), NEW over \in Seq(0 .. n)
    PROVE  Overlaid(Text(c), over) \in Seq(0 .. n)
<1>1. c.id \in 0 .. n /\ <<c.id>> \in Seq(0 .. n)
  BY DEF CallsUpTo
<1>2. c.seen.text \in Seq(0 .. n)
  BY DEF CallsUpTo, FilesUpTo
<1>3. Replaced(c.seen.text, c.old, c.id) \in Seq(0 .. n)
  <2> DEFINE t == c.seen.text
  <2>1. DOMAIN t = 1 .. Len(t) /\ Len(t) \in Nat /\ \A k \in 1 .. Len(t) : t[k] \in 0 .. n
    BY <1>2
  <2>2. Replaced(t, c.old, c.id) = [k \in 1 .. Len(t) |-> IF t[k] = c.old THEN c.id ELSE t[k]]
    BY <2>1 DEF Replaced
  <2> HIDE DEF t
  <2>3. \A k \in 1 .. Len(t) : (IF t[k] = c.old THEN c.id ELSE t[k]) \in 0 .. n
    BY <1>1, <2>1
  <2> QED
    BY <2>1, <2>2, <2>3 DEF t
<1>4. Text(c) \in Seq(0 .. n)
  BY <1>1, <1>3 DEF Text
<1> DEFINE t == Text(c)
           rest == SubSeq(over, Len(t) + 1, Len(over))
<1>5. Len(t) \in Nat /\ Len(over) \in Nat /\ \A k \in 1 .. Len(over) : over[k] \in 0 .. n
  BY <1>4
<1>6. rest \in Seq(0 .. n)
  <2> HIDE DEF t
  <2>1. Len(t) + 1 \in Int /\ Len(over) \in Int /\ \A k \in Len(t) + 1 .. Len(over) : over[k] \in 0 .. n
    BY <1>5
  <2> QED
    BY <2>1, SubSeqProperties
<1> QED
  BY <1>4, <1>6, ConcatProperties DEF Overlaid

\* What is the same after a step of one call, and what follows when the rest is.
LEMMA CallType ==
    ASSUME ToolsInv, NEW w \in Workers, NEW i \in DOMAIN round[w], NEW c, CallStep(w, i, c),
           file' \in FilesUpTo(asked), UNCHANGED loopVars, toolFaults' \in 0 .. MaxToolFaults,
           alone' \in [Workers -> BOOLEAN]
    PROVE  ToolsType' /\ OwnIds'
BY CallFacts DEF ToolsInv, ToolsType, CallStep, loopVars

LEMMA StartFacts ==
    ASSUME ToolsInv, NEW w \in Workers, NEW i \in DOMAIN round[w], MayStart(w, i)
    PROVE  round[w][i].step = "asked" /\ round[w][i].kind = "asked"
BY DEF MayStart, ToolsInv, ToolsType, CallSound

LEMMA AloneType ==
    ASSUME ToolsInv, NEW w \in Workers
    PROVE  (Changed(w) \/ alone' = alone) => alone' \in [Workers -> BOOLEAN]
BY DEF ToolsInv, ToolsType, Changed

LEMMA StepCalls ==
    ASSUME ToolsInv, NEW w \in Workers, NEW i \in DOMAIN round[w],
           \/ Refused(w, i) \/ ReadFile(w, i) \/ EditRead(w, i) \/ ExecStarts(w, i)
           \/ ExecExits(w, i) \/ ExecTimesOut(w, i) \/ DelegateReturns(w, i)
    PROVE  ToolsInv'
<1> DEFINE b == round[w][i]
<1>1. /\ b \in CallsUpTo(asked) /\ CallSound(b) /\ asked \in Nat /\ asked <= MaxAsked /\ MaxAsked \in Nat
      /\ file \in FilesUpTo(asked) /\ toolFaults \in 0 .. MaxToolFaults
  BY ToolsAssumption DEF ToolsInv, ToolsType
<1>2. ASSUME NEW c \in CallsUpTo(asked), Becoming(w, i, c), c.id = b.id, c.step # "asked", CallSound(c),
             b.kind \in {"asked", c.kind}, c.kind # "append",
             UNCHANGED <<file, toolFaults, alone>>, UNCHANGED loopVars
      PROVE  ToolsInv'
  <2>1. CallStep(w, i, c) /\ UNCHANGED <<loop, iteration, asked>>
    BY <1>2 DEF CallStep, Becoming, loopVars
  <2>2. ToolsType' /\ OwnIds'
    BY <1>1, <1>2, <2>1, CallType, AloneType
  <2>3. AppendsSafe'
    BY <1>2, <2>1, QuietAppends
  <2> QED
    BY <2>2, <2>3 DEF ToolsInv
<1> HIDE DEF b
<1>3. MayStart(w, i) => b.step = "asked" /\ b.kind = "asked"
  BY StartFacts DEF b
<1>4. CASE Refused(w, i)
  <2> DEFINE c == Ended([b EXCEPT !.kind = "refused"], "failed")
  <2>1. c \in CallsUpTo(asked) /\ c.id = b.id /\ c.step = "over" /\ c.kind = "refused"
    BY <1>1 DEF CallsUpTo, Ended
  <2> QED
    BY <1>2, <1>3, <1>4, <2>1 DEF Refused, CallSound, b
<1>5. CASE ReadFile(w, i)
  <2> DEFINE c == Ended([b EXCEPT !.kind = "read", !.seen = file], IF file.there THEN "ok" ELSE "failed")
  <2>1. c \in CallsUpTo(asked) /\ c.id = b.id /\ c.step = "over" /\ c.kind = "read"
    BY <1>1 DEF CallsUpTo, Ended
  <2> QED
    BY <1>2, <1>3, <1>5, <2>1 DEF ReadFile, CallSound, b
<1>6. CASE EditRead(w, i)
  <2> DEFINE e == [b EXCEPT !.kind = "edit", !.seen = file]
             f == Ended(e, "failed")
             r(old) == [e EXCEPT !.old = old, !.step = "ready"]
  <2>1. f \in CallsUpTo(asked) /\ f.id = b.id /\ f.step = "over" /\ f.kind = "edit"
    BY <1>1 DEF CallsUpTo, Ended
  <2>2. \A old \in 0 .. MaxAsked :
           r(old) \in CallsUpTo(asked) /\ r(old).id = b.id /\ r(old).step = "ready" /\ r(old).kind = "edit"
    BY <1>1 DEF CallsUpTo
  <2>3. UNCHANGED <<file, toolFaults, alone>> /\ UNCHANGED loopVars /\ MayStart(w, i)
    BY <1>6 DEF EditRead
  <2>4. \/ Becoming(w, i, f)
        \/ \E old \in 0 .. MaxAsked : Becoming(w, i, r(old))
    BY <1>6 DEF EditRead, b
  <2>5. CASE Becoming(w, i, f)
    BY <1>2, <1>3, <2>1, <2>3, <2>5 DEF CallSound
  <2>6. CASE \E old \in 0 .. MaxAsked : Becoming(w, i, r(old))
    <3>1. PICK old \in 0 .. MaxAsked : Becoming(w, i, r(old))
      BY <2>6
    <3> QED
      BY <1>2, <1>3, <2>2, <2>3, <3>1 DEF CallSound
  <2> QED
    BY <2>4, <2>5, <2>6
<1>7. CASE ExecStarts(w, i)
  <2> DEFINE c == [b EXCEPT !.kind = "exec", !.step = "runs"]
  <2>1. c \in CallsUpTo(asked) /\ c.id = b.id /\ c.step = "runs" /\ c.kind = "exec"
    BY <1>1 DEF CallsUpTo
  <2> QED
    BY <1>2, <1>3, <1>7, <2>1 DEF ExecStarts, CallSound, b
<1>8. CASE ExecExits(w, i) \/ ExecTimesOut(w, i) \/ DelegateReturns(w, i)
  <2> DEFINE e(result) == Ended(b, result)
             d == [b EXCEPT !.step = "drains"]
  <2>1. \A result \in {"ok", "timeout", "failed"} :
           /\ e(result) \in CallsUpTo(asked) /\ e(result).id = b.id /\ e(result).step = "over"
           /\ e(result).kind = b.kind
    BY <1>1 DEF CallsUpTo, Ended
  <2>2. d \in CallsUpTo(asked) /\ d.id = b.id /\ d.step = "drains" /\ d.kind = b.kind
    BY <1>1 DEF CallsUpTo
  <2>3. UNCHANGED <<file, toolFaults, alone>> /\ UNCHANGED loopVars
    BY <1>8 DEF ExecExits, ExecTimesOut, DelegateReturns
  <2>4. \/ Becoming(w, i, d)
        \/ \E result \in {"ok", "timeout", "failed"} : Becoming(w, i, e(result))
    BY <1>8 DEF ExecExits, ExecTimesOut, DelegateReturns, b
  <2>4a. b.kind # "append"
    BY <1>1, <1>8 DEF ExecExits, ExecTimesOut, DelegateReturns, CallSound, b
  <2>5. CASE Becoming(w, i, d)
    BY <1>2, <2>2, <2>3, <2>4a, <2>5 DEF CallSound
  <2>6. CASE \E result \in {"ok", "timeout", "failed"} : Becoming(w, i, e(result))
    <3>1. PICK result \in {"ok", "timeout", "failed"} : Becoming(w, i, e(result))
      BY <2>6
    <3> QED
      BY <1>2, <2>1, <2>3, <2>4a, <3>1 DEF CallSound
  <2> QED
    BY <2>4, <2>5, <2>6
<1> QED
  BY <1>4, <1>5, <1>6, <1>7, <1>8

LEMMA StepAppend ==
    ASSUME ToolsInv, NEW w \in Workers, NEW i \in DOMAIN round[w], AppendFile(w, i)
    PROVE  ToolsInv'
<1> DEFINE b == round[w][i]
           c == Ended([b EXCEPT !.kind = "append"], "ok")
<1>1. b \in CallsUpTo(asked) /\ asked \in Nat /\ file \in FilesUpTo(asked) /\ toolFaults \in 0 .. MaxToolFaults
  BY ToolsAssumption DEF ToolsInv, ToolsType
<1>2. b.step = "asked" /\ b.kind = "asked"
  BY StartFacts DEF AppendFile
<1>3. c \in CallsUpTo(asked) /\ c.id = b.id /\ c.step = "over" /\ c.kind = "append"
  BY <1>1 DEF CallsUpTo, Ended
<1>4. Becoming(w, i, c) /\ Changed(w) /\ file' = Holding(Append(file.text, b.id)) /\ UNCHANGED loopVars
  BY DEF AppendFile
<1> HIDE DEF c
<1>5. CallStep(w, i, c) /\ UNCHANGED <<loop, iteration, asked, toolFaults>>
  BY <1>2, <1>3, <1>4 DEF CallStep, Becoming, AppendFile, loopVars, CallSound
<1>6. file.text \in Seq(0 .. asked) /\ b.id \in 0 .. asked
  BY <1>1 DEF FilesUpTo, CallsUpTo
<1>7. file' \in FilesUpTo(asked) /\ file'.text = Append(file.text, c.id)
  <2>1. Append(file.text, b.id) \in Seq(0 .. asked)
    BY <1>6, AppendProperties
  <2> QED
    BY <1>3, <1>4, <2>1 DEF Holding, FilesUpTo
<1>8. ToolsType' /\ OwnIds'
  BY <1>1, <1>4, <1>5, <1>7, CallType, AloneType
<1>9. AppendsSafe'
  BY <1>2, <1>3, <1>4, <1>5, <1>6, <1>7, AppendAppends
<1> QED
  BY <1>8, <1>9 DEF ToolsInv

LEMMA StepAppendFails ==
    ASSUME ToolsInv, NEW w \in Workers, NEW i \in DOMAIN round[w], AppendFails(w, i)
    PROVE  ToolsInv'
<1> DEFINE b == round[w][i]
           c(result) == Ended([b EXCEPT !.kind = "append"], result)
<1>1. /\ b \in CallsUpTo(asked) /\ file \in FilesUpTo(asked) /\ toolFaults \in 0 .. MaxToolFaults /\ MaxToolFaults \in Nat
      /\ alone \in [Workers -> BOOLEAN]
  BY ToolsAssumption DEF ToolsInv, ToolsType
<1>2. b.step = "asked" /\ b.kind = "asked"
  BY StartFacts DEF AppendFails
<1>3. \A result \in {"failed", "created"} :
         /\ c(result) \in CallsUpTo(asked) /\ c(result).id = b.id /\ c(result).step = "over"
         /\ c(result).kind = "append" /\ c(result).result # "ok"
  BY <1>1 DEF CallsUpTo, Ended
<1>4. /\ UNCHANGED loopVars /\ ToolFault
      /\ \/ Becoming(w, i, c("failed")) /\ UNCHANGED <<file, alone>>
         \/ file' = [file EXCEPT !.there = TRUE] /\ Changed(w) /\ Becoming(w, i, c("created"))
  BY DEF AppendFails
<1>5. PICK result \in {"failed", "created"} : Becoming(w, i, c(result))
  BY <1>4
<1> HIDE DEF c
<1>6. CallStep(w, i, c(result))
  BY <1>2, <1>3, <1>4, <1>5 DEF CallStep, Becoming, loopVars, CallSound
<1>7. file' \in FilesUpTo(asked) /\ file'.text = file.text
  BY <1>1, <1>4 DEF FilesUpTo
<1>8. toolFaults' \in 0 .. MaxToolFaults
  BY <1>1, <1>4 DEF ToolFault
<1>9. ToolsType' /\ OwnIds'
  BY <1>4, <1>6, <1>7, <1>8, CallType, AloneType
<1>10. \A v \in Workers : (alone'[v] => alone[v]) /\ (loop'[v] = "tools" => loop[v] = "tools")
  BY <1>1, <1>4 DEF Changed, loopVars
<1>11. AppendsSafe'
  BY <1>3, <1>6, <1>7, <1>10, QuietAppends
<1> QED
  BY <1>9, <1>11 DEF ToolsInv

LEMMA StepWrites ==
    ASSUME ToolsInv, NEW w \in Workers, NEW i \in DOMAIN round[w],
           Truncates(w, i) \/ WritesText(w, i) \/ WriteFails(w, i)
    PROVE  ToolsInv'
<1> DEFINE b == round[w][i]
<1>1. /\ b \in CallsUpTo(asked) /\ CallSound(b) /\ asked \in Nat /\ file \in FilesUpTo(asked)
      /\ toolFaults \in 0 .. MaxToolFaults /\ MaxToolFaults \in Nat
  BY ToolsAssumption DEF ToolsInv, ToolsType
<1>2. ASSUME NEW c \in CallsUpTo(asked), Becoming(w, i, c), c.id = b.id, c.step # "asked", CallSound(c),
             b.kind \in {"asked", c.kind}, c.kind \in {"edit", "write"},
             file' \in FilesUpTo(asked), Changed(w), UNCHANGED toolFaults, UNCHANGED loopVars
      PROVE  ToolsInv'
  <2>1. CallStep(w, i, c) /\ UNCHANGED <<loop, iteration, asked>>
    BY <1>2 DEF CallStep, Becoming, loopVars
  <2>2. ToolsType' /\ OwnIds'
    BY <1>1, <1>2, <2>1, CallType, AloneType
  <2>3. AppendsSafe'
    BY <1>2, <2>1, OverwriteAppends
  <2> QED
    BY <2>2, <2>3 DEF ToolsInv
<1> HIDE DEF b
<1>3. CASE Truncates(w, i)
  <2> DEFINE c == [b EXCEPT !.kind = IF @ = "edit" THEN @ ELSE "write", !.step = "cut"]
  <2>1. MayStart(w, i) \/ b.step = "ready"
    BY <1>3 DEF Truncates, b
  <2>2. b.kind \in {"asked", "edit", "write"}
    BY <1>1, <2>1, StartFacts DEF CallSound, b
  <2>3. /\ c \in CallsUpTo(asked) /\ c.id = b.id /\ c.step = "cut" /\ c.kind \in {"edit", "write"}
        /\ b.kind \in {"asked", c.kind}
    BY <1>1, <2>2 DEF CallsUpTo
  <2>4. Becoming(w, i, c) /\ Changed(w) /\ file' = Holding(<<>>) /\ UNCHANGED toolFaults /\ UNCHANGED loopVars
    BY <1>3 DEF Truncates, b
  <2>5. file' \in FilesUpTo(asked)
    BY <2>4 DEF Holding, FilesUpTo
  <2> HIDE DEF c
  <2> QED
    BY <1>2, <2>3, <2>4, <2>5 DEF CallSound
<1>4. CASE WritesText(w, i)
  <2> DEFINE c == Ended(b, "ok")
  <2>1. b.step = "cut" /\ b.kind \in {"edit", "write"}
    BY <1>1, <1>4 DEF WritesText, CallSound, b
  <2>2. c \in CallsUpTo(asked) /\ c.id = b.id /\ c.step = "over" /\ c.kind = b.kind
    BY <1>1 DEF CallsUpTo, Ended
  <2>3. /\ Becoming(w, i, c) /\ Changed(w) /\ file' = Holding(Overlaid(Text(b), file.text))
        /\ UNCHANGED toolFaults /\ UNCHANGED loopVars
    BY <1>4 DEF WritesText, b
  <2>4. file' \in FilesUpTo(asked)
    <3>1. file.text \in Seq(0 .. asked)
      BY <1>1 DEF FilesUpTo
    <3>2. Overlaid(Text(b), file.text) \in Seq(0 .. asked)
      BY <1>1, <3>1, TextFacts
    <3> QED
      BY <2>3, <3>2 DEF Holding, FilesUpTo
  <2> HIDE DEF c
  <2> QED
    BY <1>2, <2>1, <2>2, <2>3, <2>4 DEF CallSound
<1>5. CASE WriteFails(w, i)
  <2> DEFINE c == Ended(b, IF b.step = "cut" THEN "emptied" ELSE "failed")
  <2>1. b.step \in {"ready", "cut"} /\ b.kind \in {"edit", "write"}
    BY <1>1, <1>5 DEF WriteFails, CallSound, b
  <2>2. c \in CallsUpTo(asked) /\ c.id = b.id /\ c.step = "over" /\ c.kind = b.kind
    BY <1>1 DEF CallsUpTo, Ended
  <2>3. Becoming(w, i, c) /\ UNCHANGED <<file, alone>> /\ UNCHANGED loopVars /\ ToolFault
    BY <1>5 DEF WriteFails, b
  <2> HIDE DEF c
  <2>4. CallStep(w, i, c) /\ UNCHANGED <<loop, iteration, asked>>
    BY <2>2, <2>3 DEF CallStep, Becoming, loopVars, CallSound, b
  <2>5. toolFaults' \in 0 .. MaxToolFaults
    BY <1>1, <2>3 DEF ToolFault
  <2>6. ToolsType' /\ OwnIds'
    BY <1>1, <2>3, <2>4, <2>5, CallType, AloneType
  <2>7. AppendsSafe'
    BY <2>1, <2>2, <2>3, <2>4, QuietAppends
  <2> QED
    BY <2>6, <2>7 DEF ToolsInv
<1> QED
  BY <1>3, <1>4, <1>5

\* A call on its way to a subagent: only loops and the manager's lock change.
LEMMA StepManager ==
    ASSUME ToolsInv, NEW w \in Workers, NEW i \in DOMAIN round[w], NEW c, CallStep(w, i, c), c.kind # "append",
           UNCHANGED <<file, iteration, toolFaults, alone>>,
           loop' \in [Workers -> {"idle", "due", "top", "llm", "tools"} \cup Over],
           \A v \in Workers : loop'[v] = "tools" <=> loop[v] = "tools",
           spawned' \subseteq Delegates, announcing' = announcing
    PROVE  ToolsInv'
<1>1. asked' = asked
  BY DEF CallStep
<1>2. ToolsType' /\ OwnIds'
  BY <1>1, CallFacts DEF ToolsInv, ToolsType
<1>3. AppendsSafe'
  BY QuietAppends
<1> QED
  BY <1>2, <1>3 DEF ToolsInv

LEMMA StepDelegated ==
    ASSUME ToolsInv, NEW w \in Workers, NEW i \in DOMAIN round[w], Delegated(w, i)
    PROVE  ToolsInv'
<1> DEFINE b == round[w][i]
           c(s) == [b EXCEPT !.kind = "delegate", !.step = "locks", !.by = s]
<1>1. b \in CallsUpTo(asked) /\ spawned \subseteq Delegates
  BY DEF ToolsInv, ToolsType
<1>2. b.step = "asked" /\ b.kind = "asked"
  BY StartFacts DEF Delegated
<1>3. PICK s \in Delegates :
         loop[s] = "idle" /\ loop' = [loop EXCEPT ![s] = "due"] /\ Becoming(w, i, c(s))
  BY DEF Delegated
<1>4. c(s) \in CallsUpTo(asked) /\ c(s).id = b.id /\ c(s).step = "locks" /\ c(s).kind = "delegate"
  BY <1>1 DEF CallsUpTo
<1> HIDE DEF c
<1>5. UNCHANGED <<file, iteration, asked, toolFaults, alone, spawned, announcing>>
  BY DEF Delegated, managerLockVars
<1>6. CallStep(w, i, c(s))
  BY <1>2, <1>3, <1>4, <1>5 DEF CallStep, Becoming, CallSound
<1>7. s \in Workers /\ loop \in [Workers -> {"idle", "due", "top", "llm", "tools"} \cup Over]
  BY DEF Workers, ToolsInv, ToolsType
<1>8. /\ loop' \in [Workers -> {"idle", "due", "top", "llm", "tools"} \cup Over]
      /\ \A v \in Workers : loop'[v] = "tools" <=> loop[v] = "tools"
  BY <1>3, <1>7
<1> QED
  BY <1>1, <1>4, <1>5, <1>6, <1>8, StepManager

LEMMA StepDelegateStarts ==
    ASSUME ToolsInv, NEW w \in Workers, NEW i \in DOMAIN round[w], DelegateStarts(w, i)
    PROVE  ToolsInv'
<1> DEFINE b == round[w][i]
           waits == [b EXCEPT !.step = "waits"]
           over == Ended(b, "ok")
<1>1. b \in CallsUpTo(asked) /\ CallSound(b) /\ spawned \subseteq Delegates
  BY DEF ToolsInv, ToolsType
<1>2. b.step = "locks"
  BY DEF DelegateStarts
<1>3. PICK s \in Delegates :
         /\ loop[s] = "due"
         /\ \/ loop' = [loop EXCEPT ![s] = "top"] /\ spawned' = spawned /\ Becoming(w, i, waits)
            \/ loop' = loop /\ spawned' = spawned \cup {s} /\ Becoming(w, i, over)
  BY DEF DelegateStarts
<1>4. /\ waits \in CallsUpTo(asked) /\ waits.id = b.id /\ waits.step = "waits" /\ waits.kind = b.kind
      /\ over \in CallsUpTo(asked) /\ over.id = b.id /\ over.step = "over" /\ over.kind = b.kind
  BY <1>1 DEF CallsUpTo, Ended
<1>5. b.kind # "append"
  BY <1>1, <1>2 DEF CallSound
<1>6. PICK c \in {waits, over} : Becoming(w, i, c)
  BY <1>3
<1> HIDE DEF waits, over
<1>7. UNCHANGED <<file, iteration, asked, toolFaults, alone, announcing>>
  BY DEF DelegateStarts
<1>8. CallStep(w, i, c) /\ c.kind # "append"
  BY <1>2, <1>4, <1>5, <1>6, <1>7 DEF CallStep, Becoming, CallSound
<1>9. s \in Workers /\ loop \in [Workers -> {"idle", "due", "top", "llm", "tools"} \cup Over]
  BY DEF Workers, ToolsInv, ToolsType
<1>10. /\ loop' \in [Workers -> {"idle", "due", "top", "llm", "tools"} \cup Over]
       /\ \A v \in Workers : loop'[v] = "tools" <=> loop[v] = "tools"
       /\ spawned' \subseteq Delegates
  BY <1>1, <1>3, <1>9
<1> QED
  BY <1>7, <1>8, <1>10, StepManager

\* A loop that takes a step without a new round leaves the file and the other rounds alone.
LEMMA LoopAppends ==
    ASSUME ToolsInv, UNCHANGED <<file, alone>>,
           \A v \in Workers : loop'[v] = "tools" => loop[v] = "tools" /\ round'[v] = round[v]
    PROVE  AppendsSafe'
<1> SUFFICES ASSUME NEW v \in Workers, loop'[v] = "tools", alone'[v], OnlyAppends(v)'
             PROVE  AppendsThere(v)'
  BY DEF AppendsSafe
<1>1. loop[v] = "tools" /\ alone[v] /\ round'[v] = round[v] /\ file' = file
  OBVIOUS
<1>2. OnlyAppends(v)
  BY <1>1 DEF OnlyAppends, Changes
<1> QED
  BY <1>1, <1>2 DEF ToolsInv, AppendsSafe, AppendsThere

LEMMA StepLoops ==
    ASSUME ToolsInv, NEW w \in Workers,
           TurnStarts(w) \/ LoopTop(w) \/ NextRound(w) \/ SubagentStarts(w)
    PROVE  ToolsInv'
<1>1. ToolsType /\ OwnIds
  BY DEF ToolsInv
<1>2. \A x : \A v \in Workers : [loop EXCEPT ![w] = x][v] = IF v = w THEN x ELSE loop[v]
  BY <1>1 DEF ToolsType
<1>3. CASE TurnStarts(w) \/ SubagentStarts(w)
  <2>1. /\ loop[w] \in {"idle", "due"} /\ loop' = [loop EXCEPT ![w] = "top"]
        /\ UNCHANGED <<file, iteration, round, asked, toolFaults, alone, spawned, announcing>>
    BY <1>3 DEF TurnStarts, SubagentStarts, managerLockVars
  <2>2. \A v \in Workers : loop'[v] = "tools" <=> loop[v] = "tools"
    BY <1>2, <2>1
  <2>3. ToolsType' /\ OwnIds'
    BY <1>1, <2>1, <2>2 DEF ToolsType, OwnIds
  <2>4. AppendsSafe'
    BY <2>1, <2>2, LoopAppends
  <2> QED
    BY <2>3, <2>4 DEF ToolsInv
<1>4. CASE LoopTop(w)
  <2>1. /\ loop[w] = "top" /\ UNCHANGED <<file, round, asked, toolFaults, alone, spawned, announcing>>
        /\ \/ loop' = [loop EXCEPT ![w] = "llm"] /\ iteration' = [iteration EXCEPT ![w] = @ + 1]
              /\ iteration[w] < MaxRounds
           \/ loop' = [loop EXCEPT ![w] = "exhausted"] /\ iteration' = iteration
    BY <1>4 DEF LoopTop, managerLockVars
  <2>2. iteration' \in [Workers -> 0 .. MaxRounds]
    <3>1. iteration \in [Workers -> 0 .. MaxRounds] /\ MaxRounds \in Nat
      BY <1>1, ToolsAssumption DEF ToolsType
    <3>2. iteration[w] < MaxRounds => iteration[w] + 1 \in 0 .. MaxRounds
      BY <3>1
    <3>3. iteration' = iteration \/ (iteration[w] < MaxRounds /\ iteration' = [iteration EXCEPT ![w] = @ + 1])
      BY <2>1
    <3> QED
      BY <3>1, <3>2, <3>3
  <2>3. \A v \in Workers : loop'[v] = "tools" <=> loop[v] = "tools"
    <3>1. CASE loop' = [loop EXCEPT ![w] = "llm"]
      BY <1>2, <2>1, <3>1
    <3>2. CASE loop' = [loop EXCEPT ![w] = "exhausted"]
      BY <1>2, <2>1, <3>2
    <3> QED
      BY <2>1, <3>1, <3>2
  <2>4. loop' \in [Workers -> {"idle", "due", "top", "llm", "tools"} \cup Over]
    BY <1>1, <2>1 DEF ToolsType, Over
  <2>5. ToolsType' /\ OwnIds'
    BY <1>1, <2>1, <2>2, <2>3, <2>4 DEF ToolsType, OwnIds
  <2>6. AppendsSafe'
    BY <2>1, <2>3, LoopAppends
  <2> QED
    BY <2>5, <2>6 DEF ToolsInv
<1>5. CASE NextRound(w)
  <2>1. /\ loop' = [loop EXCEPT ![w] = "top"] /\ round' = [round EXCEPT ![w] = <<>>]
        /\ UNCHANGED <<file, iteration, asked, toolFaults, alone, spawned, announcing>>
    BY <1>5 DEF NextRound, managerLockVars
  <2>2. /\ round'[w] = <<>> /\ loop'[w] = "top"
        /\ \A v \in Workers : v # w => round'[v] = round[v] /\ loop'[v] = loop[v]
    BY <1>1, <2>1 DEF ToolsType
  <2>3. <<>> \in Seq(CallsUpTo(asked)) /\ DOMAIN <<>> = {}
    OBVIOUS
  <2>4. round' \in [Workers -> Seq(CallsUpTo(asked))]
    BY <1>1, <2>1, <2>3 DEF ToolsType
  <2>5. ToolsType'
    BY <1>1, <2>1, <2>2, <2>3, <2>4 DEF ToolsType
  <2>6. OwnIds'
    <3> SUFFICES ASSUME NEW v \in Workers, NEW i \in DOMAIN round'[v], NEW j \in DOMAIN round'[v],
                        round'[v][i].id = round'[v][j].id
                 PROVE  i = j
      BY DEF OwnIds
    <3>1. v # w
      BY <2>2, <2>3
    <3> QED
      BY <1>1, <2>2, <3>1 DEF OwnIds
  <2>7. AppendsSafe'
    <3>1. \A v \in Workers : loop'[v] = "tools" => loop[v] = "tools" /\ round'[v] = round[v]
      BY <2>2
    <3> QED
      BY <2>1, <3>1, LoopAppends
  <2> QED
    BY <2>5, <2>6, <2>7 DEF ToolsInv
<1> QED
  BY <1>3, <1>4, <1>5

LEMMA StepLLM ==
    ASSUME ToolsInv, NEW w \in Workers, LLMReturns(w)
    PROVE  ToolsInv'
<1>1. ToolsType /\ OwnIds /\ asked \in Nat /\ MaxAsked \in Nat /\ asked <= MaxAsked /\ MaxToolFaults \in Nat
  BY ToolsAssumption DEF ToolsInv, ToolsType
<1>2. loop[w] = "llm" /\ UNCHANGED <<file, iteration, spawned, announcing>>
  BY DEF LLMReturns, managerLockVars
<1>3. ASSUME NEW over \in {"answered", "failed"}, loop' = [loop EXCEPT ![w] = over],
             UNCHANGED <<round, asked, alone>>, toolFaults' \in 0 .. MaxToolFaults
      PROVE  ToolsInv'
  <2>1. \A v \in Workers : loop'[v] = "tools" <=> loop[v] = "tools"
    BY <1>1, <1>2, <1>3 DEF ToolsType
  <2>2. loop' \in [Workers -> {"idle", "due", "top", "llm", "tools"} \cup Over]
    BY <1>1, <1>3 DEF ToolsType, Over
  <2>3. ToolsType' /\ OwnIds'
    BY <1>1, <1>2, <1>3, <2>1, <2>2 DEF ToolsType, OwnIds
  <2>4. AppendsSafe'
    BY <1>2, <1>3, <2>1, LoopAppends
  <2> QED
    BY <2>3, <2>4 DEF ToolsInv
<1>4. ASSUME NEW k \in 1 .. MaxAsked - asked, loop' = [loop EXCEPT ![w] = "tools"], asked' = asked + k,
             round' = [round EXCEPT ![w] = [i \in 1 .. k |-> Call(asked + i)]],
             alone' = [alone EXCEPT ![w] = TRUE], UNCHANGED toolFaults
      PROVE  ToolsInv'
  <2> DEFINE r == [i \in 1 .. k |-> Call(asked + i)]
  <2>1. k \in Nat \ {0} /\ asked' \in 0 .. MaxAsked /\ asked' \in Nat /\ asked <= asked'
    BY <1>1, <1>4
  <2>2. FilesUpTo(asked) \subseteq FilesUpTo(asked') /\ CallsUpTo(asked) \subseteq CallsUpTo(asked')
    BY <1>1, <2>1, MoreAsked
  <2>3. \A i \in 1 .. k : /\ Call(asked + i) \in CallsUpTo(asked')
                           /\ CallSound(Call(asked + i)) /\ Call(asked + i).id = asked + i
                           /\ Call(asked + i).kind = "asked" /\ Call(asked + i).step = "asked"
    <3>1. Absent \in FilesUpTo(asked')
      BY DEF Absent, FilesUpTo
    <3>2. \A i \in 1 .. k : asked + i \in 1 .. asked'
      BY <1>1, <1>4, <2>1
    <3>3. 0 \in 0 .. MaxAsked
      BY <1>1
    <3> QED
      BY <3>1, <3>2, <3>3 DEF Call, CallsUpTo, CallSound
  <2>4. /\ r \in Seq(CallsUpTo(asked')) /\ DOMAIN r = 1 .. k /\ r # <<>>
        /\ \A i \in 1 .. k : r[i] = Call(asked + i)
    <3>1. r \in [1 .. k -> CallsUpTo(asked')]
      BY <2>3
    <3>2. 1 \in DOMAIN r
      BY <2>1
    <3>3. r \in Seq(CallsUpTo(asked'))
      BY <2>1, <3>1
    <3> QED
      BY <3>1, <3>2, <3>3
  <2>5. round' = [round EXCEPT ![w] = r]
    BY <1>4
  <2> HIDE DEF r
  <2>6. /\ round'[w] = r /\ loop'[w] = "tools"
        /\ \A v \in Workers : v # w => round'[v] = round[v] /\ loop'[v] = loop[v] /\ alone'[v] = alone[v]
    BY <1>1, <1>4, <2>5 DEF ToolsType
  <2>7. Seq(CallsUpTo(asked)) \subseteq Seq(CallsUpTo(asked'))
    BY <2>2
  <2>8. round' \in [Workers -> Seq(CallsUpTo(asked'))]
    BY <1>1, <2>4, <2>5, <2>7 DEF ToolsType
  <2>9. \A v \in Workers : \A i \in DOMAIN round'[v] : CallSound(round'[v][i])
    <3> SUFFICES ASSUME NEW v \in Workers, NEW i \in DOMAIN round'[v] PROVE CallSound(round'[v][i])
      OBVIOUS
    <3>1. CASE v = w
      BY <2>3, <2>4, <2>6, <3>1
    <3>2. CASE v # w
      BY <1>1, <2>6, <3>2 DEF ToolsType
    <3> QED
      BY <3>1, <3>2
  <2>10. \A v \in Workers : loop'[v] # "tools" <=> round'[v] = <<>>
    BY <1>1, <2>4, <2>6 DEF ToolsType
  <2>11. file' \in FilesUpTo(asked') /\ iteration' \in [Workers -> 0 .. MaxRounds]
         /\ loop' \in [Workers -> {"idle", "due", "top", "llm", "tools"} \cup Over]
         /\ alone' \in [Workers -> BOOLEAN] /\ toolFaults' \in 0 .. MaxToolFaults
    BY <1>1, <1>2, <1>4, <2>2 DEF ToolsType
  <2>12. ToolsType'
    BY <1>1, <1>2, <2>1, <2>8, <2>9, <2>10, <2>11 DEF ToolsType
  <2>13. OwnIds'
    <3> SUFFICES ASSUME NEW v \in Workers, NEW i \in DOMAIN round'[v], NEW j \in DOMAIN round'[v],
                        round'[v][i].id = round'[v][j].id
                 PROVE  i = j
      BY DEF OwnIds
    <3>1. CASE v = w
      <4>1. i \in 1 .. k /\ j \in 1 .. k /\ asked + i = asked + j
        BY <2>3, <2>4, <2>6, <3>1
      <4> QED
        BY <1>1, <2>1, <4>1
    <3>2. CASE v # w
      BY <1>1, <2>6, <3>2 DEF OwnIds
    <3> QED
      BY <3>1, <3>2
  <2>14. AppendsSafe'
    <3> SUFFICES ASSUME NEW v \in Workers, loop'[v] = "tools", alone'[v], OnlyAppends(v)'
                 PROVE  AppendsThere(v)'
      BY DEF AppendsSafe
    <3>1. CASE v = w
      <4>1. file.text \in Seq(0 .. asked) /\ file' = file
        BY <1>1, <1>2 DEF ToolsType, FilesUpTo
      <4>2. \A i \in 1 .. k : Missing(file.text, asked + i)
        BY <1>1, <4>1 DEF Missing
      <4> QED
        BY <2>3, <2>4, <2>6, <3>1, <4>1, <4>2 DEF AppendsThere
    <3>2. CASE v # w
      <4>1. loop[v] = "tools" /\ alone[v] /\ OnlyAppends(v)
        BY <2>6, <3>2 DEF OnlyAppends, Changes
      <4> QED
        BY <1>2, <2>6, <3>2, <4>1 DEF ToolsInv, AppendsSafe, AppendsThere
    <3> QED
      BY <3>1, <3>2
  <2> QED
    BY <2>12, <2>13, <2>14 DEF ToolsInv
<1> QED
  <2>1. toolFaults \in 0 .. MaxToolFaults /\ (ToolFault => toolFaults' \in 0 .. MaxToolFaults)
    BY <1>1 DEF ToolsType, ToolFault
  <2>2. \/ loop' = [loop EXCEPT ![w] = "answered"] /\ UNCHANGED <<round, asked, toolFaults, alone>>
        \/ loop' = [loop EXCEPT ![w] = "failed"] /\ ToolFault /\ UNCHANGED <<round, asked, alone>>
        \/ \E k \in 1 .. MaxAsked - asked :
              /\ loop' = [loop EXCEPT ![w] = "tools"] /\ asked' = asked + k
              /\ round' = [round EXCEPT ![w] = [i \in 1 .. k |-> Call(asked + i)]]
              /\ alone' = [alone EXCEPT ![w] = TRUE] /\ UNCHANGED toolFaults
    BY DEF LLMReturns
  <2> QED
    BY <1>3, <1>4, <2>1, <2>2

\* The lock changes hands.
LEMMA StepAnnounce ==
    ASSUME ToolsInv, Announced \/ \E s \in Workers : Announce(s)
    PROVE  ToolsInv'
<1>1. UNCHANGED <<file, loop, iteration, round, asked, toolFaults, alone>>
  BY DEF Announce, Announced
<1>2. spawned' \subseteq Delegates /\ announcing' \in Delegates \cup {"none"}
  BY DEF Announce, Announced, ToolsInv, ToolsType
<1>3. ToolsType' /\ OwnIds'
  BY <1>1, <1>2 DEF ToolsInv, ToolsType, OwnIds
<1>4. AppendsSafe'
  BY <1>1, LoopAppends
<1> QED
  BY <1>3, <1>4 DEF ToolsInv

LEMMA StepTools == ToolsInv /\ [ToolsNext]_toolVars => ToolsInv'
<1> SUFFICES ASSUME ToolsInv, [ToolsNext]_toolVars PROVE ToolsInv'
  OBVIOUS
<1>1. CASE ToolsNext
  <2>1. ASSUME NEW w \in Workers, TurnStarts(w) \/ LoopSteps(w) \/ LLMReturns(w) PROVE ToolsInv'
    BY <2>1, StepLoops, StepLLM DEF LoopSteps
  <2>2. ASSUME NEW w \in Workers, NEW i \in DOMAIN round[w],
               \/ CallStarts(w, i) \/ AppendFails(w, i) \/ CallGoesOn(w, i) \/ WriteFails(w, i)
               \/ ExecExits(w, i)
        PROVE  ToolsInv'
    BY <2>2, StepCalls, StepAppend, StepAppendFails, StepWrites, StepDelegated, StepDelegateStarts
       DEF CallStarts, CallGoesOn
  <2>3. ASSUME Announced \/ \E s \in Workers : Announce(s) PROVE ToolsInv'
    BY <2>3, StepAnnounce
  <2> QED
    BY <1>1, <2>1, <2>2, <2>3 DEF ToolsNext
<1>2. CASE UNCHANGED toolVars
  <2>1. ToolsType'
    BY <1>2 DEF toolVars, ToolsInv, ToolsType
  <2>2. OwnIds'
    BY <1>2 DEF toolVars, ToolsInv, OwnIds
  <2>3. AppendsSafe'
    BY <1>2, LoopAppends DEF toolVars
  <2> QED
    BY <2>1, <2>2, <2>3 DEF ToolsInv
<1> QED
  BY <1>1, <1>2

LEMMA ToolsTypes == ToolsInv => ToolsTypeOK
<1> SUFFICES ASSUME ToolsInv PROVE ToolsTypeOK
  OBVIOUS
<1>1. ToolsType /\ asked \in Nat /\ MaxAsked \in Nat /\ asked <= MaxAsked
  BY ToolsAssumption DEF ToolsInv, ToolsType
<1>2. file \in FilesUpTo(MaxAsked)
  BY <1>1, MoreAsked DEF ToolsType
<1> QED
  BY <1>1, <1>2 DEF ToolsType, ToolsTypeOK, FilesUpTo

LEMMA AlwaysTools == ToolsSpec => []ToolsInv
BY InitTools, StepTools, PTL DEF ToolsSpec

\* The file holds only what the user and the calls wrote, and a loop has calls to run exactly
\* when it runs them.
THEOREM ToolsTyped == ToolsSpec => []ToolsTypeOK
BY AlwaysTools, ToolsTypes, PTL

\* No append of a round that says it succeeded is lost (AppendFileTool.Execute, edit.go), for
\* any number of turns, subagents and calls, whatever the order in which they run.
THEOREM NothingAppendedLost == ToolsSpec => []AppendsKept
<1>1. ToolsInv => AppendsKept
  <2> SUFFICES ASSUME ToolsInv, NEW w \in Workers, loop[w] = "tools", alone[w], OnlyAppends(w),
                      NEW i \in Changes(w), round[w][i].result = "ok"
               PROVE  Count(file.text, round[w][i].id) = 1
    BY DEF AppendsKept
  <2>1. OnceIn(file.text, round[w][i].id)
    BY DEF ToolsInv, AppendsSafe, AppendsThere, OnlyAppends, Changes
  <2>2. PICK k \in DOMAIN file.text :
          /\ file.text[k] = round[w][i].id
          /\ \A j \in DOMAIN file.text : file.text[j] = round[w][i].id => j = k
    BY <2>1 DEF OnceIn
  <2>3. {j \in DOMAIN file.text : file.text[j] = round[w][i].id} = {k}
    BY <2>2
  <2> QED
    BY <2>3, FS_Singleton DEF Count
<1> QED
  BY <1>1, AlwaysTools, PTL

-----------------------------------------------------------------------------
\* The composition.

ServicesImply ==
    /\ WebSpec /\ ManagerSpec /\ PlaceSpec /\ StoresSpec
    /\ AdaptersSpec /\ LinksSpec /\ CredentialsSpec /\ ToolsSpec

LEMMA ServicesStep ==
    ASSUME [ServicesNext]_serviceVars
    PROVE  /\ [WebNext]_webVars /\ [ManagerNext]_managerVars /\ [PlaceNext]_placeVars
           /\ [StoresNext]_storesVars /\ [AdaptersNext]_adapterVars /\ [LinksNext]_linkVars
           /\ [CredentialsNext]_credentialVars /\ [ToolsNext]_toolVars
<1>1. CASE UNCHANGED serviceVars
  <2>1. UNCHANGED <<webVars, managerVars, placeVars, storesVars, adapterVars, linkVars, credentialVars, toolVars>>
    BY <1>1 DEF serviceVars
  <2> QED
    BY <2>1
<1>2. CASE ServicesNext
  <2>1. (part = "web" /\ WebNext) \/ (part # "web" /\ UNCHANGED webVars)
    BY <1>2 DEF ServicesNext, StoreParts
  <2>2. (part = "manager" /\ ManagerNext) \/ (part # "manager" /\ UNCHANGED managerVars)
    BY <1>2 DEF ServicesNext, StoreParts
  <2>3. (part = "place" /\ PlaceNext) \/ (part # "place" /\ UNCHANGED placeVars)
    BY <1>2 DEF ServicesNext, StoreParts
  <2>4. (part \in StoreParts /\ StoresNext) \/ (part \notin StoreParts /\ UNCHANGED storesVars)
    BY <1>2 DEF ServicesNext, StoreParts, StoresNext
  <2>5. (part = "adapters" /\ AdaptersNext) \/ (part # "adapters" /\ UNCHANGED adapterVars)
    BY <1>2 DEF ServicesNext, StoreParts
  <2>6. (part = "links" /\ LinksNext) \/ (part # "links" /\ UNCHANGED linkVars)
    BY <1>2 DEF ServicesNext, StoreParts
  <2>7. (part = "credentials" /\ CredentialsNext) \/ (part # "credentials" /\ UNCHANGED credentialVars)
    BY <1>2 DEF ServicesNext, StoreParts
  <2>8. (part = "tools" /\ ToolsNext) \/ (part # "tools" /\ UNCHANGED toolVars)
    BY <1>2 DEF ServicesNext, StoreParts
  <2> QED
    BY <2>1, <2>2, <2>3, <2>4, <2>5, <2>6, <2>7, <2>8
<1> QED
  BY <1>1, <1>2

\* The composition that MCServices checks implements the specification of each of its
\* components, fairness included: what is proved of a component alone holds in it.
THEOREM ServicesImplement == ServicesSpec => ServicesImply
<1>1. ServicesInit => /\ WebInit /\ ManagerInit /\ PlaceInit /\ StoresInit
                      /\ AdaptersInit /\ LinksInit /\ CredentialsInit /\ ToolsInit
  BY DEF ServicesInit
<1> QED
  BY <1>1, ServicesStep, PTL
     DEF ServicesSpec, ServicesImply, WebSpec, ManagerSpec, PlaceSpec, StoresSpec, AdaptersSpec,
         LinksSpec, CredentialsSpec, ToolsSpec

\* Every variable of every service has its type.
THEOREM ServicesTyped == ServicesSpec => []ServicesTypeOK
<1>1. /\ WebTypeOK /\ ManagerTypeOK /\ PlaceTypeOK /\ StoresTypeOK
      /\ AdaptersTypeOK /\ LinksTypeOK /\ CredentialsTypeOK /\ ToolsTypeOK
      => ServicesTypeOK
  BY DEF ServicesTypeOK
<1> QED
  BY <1>1, ServicesImplement, WebTypes, ManagerTypeCorrect, PlaceTypeCorrect, StoresTyped, AdaptersTyped,
     LinksTyped, CredentialsTyped, ToolsTyped, PTL DEF ServicesImply
=============================================================================
