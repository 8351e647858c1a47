---------------------------- MODULE ChatAdapters ----------------------------
(***************************************************************************)
(* The chat adapters (pkg/channels/*.go): what each makes of an event of   *)
(* its platform, what it remembers of a chat until a message goes there,   *)
(* and how Send uses that.  Telegram shows a placeholder which the answer  *)
(* replaces, Slack a reaction which the answer completes, LINE keeps a     *)
(* token for one reply, DingTalk the webhook of the conversation; OneBot   *)
(* and QQ drop what they have seen.  One process runs one adapter here:    *)
(* adapters share nothing but the bus.                                     *)
(***************************************************************************)
EXTENDS Naturals, Sequences, FiniteSets

CONSTANTS
    Chats,
    MsgIds,         \* ids the platform gives messages; it may deliver one again
    Blank,          \* the id of a message without one: empty, or 0
    DedupSize,      \* ids OneBot remembers (1024)
    TableCap,       \* ids QQ remembers before it drops half of them (10000)
    MaxArrivals,    \* bound: events
    MaxKept,        \* bound: events of an adapter that does not compare ids
    MaxSends,       \* bound: outbound messages
    MaxApiFaults    \* bound: calls of the platform that fail

ASSUME AdaptersAssumption ==
    /\ Blank \notin MsgIds
    /\ DedupSize \in Nat \ {0} /\ TableCap \in Nat \ {0}
    /\ MaxKept \in Nat /\ MaxArrivals \in Nat \ (0 .. MaxKept - 1) /\ MaxSends \in Nat /\ MaxApiFaults \in Nat

Numbers == 1 .. MaxArrivals
ChatKeys == Chats \X (0 .. MaxArrivals)     \* a chat, or a thread: the number of its message

PlatformIds == MsgIds \cup {Blank}

PlatformEvents == [chat : Chats, id : PlatformIds,
           kind : {"private", "group", "mention", "command", "other"},
           from : {"allowed", "denied", "self"},      \* self: the bot, or no sender
           content : {"text", "file", "none"}]        \* file: an attachment and no text

VARIABLES
    platform,   \* of the adapter
    arrived,    \* events so far, numbered in the order they arrive
    handlers,   \* events being handled
    kept,       \* of a chat: number of the event remembered, 0: none
    marks,      \* events the chat shows as in progress
    inbound,    \* how many became inbound messages
    sending,    \* the dispatcher's Send
    sends,      \* bound: outbound messages so far
    late,       \* a send of Discord still runs that was given up
    apiFaults,  \* bound: failed calls
    dedup,      \* ids seen
    dedupRing,  \* OneBot: those, oldest first
    uses,       \* history: how often the memory of an event was used
    excused,    \* history: events whose mark may stay
    sees,       \* history: the event whose mark the chat showed when the Send began
    reached,    \* history: events whose mark a message to the chat has met
    acceptedIds \* history: ids that were compared and remembered

adapterVars == <<platform, arrived, handlers, kept, marks, inbound, sending, sends, late, apiFaults,
                 dedup, dedupRing, uses, excused, sees, reached, acceptedIds>>
sendVars == <<sending, sends, late, sees, reached>>
dedupVars == <<dedup, dedupRing, acceptedIds>>

AllPlatforms == {"telegram", "slack", "line", "dingtalk", "discord", "feishu", "onebot", "qq",
                 "whatsapp", "maixcam"}
NoSend == [step |-> "none", chat |-> <<>>, item |-> 0]

AdaptersInit ==
    /\ platform \in AllPlatforms
    /\ arrived = 0 /\ handlers = {} /\ kept = [c \in ChatKeys |-> 0] /\ marks = {} /\ inbound = 0
    /\ sending = NoSend /\ sends = 0 /\ late = FALSE /\ apiFaults = 0
    /\ dedup = {} /\ dedupRing = <<>>
    /\ uses = [n \in Numbers |-> 0] /\ excused = {} /\ sees = 0 /\ reached = {} /\ acceptedIds = <<>>

ApiFault == apiFaults < MaxApiFaults /\ apiFaults' = apiFaults + 1

-----------------------------------------------------------------------------
\* What becomes of an event: whether it is taken up, and whether it is published.

Fate(takes, publishes) == [takes |-> takes, publishes |-> takes /\ publishes]

\* IsAllowed: of the sender's id, user name, or both, one is in the list, or the list is empty.
IsAllowed(e) == e.from = "allowed"

\* DownloadFile: an attachment is fetched into a temporary file, or it is not.
DownloadFile(e) == IF e.content = "file" THEN BOOLEAN ELSE {TRUE}

\* The allow list comes before everything; a message without content has a text for that.
TelegramMessage(e) == Fate(IsAllowed(e) /\ e.kind # "other", TRUE)

\* The allow list first; a message that comes to nothing is marked by then.
SlackMessage(e, fetched) ==
    Fate(IsAllowed(e) /\ e.kind # "other", e.content = "text" \/ (e.content = "file" /\ fetched))

\* No allow list before the mark, and no files.
SlackMention(e) == Fate(e.from # "self", IsAllowed(e) /\ e.content = "text")

\* An empty command is "help".
SlackCommand(e) == Fate(TRUE, IsAllowed(e))

\* The address of a file is content, fetched or not.
DiscordMessage(e) == Fate(IsAllowed(e), e.content # "none")

\* The webhook takes a body with a valid signature, and answers before it handles the events.
LineWebhook(e) == e.kind # "other"

LineMentioned(e) == e.kind = "mention"

\* In groups a mention is needed; the token is kept before the allow list is asked.
LineEvent(e, fetched) ==
    Fate(LineWebhook(e) /\ (e.kind = "private" \/ LineMentioned(e)),
         IsAllowed(e) /\ (e.content = "text" \/ (e.content = "file" /\ fetched)))

\* Responses, heartbeats, notices and requests are no messages, nor is what has no sender.
OneBotIsMessage(e) == e.kind # "other" /\ e.from # "self"

\* A mention or one of the configured prefixes.
OneBotTriggered(e) == e.kind = "mention"

\* The text of the message, or of its segments; files are no content.
OneBotMessage(e) ==
    Fate(OneBotIsMessage(e) /\ e.content = "text" /\ (e.kind = "private" \/ OneBotTriggered(e)),
         IsAllowed(e))

QQMessage(e) == Fate(e.kind = "private" /\ e.from # "self" /\ e.content = "text", IsAllowed(e))

\* Of a group only what mentions the bot is delivered.
QQGroupMessage(e) == Fate(e.kind = "mention" /\ e.from # "self" /\ e.content = "text", IsAllowed(e))

DingTalkMessage(e) == Fate(e.content = "text", IsAllowed(e))

FeishuMessage(e) == Fate(e.kind # "other", IsAllowed(e))

WhatsAppMessage(e) == Fate(e.from # "self" /\ e.kind # "other", IsAllowed(e))

\* Only a detected person; heartbeats and states are logged.
MaixCamMessage(e) == Fate(e.kind = "private", IsAllowed(e))

Slack(e, fetched) ==
    CASE e.kind = "mention" -> SlackMention(e)
      [] e.kind = "command" -> SlackCommand(e)
      [] OTHER -> SlackMessage(e, fetched)

FateOf(e, fetched) ==
    CASE platform = "telegram" -> TelegramMessage(e)
      [] platform = "slack"    -> Slack(e, fetched)
      [] platform = "discord"  -> DiscordMessage(e)
      [] platform = "line"     -> LineEvent(e, fetched)
      [] platform = "onebot"   -> OneBotMessage(e)
      [] platform = "qq"       -> IF e.kind = "mention" THEN QQGroupMessage(e) ELSE QQMessage(e)
      [] platform = "dingtalk" -> DingTalkMessage(e)
      [] platform = "feishu"   -> FeishuMessage(e)
      [] platform = "whatsapp" -> WhatsAppMessage(e)
      [] platform = "maixcam"  -> MaixCamMessage(e)

\* Where the answer goes: on Slack the thread of the message, if it is in one, and a
\* mention outside a thread opens one; a command has no thread.
KeyOf(e, thread, n) ==
    <<e.chat, IF platform # "slack" \/ e.kind = "command" THEN 0
              ELSE IF e.kind = "mention" /\ thread = 0 THEN n ELSE thread>>

-----------------------------------------------------------------------------
\* Duplicates.

\* Mutant of OneBotRemember: the ring keeps one id less than it has room for.
OneBotRememberLess(id) ==
    LET full == Len(dedupRing) = DedupSize - 1
    IN /\ dedupRing' = Append(IF full THEN Tail(dedupRing) ELSE dedupRing, id)
       /\ dedup' = (IF full THEN dedup \ {Head(dedupRing)} ELSE dedup) \cup {id}

\* Mutant of OneBotRemember: the oldest id is never forgotten.
OneBotRememberAll(id) ==
    dedupRing' = Append(dedupRing, id) /\ dedup' = dedup \cup {id}

\* isDuplicate of OneBot: the slot of the oldest id is used again.
OneBotRemember(id) ==
    LET full == Len(dedupRing) = DedupSize
    IN /\ dedupRing' = Append(IF full THEN Tail(dedupRing) ELSE dedupRing, id)
       /\ dedup' = (IF full THEN dedup \ {Head(dedupRing)} ELSE dedup) \cup {id}

\* isDuplicate of QQ: half of a full table goes, in the order of a map.
QQRemember(id) ==
    /\ UNCHANGED dedupRing
    /\ IF Cardinality(dedup) < TableCap THEN dedup' = dedup \cup {id}
       ELSE \E gone \in SUBSET (dedup \cup {id}) :
              /\ Cardinality(gone) = TableCap \div 2
              /\ dedup' = (dedup \cup {id}) \ gone

Compares == platform \in {"onebot", "qq"}

\* QQ asks before anything else, OneBot once it has a message, and that has an id.
AsksForDuplicates(e) ==
    \/ platform = "qq" /\ e.kind \in {"private", "mention"}
    \/ platform = "onebot" /\ OneBotIsMessage(e) /\ e.id # Blank

\* A new id is remembered, whatever becomes of its message.
Remembered(e) ==
    IF ~AsksForDuplicates(e) THEN UNCHANGED dedupVars
    ELSE /\ e.id \notin dedup
         /\ IF platform = "onebot" THEN OneBotRemember(e.id) ELSE QQRemember(e.id)
         /\ acceptedIds' = Append(acceptedIds, e.id)

-----------------------------------------------------------------------------
\* Inbound.

Marks == platform \in {"telegram", "slack"}
Keeps == Marks \/ platform \in {"line", "dingtalk"}

\* Adapters that handle events one after the other; the others have a goroutine each.
Serial == platform \in {"telegram", "slack", "onebot", "qq", "whatsapp"}

\* On Slack an event may be in the thread of an earlier one.
Threads == IF platform = "slack" THEN 0 .. arrived ELSE {0}

\* Ids are told apart where they are compared; to QQ no id would be one more id.
IdsOf == IF platform = "onebot" THEN PlatformIds ELSE IF platform = "qq" THEN MsgIds ELSE {Blank}

\* An event arrives and passes the check for duplicates and the conditions to take it up.
Arrive(e, fetched, thread) ==
    LET fate == FateOf(e, fetched)
        n == arrived + 1
        marked == Keeps /\ ~(platform = "slack" /\ e.kind = "command")
    IN /\ thread \in Threads /\ e.id \in IdsOf
       /\ arrived < (IF Compares THEN MaxArrivals ELSE MaxKept) /\ (Serial => handlers = {})
       /\ Remembered(e)
       /\ arrived' = n
       /\ handlers' = IF fate.takes
                      THEN handlers \cup {[n |-> n, chat |-> KeyOf(e, thread, n), publishes |-> fate.publishes,
                                           step |-> IF marked THEN (IF Marks THEN "mark" ELSE "keep")
                                                              ELSE "publish"]}
                      ELSE handlers
       /\ UNCHANGED <<platform, kept, marks, inbound, apiFaults, uses, excused>> /\ UNCHANGED sendVars

Stepped(h, to) == handlers' = (handlers \ {h}) \cup {[h EXCEPT !.step = to]}

\* The placeholder of Telegram, the eyes of Slack.  Without its placeholder Telegram
\* keeps nothing; Slack does.
Mark(h) ==
    /\ h.step = "mark"
    /\ \/ marks' = marks \cup {h.n} /\ Stepped(h, "keep") /\ UNCHANGED apiFaults
       \/ /\ ApiFault /\ UNCHANGED marks
          /\ Stepped(h, IF platform = "telegram" THEN "publish" ELSE "keep")
    /\ UNCHANGED <<platform, arrived, kept, inbound, uses, excused>>
    /\ UNCHANGED dedupVars /\ UNCHANGED sendVars

\* The event takes the place of the one the chat was remembered by.
Keep(h) ==
    /\ h.step = "keep"
    /\ kept' = [kept EXCEPT ![h.chat] = h.n]
    /\ excused' = excused \cup ({kept[h.chat]} \ {0})
    /\ Stepped(h, "publish")
    /\ UNCHANGED <<platform, arrived, marks, inbound, apiFaults, uses>>
    /\ UNCHANGED dedupVars /\ UNCHANGED sendVars

\* HandleMessage, and the handler returns.
HandleMessage(h) ==
    /\ h.step = "publish"
    /\ inbound' = IF h.publishes THEN inbound + 1 ELSE inbound
    /\ handlers' = handlers \ {h}
    /\ UNCHANGED <<platform, arrived, kept, marks, apiFaults, uses, excused>>
    /\ UNCHANGED dedupVars /\ UNCHANGED sendVars

-----------------------------------------------------------------------------
\* Send.

inboundVars == <<platform, arrived, handlers, inbound>>

Calls(c, item) == [step |-> "call", chat |-> c, item |-> item]

\* The Send is over; if the message got there it has met the mark that was shown.
SendOver(there) ==
    /\ sending' = NoSend /\ sees' = 0
    /\ reached' = IF there THEN reached \cup ({sees} \ {0}) ELSE reached

GoesOn(to) == sending' = [sending EXCEPT !.step = to] /\ UNCHANGED <<sees, reached>>

\* What each Send begins with.  Telegram loads the placeholder, if the chat is a number.
TelegramSend(c) == {[Calls(c, kept[c]) EXCEPT !.step = "forget"]}

\* The token is taken out; LINE takes out the quote token with it.
LineSend(c) == {[Calls(c, kept[c]) EXCEPT !.step = "reply"]}

\* Without a webhook of the chat there is nowhere to send to.
DingTalkSend(c) == {IF kept[c] = 0 THEN NoSend ELSE Calls(c, kept[c])}

SlackSend(c) == {Calls(c, 0)}
DiscordSend(c) == {Calls(c, 0)}
FeishuSend(c) == {Calls(c, 0)}
QQSend(c) == {Calls(c, 0)}

\* Without a connection, or a device, there is an error.
OneBotSend(c) == {Calls(c, 0), NoSend}
WhatsAppSend(c) == {Calls(c, 0), NoSend}
MaixCamSend(c) == {Calls(c, 0), NoSend}

SendOf(c) ==
    CASE platform = "telegram" -> TelegramSend(c) [] platform = "line"     -> LineSend(c)
      [] platform = "dingtalk" -> DingTalkSend(c) [] platform = "slack"    -> SlackSend(c)
      [] platform = "discord"  -> DiscordSend(c)  [] platform = "feishu"   -> FeishuSend(c)
      [] platform = "qq"       -> QQSend(c)       [] platform = "onebot"   -> OneBotSend(c)
      [] platform = "whatsapp" -> WhatsAppSend(c) [] platform = "maixcam"  -> MaixCamSend(c)

\* The dispatcher has a message for a chat: of an answer, a job or a notification.
SendStart(c) ==
    /\ sending = NoSend /\ sends < MaxSends /\ sends' = sends + 1
    /\ sees' = (IF Marks THEN kept[c] ELSE 0) /\ UNCHANGED reached
    /\ c[2] \in 0 .. arrived
    /\ sending' \in SendOf(c)
    /\ kept' = IF platform = "line" THEN [kept EXCEPT ![c] = 0] ELSE kept
    /\ UNCHANGED <<late, marks, apiFaults, uses, excused>> /\ UNCHANGED inboundVars /\ UNCHANGED dedupVars

\* Telegram: Delete after Load, whatever is there by now.
TelegramForget ==
    /\ sending.step = "forget"
    /\ IF sending.item = 0
       THEN GoesOn("call") /\ UNCHANGED <<kept, excused>>
       ELSE /\ GoesOn("edit")
            /\ kept' = [kept EXCEPT ![sending.chat] = 0]
            /\ excused' = excused \cup ({kept[sending.chat]} \ {0, sending.item})
    /\ UNCHANGED <<sends, late, marks, apiFaults, uses>> /\ UNCHANGED inboundVars /\ UNCHANGED dedupVars

\* The placeholder becomes the answer, or a new message is sent.
TelegramEdit ==
    /\ sending.step = "edit"
    /\ uses' = [uses EXCEPT ![sending.item] = @ + 1]
    /\ \/ marks' = marks \ {sending.item} /\ SendOver(TRUE) /\ UNCHANGED <<apiFaults, excused>>
       \/ /\ ApiFault /\ excused' = excused \cup {sending.item}
          /\ GoesOn("call") /\ UNCHANGED marks
    /\ UNCHANGED <<sends, late, kept>> /\ UNCHANGED inboundVars /\ UNCHANGED dedupVars

\* LINE: the reply if the token is younger than 25 seconds, and if that fails the push.
LineReply ==
    /\ sending.step = "reply"
    /\ \/ /\ sending.item # 0 /\ uses' = [uses EXCEPT ![sending.item] = @ + 1]
          /\ \/ SendOver(TRUE) /\ UNCHANGED apiFaults
             \/ ApiFault /\ GoesOn("call")
       \/ GoesOn("call") /\ UNCHANGED <<uses, apiFaults>>
    /\ UNCHANGED <<sends, late, kept, marks, excused>> /\ UNCHANGED inboundVars /\ UNCHANGED dedupVars

\* The call that sends the message.  Discord gives up after ten seconds, and the call
\* goes on; Telegram tries again without markup; on Slack the reaction follows.
SendCall ==
    /\ sending.step = "call"
    /\ \/ /\ IF platform = "slack" THEN GoesOn("ack") ELSE SendOver(TRUE)
          /\ UNCHANGED <<apiFaults, late>>
       \/ /\ ApiFault
          /\ IF platform = "telegram" THEN GoesOn("plain") ELSE SendOver(FALSE)
          /\ late' = (late \/ platform = "discord")
    /\ UNCHANGED <<sends, kept, marks, uses, excused>> /\ UNCHANGED inboundVars /\ UNCHANGED dedupVars

PlainCall ==
    /\ sending.step = "plain"
    /\ \/ SendOver(TRUE) /\ UNCHANGED apiFaults
       \/ SendOver(FALSE) /\ ApiFault
    /\ UNCHANGED <<sends, late, kept, marks, uses, excused>>
    /\ UNCHANGED inboundVars /\ UNCHANGED dedupVars

DiscordLate ==
    /\ late /\ late' = FALSE
    /\ UNCHANGED <<sending, sends, sees, reached, kept, marks, apiFaults, uses, excused>>
    /\ UNCHANGED inboundVars /\ UNCHANGED dedupVars

\* Mutant of SlackAck: the reference is loaded and stays.
SlackAckKeeps ==
    /\ sending.step = "ack" /\ SendOver(TRUE)
    /\ LET n == kept[sending.chat]
       IN IF n = 0 THEN UNCHANGED <<marks, uses>>
          ELSE uses' = [uses EXCEPT ![n] = @ + 1] /\ marks' = marks \ {n}
    /\ UNCHANGED <<sends, late, kept, apiFaults, excused>> /\ UNCHANGED inboundVars /\ UNCHANGED dedupVars

\* Slack: LoadAndDelete, and the check mark.
SlackAck ==
    /\ sending.step = "ack" /\ SendOver(TRUE)
    /\ LET n == kept[sending.chat]
       IN IF n = 0 THEN UNCHANGED <<kept, marks, uses, apiFaults, excused>>
          ELSE /\ kept' = [kept EXCEPT ![sending.chat] = 0]
               /\ uses' = [uses EXCEPT ![n] = @ + 1]
               /\ \/ marks' = marks \ {n} /\ UNCHANGED <<apiFaults, excused>>
                  \/ ApiFault /\ excused' = excused \cup {n} /\ UNCHANGED marks
    /\ UNCHANGED <<sends, late>> /\ UNCHANGED inboundVars /\ UNCHANGED dedupVars

AdaptersNext ==
    \/ \E e \in PlatformEvents, thread \in Threads :
         \E fetched \in DownloadFile(e) : Arrive(e, fetched, thread)
    \/ \E h \in handlers : Mark(h) \/ Keep(h) \/ HandleMessage(h)
    \/ \E c \in ChatKeys : SendStart(c)
    \/ TelegramForget \/ TelegramEdit \/ LineReply \/ SendCall \/ PlainCall \/ DiscordLate \/ SlackAck

AdaptersSpec == AdaptersInit /\ [][AdaptersNext]_adapterVars

-----------------------------------------------------------------------------
AdaptersTypeOK ==
    /\ platform \in AllPlatforms /\ arrived \in 0 .. MaxArrivals
    /\ \A h \in handlers : h.n \in Numbers /\ h.chat \in ChatKeys /\ h.step \in {"mark", "keep", "publish"}
    /\ kept \in [ChatKeys -> 0 .. MaxArrivals] /\ marks \subseteq Numbers /\ inbound <= arrived
    /\ sending.step \in {"none", "forget", "edit", "reply", "call", "plain", "ack"}
    /\ sends \in 0 .. MaxSends /\ late \in BOOLEAN /\ apiFaults \in 0 .. MaxApiFaults
    /\ sees \in 0 .. MaxArrivals /\ reached \subseteq Numbers
    /\ dedup \subseteq PlatformIds /\ Len(dedupRing) <= DedupSize

\* A placeholder of Telegram and a pair of eyes on Slack wait for one message to their
\* chat: no message takes the same one twice, and none is left behind by a message that
\* reaches the chat and began when it was shown, unless a newer message of the chat took
\* its place before, the platform failed to replace it, or (Telegram) it was stored
\* between the Load and the Delete of a Send.  Whether a message comes is another matter:
\* Slack shows the eyes to what it drops next (a mention or a message whose sender is not
\* allowed, or without content), and those stand until something else is said there.
\* A token of LINE is used for one reply.
MarksAnswered ==
    /\ \A n \in Numbers : uses[n] <= 1
    /\ \A n \in marks \ excused :
         \/ \E h \in handlers : h.n = n
         \/ n \notin reached /\ \E c \in ChatKeys : kept[c] = n
         \/ sending.item = n

\* A message is handled twice only if OneBot has since remembered as many others as its
\* ring holds, or QQ has filled its table.  OneBot compares no message without an id: such
\* a one is handled as often as it is delivered, and no id is forgotten for it.
DuplicateAfterEviction ==
    \A i, j \in DOMAIN acceptedIds :
        i < j /\ acceptedIds[i] = acceptedIds[j] =>
            IF platform = "onebot" THEN j - i > DedupSize ELSE j > TableCap + 1
=============================================================================
