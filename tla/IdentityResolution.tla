--------------------------- MODULE IdentityResolution ---------------------------
(***************************************************************************)
(* The first transaction of a message: its phone number, contact,          *)
(* conversation and session are found or created and the message row is    *)
(* inserted, all before the commit in register_inbound.  WebhookPipeline   *)
(* has this as two actions, LoadSession and RegisterMessage; here it runs  *)
(* statement by statement on PostgreSQL at READ COMMITTED, the messages of *)
(* several users arriving at once on a phone number nobody has             *)
(* provisioned.                                                            *)
(*                                                                         *)
(* A row is absent, committed, or the uncommitted insert of a worker.  An  *)
(* insert that meets another worker's uncommitted row waits for its commit *)
(* or rollback, and so does an update of a row another worker has updated: *)
(* such an action is not enabled.                                          *)
(*                                                                         *)
(* A definition marked as a seeded error is used by no action.             *)
(***************************************************************************)
EXTENDS Naturals, FiniteSets

CONSTANTS
  Worker,
  Message,
  User,
  UserOf,          \* the sender of a message
  PhoneTries,      \* the range() of PhoneNumberService.resolve
  MaxDuplicates,   \* bound: deliveries beside the ones Meta owes
  MaxCrashes,      \* bound: transactions lost to a crash or a failed database
  NoMessage

ASSUME IdentityAssumption ==
  /\ UserOf \in [Message -> User]
  /\ PhoneTries \in Nat \ {0} /\ MaxDuplicates \in Nat /\ MaxCrashes \in Nat
  /\ NoMessage \notin Message
  /\ Worker \cap {"absent", "committed", "none"} = {}

VARIABLES
  phone,          \* the phone number row, with its business account
  contact,        \* contacts by user
  conversation,   \* conversations by user
  session,        \* conversation_sessions by user
  message,        \* inbound messages by wamid
  renaming,       \* the worker whose update locks a contact row, or "none"
  touching,       \* the same for a conversation row
  step, job,      \* the next statement of each worker, and its message
  tries,          \* unique violations it has met on the phone number
  aborts,         \* why transactions were rolled back, so far
  dups, crashes

rows  == <<phone, contact, conversation, session, message>>
locks == <<renaming, touching>>
vars  == <<rows, locks, step, job, tries, aborts, dups, crashes>>

Step == {"idle", "phone", "insertPhone", "contact", "insertContact", "rename",
         "conversation", "insertConversation", "session", "touch", "message", "commit"}

u(w) == UserOf[job[w]]
Goto(w, s) == step' = [step EXCEPT ![w] = s]

Init ==
  /\ phone = "absent"
  /\ contact = [x \in User |-> "absent"]
  /\ conversation = contact /\ session = contact
  /\ message = [m \in Message |-> "absent"]
  /\ renaming = [x \in User |-> "none"] /\ touching = renaming
  /\ step = [w \in Worker |-> "idle"]
  /\ job = [w \in Worker |-> NoMessage]
  /\ tries = [w \in Worker |-> 0]
  /\ aborts = {}
  /\ dups = 0 /\ crashes = 0

-----------------------------------------------------------------------------
(* Ends of a transaction.                                                  *)

\* What becomes of a worker's uncommitted rows, and of its locks.
Settle(w, table, outcome) ==
  [x \in DOMAIN table |-> IF table[x] = w THEN outcome ELSE table[x]]

EndTransaction(w, outcome) ==
  /\ phone' = IF phone = w THEN outcome ELSE phone
  /\ contact' = Settle(w, contact, outcome)
  /\ conversation' = Settle(w, conversation, outcome)
  /\ session' = Settle(w, session, outcome)
  /\ message' = Settle(w, message, outcome)
  /\ renaming' = Settle(w, renaming, "none")
  /\ touching' = Settle(w, touching, "none")
  /\ Goto(w, "idle")
  /\ job' = [job EXCEPT ![w] = NoMessage]
  /\ tries' = [tries EXCEPT ![w] = 0]

\* The exception ends the request: 503, and Meta delivers again.
Abort(w, why) ==
  /\ EndTransaction(w, "absent")
  /\ aborts' = aborts \cup {why}
  /\ UNCHANGED <<dups, crashes>>

\* register_inbound's commit.
Commit(w) ==
  /\ step[w] = "commit"
  /\ EndTransaction(w, "committed")
  /\ UNCHANGED <<aborts, dups, crashes>>

Crash(w) ==
  /\ step[w] # "idle" /\ crashes < MaxCrashes
  /\ EndTransaction(w, "absent")
  /\ crashes' = crashes + 1
  /\ UNCHANGED <<aborts, dups>>

\* A message is delivered: again for as long as it is not registered.
Deliver(w, m) ==
  /\ step[w] = "idle"
  /\ \/ message[m] # "committed" /\ (\A v \in Worker : job[v] # m) /\ UNCHANGED dups
     \/ dups < MaxDuplicates /\ dups' = dups + 1
  /\ job' = [job EXCEPT ![w] = m]
  /\ Goto(w, "phone")
  /\ UNCHANGED <<rows, locks, tries, aborts, crashes>>

-----------------------------------------------------------------------------
(* PhoneNumberService.resolve.                                             *)

\* After the last try the query decides alone: a row or RuntimeError.
FindPhone(w) ==
  /\ step[w] = "phone"
  /\ IF phone # "committed" /\ tries[w] = PhoneTries THEN Abort(w, "phone")
     ELSE /\ Goto(w, IF phone = "committed" THEN "contact" ELSE "insertPhone")
          /\ UNCHANGED <<rows, locks, job, tries, aborts, dups, crashes>>

InsertPhone(w) ==
  /\ step[w] = "insertPhone" /\ phone = "absent"
  /\ phone' = w
  /\ Goto(w, "contact")
  /\ UNCHANGED <<contact, conversation, session, message, locks, job, tries, aborts, dups, crashes>>

\* IntegrityError: the savepoint is rolled back and the loop looks again.
\* (InsertPhoneBlindly: seeded error, it inserts again without looking.)
InsertPhoneBlindly(w) ==
  /\ step[w] = "insertPhone" /\ phone = "committed"
  /\ UNCHANGED vars

PhoneTaken(w) ==
  /\ step[w] = "insertPhone" /\ phone = "committed"
  /\ tries' = [tries EXCEPT ![w] = @ + 1]
  /\ Goto(w, "phone")
  /\ UNCHANGED <<rows, locks, job, aborts, dups, crashes>>

-----------------------------------------------------------------------------
(* ContactService.find_or_create.                                          *)

\* A display name that differs is an UPDATE, flushed by the next query.
FindContact(w) ==
  /\ step[w] = "contact"
  /\ \/ contact[u(w)] = "committed" /\ \E next \in {"rename", "conversation"} : Goto(w, next)
     \/ contact[u(w)] # "committed" /\ Goto(w, "insertContact")
  /\ UNCHANGED <<rows, locks, job, tries, aborts, dups, crashes>>

\* (CommitContact: seeded error, the new contact is committed at once.)
CommitContact(w) ==
  /\ step[w] = "insertContact" /\ contact[u(w)] = "absent"
  /\ contact' = [contact EXCEPT ![u(w)] = "committed"]
  /\ phone' = "committed"
  /\ Goto(w, "conversation")
  /\ UNCHANGED <<conversation, session, message, locks, job, tries, aborts, dups, crashes>>

InsertContact(w) ==
  /\ step[w] = "insertContact" /\ contact[u(w)] = "absent"
  /\ contact' = [contact EXCEPT ![u(w)] = w]
  /\ Goto(w, "conversation")
  /\ UNCHANGED <<phone, conversation, session, message, locks, job, tries, aborts, dups, crashes>>

\* IntegrityError, which nobody catches here.
ContactTaken(w) ==
  step[w] = "insertContact" /\ contact[u(w)] = "committed" /\ Abort(w, "contact")

Rename(w) ==
  /\ step[w] = "rename" /\ renaming[u(w)] = "none"
  /\ renaming' = [renaming EXCEPT ![u(w)] = w]
  /\ Goto(w, "conversation")
  /\ UNCHANGED <<rows, touching, job, tries, aborts, dups, crashes>>

-----------------------------------------------------------------------------
(* ConversationService.find_or_create.                                     *)

FindConversation(w) ==
  /\ step[w] = "conversation"
  /\ Goto(w, IF conversation[u(w)] = "committed" THEN "touch" ELSE "insertConversation")
  /\ UNCHANGED <<rows, locks, job, tries, aborts, dups, crashes>>

\* A unique violation here would abort as well.
InsertConversation(w) ==
  /\ step[w] = "insertConversation" /\ conversation[u(w)] \in {"absent", "committed"}
  /\ IF conversation[u(w)] = "committed" THEN Abort(w, "conversation")
     ELSE /\ conversation' = [conversation EXCEPT ![u(w)] = w]
          /\ Goto(w, "session")
          /\ UNCHANGED <<phone, contact, session, message, locks, job, tries, aborts, dups, crashes>>

InsertSession(w) ==
  /\ step[w] = "session" /\ session[u(w)] \in {"absent", "committed"}
  /\ IF session[u(w)] = "committed" THEN Abort(w, "session")
     ELSE /\ session' = [session EXCEPT ![u(w)] = w]
          /\ Goto(w, "message")
          /\ UNCHANGED <<phone, contact, conversation, message, locks, job, tries, aborts, dups, crashes>>

\* _touch: the time stamps are an UPDATE, flushed before the insert.
\* (TouchFirst: seeded error, the contact is updated after the conversation.)
TouchFirst(w) ==
  /\ step[w] = "touch" /\ touching[u(w)] = "none"
  /\ touching' = [touching EXCEPT ![u(w)] = w]
  /\ Goto(w, "rename")
  /\ UNCHANGED <<rows, renaming, job, tries, aborts, dups, crashes>>

Touch(w) ==
  /\ step[w] = "touch" /\ touching[u(w)] = "none"
  /\ touching' = [touching EXCEPT ![u(w)] = w]
  /\ Goto(w, "message")
  /\ UNCHANGED <<rows, renaming, job, tries, aborts, dups, crashes>>

-----------------------------------------------------------------------------
\* _register_inbound_postgresql: INSERT ... ON CONFLICT DO NOTHING.
RegisterInbound(w) ==
  /\ step[w] = "message" /\ message[job[w]] \in {"absent", "committed"}
  /\ message' = [message EXCEPT ![job[w]] = IF @ = "absent" THEN w ELSE @]
  /\ Goto(w, "commit")
  /\ UNCHANGED <<phone, contact, conversation, session, locks, job, tries, aborts, dups, crashes>>

Quiescent ==
  /\ \A m \in Message : message[m] = "committed"
  /\ \A w \in Worker : step[w] = "idle"
  /\ dups = MaxDuplicates
  /\ UNCHANGED vars

Proceed(w) ==
  \/ FindPhone(w) \/ InsertPhone(w) \/ PhoneTaken(w)
  \/ FindContact(w) \/ InsertContact(w) \/ ContactTaken(w) \/ Rename(w)
  \/ FindConversation(w) \/ InsertConversation(w) \/ InsertSession(w) \/ Touch(w)
  \/ RegisterInbound(w) \/ Commit(w)

Next ==
  \/ \E w \in Worker : Proceed(w) \/ Crash(w) \/ \E m \in Message : Deliver(w, m)
  \/ Quiescent

Spec == Init /\ [][Next]_vars

\* Statements end, and Meta delivers again what is not registered.
FairSpec ==
  /\ Spec
  /\ \A w \in Worker : WF_vars(Proceed(w))
  /\ \A m \in Message : WF_vars(message[m] # "committed" /\ \E w \in Worker : Deliver(w, m))

-----------------------------------------------------------------------------
RowState == {"absent", "committed"} \cup Worker

\* Types, and: only a transaction that is open holds locks or owns rows.
TypeOK ==
  /\ phone \in RowState
  /\ contact \in [User -> RowState]
  /\ conversation \in [User -> RowState] /\ session \in [User -> RowState]
  /\ message \in [Message -> RowState]
  /\ renaming \in [User -> Worker \cup {"none"}] /\ touching \in [User -> Worker \cup {"none"}]
  /\ step \in [Worker -> Step] /\ job \in [Worker -> Message \cup {NoMessage}]
  /\ tries \in [Worker -> 0..PhoneTries]
  /\ aborts \subseteq {"phone", "contact", "conversation", "session"}
  /\ dups \in 0..MaxDuplicates /\ crashes \in 0..MaxCrashes
  /\ \A w \in Worker : step[w] = "idle" =>
       /\ phone # w /\ \A m \in Message : message[m] # w
       /\ \A x \in User : w \notin {contact[x], conversation[x], session[x], renaming[x], touching[x]}

\* Identity is all or nothing: no crash, collision or order of arrival leaves
\* a contact without its conversation, session and a first message, or a
\* message without any of them (every flush before register_inbound's commit
\* is in its transaction).
AllOrNothing ==
  /\ \A x \in User :
       contact[x] = "committed" =>
         /\ phone = "committed"
         /\ conversation[x] = "committed" /\ session[x] = "committed"
         /\ \E m \in Message : UserOf[m] = x /\ message[m] = "committed"
  /\ \A m \in Message : message[m] = "committed" => contact[UserOf[m]] = "committed"

\* The only race a message loses with an error is the one for a new contact:
\* the phone number's retry loop always ends with a row, and whoever finds
\* the contact, or wins it, meets no conflict on its conversation or session.
OnlyContactsCollide == aborts \subseteq {"contact"}

\* The statement w has reached waits for v, to commit or roll back: v owns
\* the row w inserts, or holds the lock w asks for.
WaitsFor(w, v) ==
  \/ step[w] = "insertPhone" /\ phone = v
  \/ step[w] = "insertContact" /\ contact[u(w)] = v
  \/ step[w] = "rename" /\ renaming[u(w)] = v
  \/ step[w] = "insertConversation" /\ conversation[u(w)] = v
  \/ step[w] = "session" /\ session[u(w)] = v
  \/ step[w] = "touch" /\ touching[u(w)] = v
  \/ step[w] = "message" /\ message[job[w]] = v

\* No transactions wait for each other in a circle, as PostgreSQL would end
\* with a deadlock error: of any of them, one waits for none of the others
\* (contact, conversation, _touch and message lock in the same order).
NoDeadlock ==
  \A S \in SUBSET Worker : S # {} => \E w \in S : \A v \in S : ~WaitsFor(w, v)

\* Seen from outside, where only committed rows are: identities come whole, in
\* the one step that registers a new message of theirs, and stay; a duplicate,
\* a lost race or a crash leaves no trace (register_inbound's commit is the
\* only one, and INSERT ... ON CONFLICT DO NOTHING changes no row).
Committed(table) == { x \in DOMAIN table : table[x] = "committed" }

Identities == INSTANCE AtomicIdentity WITH
  provisioned <- phone = "committed",
  contacts <- Committed(contact),
  conversations <- Committed(conversation),
  sessions <- Committed(session),
  messages <- Committed(message)

ImplementsAtomicIdentity == Identities!Spec

-----------------------------------------------------------------------------
(* The inductive invariant behind AllOrNothing and OnlyContactsCollide.    *)

\* What a transaction has found or inserted by the statement it has reached:
\* past resolve the phone number is there; past find_or_create the contact
\* is; whoever inserts a conversation or a session inserted the contact too.
Reached(w) ==
  step[w] # "idle" =>
    /\ job[w] \in Message
    /\ step[w] = "insertPhone" => tries[w] = 0
    /\ step[w] \notin {"phone", "insertPhone"} => phone \in {w, "committed"}
    /\ step[w] \in {"rename", "touch"} => contact[u(w)] = "committed"
    /\ step[w] = "conversation" => contact[u(w)] \in {w, "committed"}
    /\ step[w] \in {"insertConversation", "session"} => contact[u(w)] = w
    /\ step[w] = "session" => conversation[u(w)] = w
    /\ step[w] \in {"message", "commit"} =>
         \/ contact[u(w)] = "committed"
         \/ contact[u(w)] = w /\ conversation[u(w)] = w /\ session[u(w)] = w
    /\ step[w] = "commit" => message[job[w]] \in {w, "committed"}

\* Rows of one user have one owner at a time: its contact's.
OneOwner ==
  /\ \A x \in User :
       /\ contact[x] \in Worker => UserOf[job[contact[x]]] = x
       /\ conversation[x] # "absent" => contact[x] = conversation[x]
       /\ session[x] # "absent" => conversation[x] = session[x]
  /\ \A m \in Message :
       message[m] \in Worker => step[message[m]] = "commit" /\ job[message[m]] = m

IdentityInv ==
  /\ TypeOK
  /\ \A w \in Worker : Reached(w) /\ (tries[w] > 0 => phone = "committed")
  /\ OneOwner
  /\ AllOrNothing
  /\ OnlyContactsCollide

\* Behind NoDeadlock: who holds a row or a lock is past the statement that
\* takes it, so whoever waits waits for a transaction ahead of it.
Ahead(w) ==
  /\ phone = w => step[w] \notin {"idle", "phone", "insertPhone"}
  /\ \A x \in User :
       /\ contact[x] = w => step[w] \notin {"idle", "phone", "insertPhone", "contact", "insertContact"}
       /\ renaming[x] = w =>
            step[w] \notin {"idle", "phone", "insertPhone", "contact", "insertContact", "rename"}
       /\ conversation[x] = w => step[w] \in {"session", "message", "commit"}
       /\ session[x] = w => step[w] \in {"message", "commit"}
       /\ touching[x] = w => step[w] \in {"message", "commit"}

HoldersAhead == \A w \in Worker : Ahead(w)

\* Redelivery gets every message registered, whatever races it loses.
EveryMessageRegistered == <>(\A m \in Message : message[m] = "committed")
=============================================================================
