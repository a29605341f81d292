------------------------ MODULE IdentityResolutionProofs ------------------------
(***************************************************************************)
(* IdentityInv is an invariant of IdentityResolution for any workers,      *)
(* messages and users, any number of tries, duplicates and crashes; that   *)
(* identity is all or nothing, and that only contacts collide, follows.    *)
(***************************************************************************)
EXTENDS IdentityResolution, SequenceLemmas

LEMMA NamesDiffer ==
  ASSUME NEW w \in Worker
  PROVE  w \notin {"absent", "committed", "none"}
BY IdentityAssumption DEF IdentityAssumption

LEMMA InitIdentityInv == Init => IdentityInv
<1>. SUFFICES ASSUME Init PROVE IdentityInv
  OBVIOUS
<1>. USE IdentityAssumption, NamesDiffer DEF IdentityAssumption, Init
<1>1. TypeOK
  BY DEF TypeOK, RowState, Step
<1>2. \A w \in Worker : Reached(w) /\ (tries[w] > 0 => phone = "committed")
  BY DEF Reached
<1>3. OneOwner /\ AllOrNothing /\ OnlyContactsCollide
  BY DEF OneOwner, AllOrNothing, OnlyContactsCollide
<1>. QED  BY <1>1, <1>2, <1>3 DEF IdentityInv

-----------------------------------------------------------------------------
(* Ends of a transaction.                                                  *)

\* What the end of a transaction leaves of it.
Ended(w, outcome) ==
  /\ phone' = IF phone = w THEN outcome ELSE phone
  /\ \A x \in User :
       /\ contact'[x] = IF contact[x] = w THEN outcome ELSE contact[x]
       /\ conversation'[x] = IF conversation[x] = w THEN outcome ELSE conversation[x]
       /\ session'[x] = IF session[x] = w THEN outcome ELSE session[x]
       /\ renaming'[x] = IF renaming[x] = w THEN "none" ELSE renaming[x]
       /\ touching'[x] = IF touching[x] = w THEN "none" ELSE touching[x]
  /\ \A m \in Message : message'[m] = IF message[m] = w THEN outcome ELSE message[m]
  /\ \A v \in Worker :
       IF v = w THEN step'[v] = "idle" /\ job'[v] = NoMessage /\ tries'[v] = 0
       ELSE step'[v] = step[v] /\ job'[v] = job[v] /\ tries'[v] = tries[v]

LEMMA EndTyped ==
  ASSUME TypeOK, NEW w \in Worker, NEW outcome \in {"absent", "committed"},
         EndTransaction(w, outcome),
         aborts' \subseteq {"contact"}, dups' \in 0..MaxDuplicates, crashes' \in 0..MaxCrashes
  PROVE  TypeOK' /\ Ended(w, outcome)
<1>. USE NamesDiffer DEF EndTransaction, Goto
<1>1. outcome \in RowState
  BY DEF RowState
<1>2. /\ contact' \in [User -> RowState]
      /\ \A x \in User : contact'[x] = IF contact[x] = w THEN outcome ELSE contact[x]
  BY <1>1 DEF TypeOK, Settle
<1>3. /\ conversation' \in [User -> RowState]
      /\ \A x \in User : conversation'[x] = IF conversation[x] = w THEN outcome ELSE conversation[x]
  BY <1>1 DEF TypeOK, Settle
<1>4. /\ session' \in [User -> RowState]
      /\ \A x \in User : session'[x] = IF session[x] = w THEN outcome ELSE session[x]
  BY <1>1 DEF TypeOK, Settle
<1>5. /\ message' \in [Message -> RowState]
      /\ \A m \in Message : message'[m] = IF message[m] = w THEN outcome ELSE message[m]
  BY <1>1 DEF TypeOK, Settle
<1>6. /\ renaming' \in [User -> Worker \cup {"none"}]
      /\ \A x \in User : renaming'[x] = IF renaming[x] = w THEN "none" ELSE renaming[x]
  BY DEF TypeOK, Settle
<1>7. /\ touching' \in [User -> Worker \cup {"none"}]
      /\ \A x \in User : touching'[x] = IF touching[x] = w THEN "none" ELSE touching[x]
  BY DEF TypeOK, Settle
<1>8. phone' \in RowState /\ phone' = IF phone = w THEN outcome ELSE phone
  BY <1>1 DEF TypeOK
<1>9. /\ step' \in [Worker -> Step] /\ job' \in [Worker -> Message \cup {NoMessage}]
      /\ tries' \in [Worker -> 0..PhoneTries]
      /\ \A v \in Worker :
           IF v = w THEN step'[v] = "idle" /\ job'[v] = NoMessage /\ tries'[v] = 0
           ELSE step'[v] = step[v] /\ job'[v] = job[v] /\ tries'[v] = tries[v]
  BY IdentityAssumption DEF TypeOK, Step, IdentityAssumption
<1>10. Ended(w, outcome)
  BY <1>2, <1>3, <1>4, <1>5, <1>6, <1>7, <1>8, <1>9 DEF Ended
<1>11. ASSUME NEW v \in Worker, step'[v] = "idle"
       PROVE  /\ phone' # v /\ \A m \in Message : message'[m] # v
              /\ \A x \in User : v \notin {contact'[x], conversation'[x], session'[x], renaming'[x], touching'[x]}
  <2>1. CASE v = w
    BY <2>1, <1>10 DEF Ended
  <2>2. CASE v # w
    <3>1. step[v] = "idle"
      BY <2>2, <1>9, <1>11
    <3>2. /\ phone # v /\ \A m \in Message : message[m] # v
          /\ \A x \in User : v \notin {contact[x], conversation[x], session[x], renaming[x], touching[x]}
      BY <3>1 DEF TypeOK
    <3>. QED  BY <2>2, <1>10, <3>2 DEF Ended
  <2>. QED  BY <2>1, <2>2
<1>12. aborts' \subseteq {"phone", "contact", "conversation", "session"}
  OBVIOUS
<1>13. TypeOK'
  BY <1>2, <1>3, <1>4, <1>5, <1>6, <1>7, <1>8, <1>9, <1>11, <1>12 DEF TypeOK
<1>. QED  BY <1>10, <1>13

\* The other transactions stand where they stood: a commit only makes rows
\* durable, a rollback takes none they have found or inserted.
LEMMA OthersStand ==
  ASSUME IdentityInv, NEW w \in Worker, NEW outcome \in {"absent", "committed"},
         Ended(w, outcome), NEW v \in Worker
  PROVE  Reached(v)' /\ (tries'[v] > 0 => phone' = "committed")
<1>. USE NamesDiffer DEF IdentityInv, Ended
<1>1. CASE v = w
  BY <1>1 DEF Reached
<1>2. CASE v # w /\ step[v] # "idle"
  <2>1. job[v] \in Message /\ u(v) \in User /\ u(v)' = u(v) /\ job'[v] = job[v]
    BY <1>2, IdentityAssumption DEF Reached, u, IdentityAssumption
  <2>2. Reached(v)'
    BY <1>2, <2>1 DEF Reached
  <2>. QED  BY <1>2, <2>2
<1>3. CASE v # w /\ step[v] = "idle"
  BY <1>3 DEF Reached
<1>. QED  BY <1>1, <1>2, <1>3

LEMMA OwnersStand ==
  ASSUME IdentityInv, NEW w \in Worker, NEW outcome \in {"absent", "committed"},
         Ended(w, outcome)
  PROVE  OneOwner'
<1>. USE NamesDiffer DEF IdentityInv, Ended, OneOwner
<1>1. ASSUME NEW x \in User
      PROVE  /\ contact'[x] \in Worker => UserOf[job'[contact'[x]]] = x
             /\ conversation'[x] # "absent" => contact'[x] = conversation'[x]
             /\ session'[x] # "absent" => conversation'[x] = session'[x]
  OBVIOUS
<1>2. ASSUME NEW m \in Message, message'[m] \in Worker
      PROVE  step'[message'[m]] = "commit" /\ job'[message'[m]] = m
  BY <1>2
<1>. QED  BY <1>1, <1>2

\* A rollback takes the rows of one owner away together.
LEMMA RolledBack ==
  ASSUME IdentityInv, NEW w \in Worker, EndTransaction(w, "absent"),
         aborts' \subseteq {"contact"}, dups' \in 0..MaxDuplicates, crashes' \in 0..MaxCrashes
  PROVE  IdentityInv'
<1>1. TypeOK' /\ Ended(w, "absent")
  BY EndTyped DEF IdentityInv
<1>2. \A v \in Worker : Reached(v)' /\ (tries'[v] > 0 => phone' = "committed")
  BY <1>1, OthersStand
<1>3. OneOwner'
  BY <1>1, OwnersStand
<1>4. AllOrNothing'
  BY <1>1, NamesDiffer, IdentityAssumption DEF IdentityInv, Ended, AllOrNothing, IdentityAssumption
<1>. QED  BY <1>1, <1>2, <1>3, <1>4 DEF IdentityInv, OnlyContactsCollide

\* A commit, of a transaction that has reached it, makes them all durable.
LEMMA CommitKeeps ==
  ASSUME IdentityInv, NEW w \in Worker, Commit(w)
  PROVE  IdentityInv'
<1>1. /\ EndTransaction(w, "committed") /\ step[w] = "commit"
      /\ aborts' \subseteq {"contact"} /\ dups' \in 0..MaxDuplicates /\ crashes' \in 0..MaxCrashes
  BY DEF Commit, IdentityInv, OnlyContactsCollide, TypeOK
<1>2. TypeOK' /\ Ended(w, "committed")
  BY <1>1, EndTyped DEF IdentityInv
<1>3. \A v \in Worker : Reached(v)' /\ (tries'[v] > 0 => phone' = "committed")
  BY <1>2, OthersStand
<1>4. OneOwner'
  BY <1>2, OwnersStand
<1>5. AllOrNothing'
  <2>. USE NamesDiffer, <1>2 DEF IdentityInv, Ended
  <2>1. /\ job[w] \in Message /\ u(w) \in User /\ phone \in {w, "committed"}
        /\ message[job[w]] \in {w, "committed"}
        /\ \/ contact[u(w)] = "committed"
           \/ contact[u(w)] = w /\ conversation[u(w)] = w /\ session[u(w)] = w
    BY <1>1, IdentityAssumption DEF Reached, u, IdentityAssumption
  <2>2. ASSUME NEW x \in User, contact'[x] = "committed"
        PROVE  /\ phone' = "committed"
               /\ conversation'[x] = "committed" /\ session'[x] = "committed"
               /\ \E m \in Message : UserOf[m] = x /\ message'[m] = "committed"
    <3>1. CASE contact[x] = "committed"
      BY <3>1 DEF AllOrNothing
    <3>2. CASE contact[x] = w
      <4>1. x = u(w)
        BY <3>2 DEF OneOwner, u
      <4>. QED  BY <2>1, <3>2, <4>1 DEF u
    <3>. QED  BY <2>2, <3>1, <3>2
  <2>3. ASSUME NEW m \in Message, message'[m] = "committed"
        PROVE  contact'[UserOf[m]] = "committed"
    <3>1. UserOf[m] \in User
      BY IdentityAssumption DEF IdentityAssumption
    <3>2. CASE message[m] = "committed"
      BY <3>1, <3>2 DEF AllOrNothing
    <3>3. CASE message[m] = w
      <4>1. m = job[w]
        BY <3>3 DEF OneOwner
      <4>. QED  BY <2>1, <3>1, <4>1 DEF u
    <3>. QED  BY <2>3, <3>2, <3>3
  <2>. QED  BY <2>2, <2>3 DEF AllOrNothing
<1>. QED  BY <1>1, <1>2, <1>3, <1>4, <1>5 DEF IdentityInv, OnlyContactsCollide

-----------------------------------------------------------------------------
(* Statements.                                                             *)

\* What any statement does to the rows: it inserts some that are absent, as
\* its transaction's, and moves its transaction.
Inserts(w) ==
  /\ \/ phone' = phone
     \/ phone = "absent" /\ phone' = w
  /\ \A x \in User :
       /\ \/ contact'[x] = contact[x]
          \/ contact[x] = "absent" /\ contact'[x] = w /\ x = u(w)
       /\ \/ conversation'[x] = conversation[x]
          \/ conversation[x] = "absent" /\ conversation'[x] = w /\ x = u(w) /\ contact[x] = w /\ contact'[x] = w
       /\ \/ session'[x] = session[x]
          \/ session[x] = "absent" /\ session'[x] = w /\ x = u(w) /\ conversation[x] = w /\ conversation'[x] = w
  /\ \A m \in Message :
       \/ message'[m] = message[m]
       \/ message[m] = "absent" /\ message'[m] = w /\ m = job[w] /\ step'[w] = "commit"
  /\ step[w] \notin {"idle", "commit"} /\ step'[w] # "idle" /\ job' = job
  /\ \A v \in Worker \ {w} : step'[v] = step[v] /\ tries'[v] = tries[v]

\* Then all but the transaction itself stands as it stood.
LEMMA InsertsKeep ==
  ASSUME IdentityInv, NEW w \in Worker, Inserts(w), TypeOK',
         aborts' = aborts,
         Reached(w)', tries'[w] > 0 => phone' = "committed"
  PROVE  IdentityInv'
<1>. USE NamesDiffer DEF IdentityInv, Inserts
<1>1. ASSUME NEW v \in Worker PROVE Reached(v)' /\ (tries'[v] > 0 => phone' = "committed")
  <2>1. CASE v = w
    BY <2>1
  <2>2. CASE v # w /\ step[v] # "idle"
    <3>1. job[v] \in Message /\ u(v) \in User /\ u(v)' = u(v)
      BY <2>2, IdentityAssumption DEF Reached, u, IdentityAssumption
    <3>. QED  BY <2>2, <3>1 DEF Reached
  <2>3. CASE v # w /\ step[v] = "idle"
    BY <2>3 DEF Reached
  <2>. QED  BY <2>1, <2>2, <2>3
<1>2. OneOwner'
  <2>1. ASSUME NEW x \in User
        PROVE  /\ contact'[x] \in Worker => UserOf[job'[contact'[x]]] = x
               /\ conversation'[x] # "absent" => contact'[x] = conversation'[x]
               /\ session'[x] # "absent" => conversation'[x] = session'[x]
    BY DEF OneOwner, u
  <2>2. ASSUME NEW m \in Message, message'[m] \in Worker
        PROVE  step'[message'[m]] = "commit" /\ job'[message'[m]] = m
    BY <2>2 DEF OneOwner
  <2>. QED  BY <2>1, <2>2 DEF OneOwner
<1>3. AllOrNothing'
  BY IdentityAssumption DEF AllOrNothing, IdentityAssumption
<1>. QED  BY <1>1, <1>2, <1>3 DEF OnlyContactsCollide

LEMMA PhoneStatements ==
  ASSUME IdentityInv, NEW w \in Worker, FindPhone(w) \/ InsertPhone(w) \/ PhoneTaken(w)
  PROVE  IdentityInv'
<1>. USE NamesDiffer, IdentityAssumption DEF IdentityInv, IdentityAssumption, Goto
<1>1. CASE FindPhone(w)
  <2>1. ~(phone # "committed" /\ tries[w] = PhoneTries)
    BY <1>1 DEF TypeOK, FindPhone
  <2>2. step[w] = "phone" /\ UNCHANGED <<rows, locks, job, tries, aborts, dups, crashes>>
        /\ step' = [step EXCEPT ![w] = IF phone = "committed" THEN "contact" ELSE "insertPhone"]
    BY <1>1, <2>1 DEF FindPhone
  <2>3. TypeOK'
    BY <2>2 DEF TypeOK, Step, rows, locks
  <2>4. Inserts(w) /\ Reached(w)'
    <3>1. /\ step'[w] = (IF phone = "committed" THEN "contact" ELSE "insertPhone")
          /\ \A v \in Worker \ {w} : step'[v] = step[v] /\ tries'[v] = tries[v]
      BY <2>2 DEF TypeOK, locks
    <3>2. Inserts(w)
      <4>1. UNCHANGED <<phone, contact, conversation, session, message, job>>
        BY <2>2 DEF rows
      <4>2. step[w] = "phone" /\ step'[w] # "idle"
        BY <2>2, <3>1
      <4>. QED  BY <3>1, <4>1, <4>2 DEF Inserts
    <3>3. Reached(w)'
      BY <2>2, <3>1 DEF Reached, OneOwner, TypeOK, rows, u
    <3>. QED  BY <3>2, <3>3
  <2>. QED  BY <2>2, <2>3, <2>4, InsertsKeep DEF rows
<1>2. CASE InsertPhone(w)
  <2>1. TypeOK'
    BY <1>2 DEF InsertPhone, TypeOK, Step, locks, RowState
  <2>2. Inserts(w) /\ Reached(w)' /\ tries'[w] = 0
    <3>1. /\ step'[w] = "contact"
          /\ \A v \in Worker \ {w} : step'[v] = step[v] /\ tries'[v] = tries[v]
      BY <1>2 DEF InsertPhone, TypeOK, locks
    <3>2. Inserts(w)
      <4>1. UNCHANGED <<contact, conversation, session, message, job>> /\ phone = "absent" /\ phone' = w
        BY <1>2, <3>1 DEF InsertPhone, rows
      <4>2. step[w] = "insertPhone" /\ step'[w] # "idle"
        BY <1>2, <3>1 DEF InsertPhone
      <4>. QED  BY <1>2, <3>1, <4>1, <4>2 DEF Inserts
    <3>3. Reached(w)' /\ tries'[w] = 0
      BY <1>2, <3>1 DEF InsertPhone, Reached, OneOwner, TypeOK, rows, u
    <3>. QED  BY <3>2, <3>3
  <2>. QED  BY <1>2, <2>1, <2>2, InsertsKeep DEF InsertPhone
<1>3. CASE PhoneTaken(w)
  <2>1. tries[w] = 0 /\ tries' = [tries EXCEPT ![w] = 1]
    <3>1. tries[w] = 0 /\ tries' = [tries EXCEPT ![w] = tries[w] + 1]
      BY <1>3 DEF PhoneTaken, Reached
    <3>2. tries[w] + 1 = 1
      BY <3>1
    <3>. QED  BY <3>1, <3>2
  <2>2. TypeOK'
    BY <1>3, <2>1 DEF PhoneTaken, TypeOK, Step, rows, locks
  <2>3. Inserts(w) /\ Reached(w)' /\ phone' = "committed"
    <3>1. /\ step'[w] = "phone"
          /\ \A v \in Worker \ {w} : step'[v] = step[v] /\ tries'[v] = tries[v]
      BY <1>3, <2>1 DEF PhoneTaken, TypeOK, locks
    <3>2. Inserts(w)
      <4>1. UNCHANGED <<phone, contact, conversation, session, message, job>>
        BY <1>3, <2>1, <3>1 DEF PhoneTaken, rows
      <4>2. step[w] = "insertPhone" /\ step'[w] # "idle"
        BY <1>3, <2>1, <3>1 DEF PhoneTaken
      <4>. QED  BY <1>3, <2>1, <3>1, <4>1, <4>2 DEF Inserts
    <3>3. Reached(w)' /\ phone' = "committed"
      BY <1>3, <2>1, <3>1 DEF PhoneTaken, Reached, OneOwner, TypeOK, rows, u
    <3>. QED  BY <3>2, <3>3
  <2>. QED  BY <1>3, <2>2, <2>3, InsertsKeep DEF PhoneTaken
<1>. QED  BY <1>1, <1>2, <1>3

LEMMA ContactStatements ==
  ASSUME IdentityInv, NEW w \in Worker,
         FindContact(w) \/ InsertContact(w) \/ ContactTaken(w) \/ Rename(w)
  PROVE  IdentityInv'
<1>. USE NamesDiffer, IdentityAssumption DEF IdentityInv, IdentityAssumption, Goto
<1>1. CASE FindContact(w)
  <2>1. TypeOK'
    BY <1>1 DEF FindContact, TypeOK, Step, rows, locks
  <2>2. Inserts(w) /\ Reached(w)'
    <3>1. /\ IF contact[u(w)] = "committed" THEN step'[w] \in {"rename", "conversation"} ELSE step'[w] = "insertContact"
          /\ \A v \in Worker \ {w} : step'[v] = step[v] /\ tries'[v] = tries[v]
      BY <1>1 DEF FindContact, TypeOK, locks
    <3>2. Inserts(w)
      <4>1. UNCHANGED <<phone, contact, conversation, session, message, job>>
        BY <1>1, <3>1 DEF FindContact, rows
      <4>2. step[w] = "contact" /\ step'[w] # "idle"
        BY <1>1, <3>1 DEF FindContact
      <4>. QED  BY <1>1, <3>1, <4>1, <4>2 DEF Inserts
    <3>3. Reached(w)'
      BY <1>1, <3>1 DEF FindContact, Reached, OneOwner, TypeOK, rows, u
    <3>. QED  BY <3>2, <3>3
  <2>. QED  BY <1>1, <2>1, <2>2, InsertsKeep DEF FindContact, rows
<1>2. CASE InsertContact(w)
  <2>1. u(w) \in User /\ step[w] = "insertContact" /\ contact[u(w)] = "absent"
    BY <1>2 DEF InsertContact, Reached, u
  <2>2. TypeOK'
    BY <1>2, <2>1 DEF InsertContact, TypeOK, Step, locks, RowState
  <2>3. Inserts(w) /\ Reached(w)'
    <3>1. /\ step'[w] = "conversation"
          /\ \A v \in Worker \ {w} : step'[v] = step[v] /\ tries'[v] = tries[v]
      BY <1>2, <2>1 DEF InsertContact, TypeOK, locks
    <3>2. Inserts(w)
      <4>1. UNCHANGED <<phone, conversation, session, message, job>>
        BY <1>2, <2>1, <3>1 DEF InsertContact, rows
      <4>2. step[w] = "insertContact" /\ step'[w] # "idle"
        BY <1>2, <2>1, <3>1 DEF InsertContact
      <4>3. \A x \in User :
               contact'[x] = contact[x] \/ (contact[x] = "absent" /\ contact'[x] = w /\ x = u(w))
        BY <1>2, <2>1, <3>1 DEF InsertContact, TypeOK
      <4>. QED  BY <1>2, <2>1, <3>1, <4>1, <4>2, <4>3 DEF Inserts
    <3>3. Reached(w)'
      BY <1>2, <2>1, <3>1 DEF InsertContact, Reached, OneOwner, TypeOK, rows, u
    <3>. QED  BY <3>2, <3>3
  <2>. QED  BY <1>2, <2>2, <2>3, InsertsKeep DEF InsertContact
<1>3. CASE ContactTaken(w)
  BY <1>3, RolledBack DEF ContactTaken, Abort, OnlyContactsCollide, TypeOK
<1>4. CASE Rename(w)
  <2>1. u(w) \in User /\ step[w] = "rename"
    BY <1>4 DEF Rename, Reached, u
  <2>2. TypeOK'
    BY <1>4, <2>1 DEF Rename, TypeOK, Step, rows
  <2>3. Inserts(w) /\ Reached(w)'
    <3>1. /\ step'[w] = "conversation"
          /\ \A v \in Worker \ {w} : step'[v] = step[v] /\ tries'[v] = tries[v]
      BY <1>4, <2>1 DEF Rename, TypeOK, locks
    <3>2. Inserts(w)
      <4>1. UNCHANGED <<phone, contact, conversation, session, message, job>>
        BY <1>4, <2>1, <3>1 DEF Rename, rows
      <4>2. step[w] = "rename" /\ step'[w] # "idle"
        BY <1>4, <2>1, <3>1 DEF Rename
      <4>. QED  BY <1>4, <2>1, <3>1, <4>1, <4>2 DEF Inserts
    <3>3. Reached(w)'
      BY <1>4, <2>1, <3>1 DEF Rename, Reached, OneOwner, TypeOK, rows, u
    <3>. QED  BY <3>2, <3>3
  <2>. QED  BY <1>4, <2>2, <2>3, InsertsKeep DEF Rename, rows
<1>. QED  BY <1>1, <1>2, <1>3, <1>4

LEMMA ConversationStatements ==
  ASSUME IdentityInv, NEW w \in Worker,
         FindConversation(w) \/ InsertConversation(w) \/ InsertSession(w) \/ Touch(w)
  PROVE  IdentityInv'
<1>. USE NamesDiffer, IdentityAssumption DEF IdentityInv, IdentityAssumption, Goto
<1>0. u(w) \in User /\ step[w] # "idle"
  BY DEF FindConversation, InsertConversation, InsertSession, Touch, Reached, u
<1>1. CASE FindConversation(w)
  <2>1. TypeOK'
    BY <1>1 DEF FindConversation, TypeOK, Step, rows, locks
  <2>2. IF conversation[u(w)] = "committed" THEN contact[u(w)] = "committed" ELSE contact[u(w)] = w
    BY <1>0, <1>1 DEF FindConversation, Reached, OneOwner, AllOrNothing
  <2>3. Inserts(w) /\ Reached(w)'
    <3>1. /\ step'[w] = (IF conversation[u(w)] = "committed" THEN "touch" ELSE "insertConversation")
          /\ \A v \in Worker \ {w} : step'[v] = step[v] /\ tries'[v] = tries[v]
      BY <1>0, <1>1, <2>2 DEF FindConversation, TypeOK, locks
    <3>2. Inserts(w)
      <4>1. UNCHANGED <<phone, contact, conversation, session, message, job>>
        BY <1>0, <1>1, <2>2, <3>1 DEF FindConversation, rows
      <4>2. step[w] = "conversation" /\ step'[w] # "idle"
        BY <1>0, <1>1, <2>2, <3>1 DEF FindConversation
      <4>. QED  BY <1>0, <1>1, <2>2, <3>1, <4>1, <4>2 DEF Inserts
    <3>3. Reached(w)'
      BY <1>0, <1>1, <2>2, <3>1 DEF FindConversation, Reached, OneOwner, TypeOK, rows, u
    <3>. QED  BY <3>2, <3>3
  <2>. QED  BY <1>1, <2>1, <2>3, InsertsKeep DEF FindConversation, rows
<1>2. CASE InsertConversation(w)
  <2>1. contact[u(w)] = w /\ conversation[u(w)] = "absent"
    BY <1>0, <1>2 DEF InsertConversation, Reached, OneOwner
  <2>2. TypeOK'
    <3>1. conversation' \in [User -> RowState] /\ step' \in [Worker -> Step]
          /\ \A x \in User : conversation'[x] \in {conversation[x], w}
      BY <1>0, <1>2, <2>1 DEF InsertConversation, TypeOK, Step, RowState
    <3>2. \A v \in Worker : step'[v] = "idle" => v # w /\ step[v] = "idle"
      BY <1>0, <1>2, <2>1 DEF InsertConversation, TypeOK
    <3>3. /\ UNCHANGED <<phone, contact, session, message, renaming, touching>>
          /\ UNCHANGED <<job, tries, aborts, dups, crashes>>
      BY <1>2, <2>1 DEF InsertConversation, locks
    <3>4. ASSUME NEW v \in Worker, step'[v] = "idle"
          PROVE  /\ phone # v /\ \A m \in Message : message[m] # v
                 /\ \A x \in User : v \notin {contact[x], conversation[x], session[x], renaming[x], touching[x], w}
      BY <3>2, <3>4 DEF TypeOK
    <3>5. \A v \in Worker : step'[v] = "idle" =>
            /\ phone' # v /\ \A m \in Message : message'[m] # v
            /\ \A x \in User : v \notin {contact'[x], conversation'[x], session'[x], renaming'[x], touching'[x]}
      BY <3>1, <3>3, <3>4
    <3>. QED  BY <3>1, <3>3, <3>5 DEF TypeOK
  <2>3. Inserts(w) /\ Reached(w)'
    <3>1. /\ step'[w] = "session"
          /\ \A v \in Worker \ {w} : step'[v] = step[v] /\ tries'[v] = tries[v]
      BY <1>0, <1>2, <2>1 DEF InsertConversation, TypeOK, locks
    <3>2. Inserts(w)
      <4>1. UNCHANGED <<phone, contact, session, message, job>>
        BY <1>0, <1>2, <2>1, <3>1 DEF InsertConversation, rows
      <4>2. step[w] = "insertConversation" /\ step'[w] # "idle"
        BY <1>0, <1>2, <2>1, <3>1 DEF InsertConversation
      <4>3. \A x \in User :
               conversation'[x] = conversation[x] \/ (conversation[x] = "absent" /\ conversation'[x] = w /\ x = u(w))
        BY <1>0, <1>2, <2>1, <3>1 DEF InsertConversation, TypeOK
      <4>. QED  BY <1>0, <1>2, <2>1, <3>1, <4>1, <4>2, <4>3 DEF Inserts
    <3>3. Reached(w)'
      BY <1>0, <1>2, <2>1, <3>1 DEF InsertConversation, Reached, OneOwner, TypeOK, rows, u
    <3>. QED  BY <3>2, <3>3
  <2>. QED  BY <1>2, <2>1, <2>2, <2>3, InsertsKeep DEF InsertConversation
<1>3. CASE InsertSession(w)
  <2>1. contact[u(w)] = w /\ conversation[u(w)] = w /\ session[u(w)] = "absent"
    BY <1>0, <1>3 DEF InsertSession, Reached, OneOwner
  <2>2. TypeOK'
    <3>1. session' \in [User -> RowState] /\ step' \in [Worker -> Step]
          /\ \A x \in User : session'[x] \in {session[x], w}
      BY <1>0, <1>3, <2>1 DEF InsertSession, TypeOK, Step, RowState
    <3>2. \A v \in Worker : step'[v] = "idle" => v # w /\ step[v] = "idle"
      BY <1>0, <1>3, <2>1 DEF InsertSession, TypeOK
    <3>3. /\ UNCHANGED <<phone, contact, conversation, message, renaming, touching>>
          /\ UNCHANGED <<job, tries, aborts, dups, crashes>>
      BY <1>3, <2>1 DEF InsertSession, locks
    <3>4. ASSUME NEW v \in Worker, step'[v] = "idle"
          PROVE  /\ phone # v /\ \A m \in Message : message[m] # v
                 /\ \A x \in User : v \notin {contact[x], conversation[x], session[x], renaming[x], touching[x], w}
      BY <3>2, <3>4 DEF TypeOK
    <3>5. \A v \in Worker : step'[v] = "idle" =>
            /\ phone' # v /\ \A m \in Message : message'[m] # v
            /\ \A x \in User : v \notin {contact'[x], conversation'[x], session'[x], renaming'[x], touching'[x]}
      BY <3>1, <3>3, <3>4
    <3>. QED  BY <3>1, <3>3, <3>5 DEF TypeOK
  <2>3. Inserts(w) /\ Reached(w)'
    <3>1. /\ step'[w] = "message"
          /\ \A v \in Worker \ {w} : step'[v] = step[v] /\ tries'[v] = tries[v]
      BY <1>0, <1>3, <2>1 DEF InsertSession, TypeOK, locks
    <3>2. Inserts(w)
      <4>1. UNCHANGED <<phone, contact, conversation, message, job>>
        BY <1>0, <1>3, <2>1, <3>1 DEF InsertSession, rows
      <4>2. step[w] = "session" /\ step'[w] # "idle"
        BY <1>0, <1>3, <2>1, <3>1 DEF InsertSession
      <4>3. \A x \in User :
               session'[x] = session[x] \/ (session[x] = "absent" /\ session'[x] = w /\ x = u(w))
        BY <1>0, <1>3, <2>1, <3>1 DEF InsertSession, TypeOK
      <4>. QED  BY <1>0, <1>3, <2>1, <3>1, <4>1, <4>2, <4>3 DEF Inserts
    <3>3. Reached(w)'
      BY <1>0, <1>3, <2>1, <3>1 DEF InsertSession, Reached, OneOwner, TypeOK, rows, u
    <3>. QED  BY <3>2, <3>3
  <2>. QED  BY <1>3, <2>1, <2>2, <2>3, InsertsKeep DEF InsertSession
<1>4. CASE Touch(w)
  <2>1. TypeOK'
    BY <1>0, <1>4 DEF Touch, TypeOK, Step, rows
  <2>2. Inserts(w) /\ Reached(w)'
    <3>1. /\ step'[w] = "message"
          /\ \A v \in Worker \ {w} : step'[v] = step[v] /\ tries'[v] = tries[v]
      BY <1>0, <1>4 DEF Touch, TypeOK, locks
    <3>2. Inserts(w)
      <4>1. UNCHANGED <<phone, contact, conversation, session, message, job>>
        BY <1>0, <1>4, <3>1 DEF Touch, rows
      <4>2. step[w] = "touch" /\ step'[w] # "idle"
        BY <1>0, <1>4, <3>1 DEF Touch
      <4>. QED  BY <1>0, <1>4, <3>1, <4>1, <4>2 DEF Inserts
    <3>3. Reached(w)'
      BY <1>0, <1>4, <3>1 DEF Touch, Reached, OneOwner, TypeOK, rows, u
    <3>. QED  BY <3>2, <3>3
  <2>. QED  BY <1>4, <2>1, <2>2, InsertsKeep DEF Touch, rows
<1>. QED  BY <1>1, <1>2, <1>3, <1>4

LEMMA RegisterStatement ==
  ASSUME IdentityInv, NEW w \in Worker, RegisterInbound(w)
  PROVE  IdentityInv'
<1>. USE NamesDiffer, IdentityAssumption DEF IdentityInv, IdentityAssumption, Goto
<1>1. job[w] \in Message /\ step[w] = "message" /\ message[job[w]] \in {"absent", "committed"}
  BY DEF RegisterInbound, Reached
<1>2. /\ message' \in [Message -> RowState] /\ message'[job[w]] \in {w, "committed"}
      /\ \A m \in Message :
           message'[m] = message[m] \/ (message[m] = "absent" /\ message'[m] = w /\ m = job[w])
  <2>1. message' = [message EXCEPT ![job[w]] = IF message[job[w]] = "absent" THEN w ELSE message[job[w]]]
    BY DEF RegisterInbound
  <2>2. message \in [Message -> RowState]
    BY DEF TypeOK
  <2>. QED  BY <1>1, <2>1, <2>2 DEF RowState
<1>3. TypeOK'
  BY <1>1, <1>2 DEF RegisterInbound, TypeOK, Step, locks
<1>4. Inserts(w) /\ Reached(w)'
  <2>1. /\ step'[w] = "commit"
        /\ \A v \in Worker \ {w} : step'[v] = step[v] /\ tries'[v] = tries[v]
    BY <1>1, <1>2 DEF RegisterInbound, TypeOK, locks
  <2>2. Inserts(w)
    <3>1. UNCHANGED <<phone, contact, conversation, session, job>>
      BY <1>1, <1>2, <2>1 DEF RegisterInbound, rows
    <3>2. step[w] = "message" /\ step'[w] # "idle"
      BY <1>1, <1>2, <2>1 DEF RegisterInbound
    <3>. QED  BY <1>1, <1>2, <2>1, <3>1, <3>2 DEF Inserts
  <2>3. Reached(w)'
    BY <1>1, <1>2, <2>1 DEF RegisterInbound, Reached, OneOwner, TypeOK, rows, u
  <2>. QED  BY <2>2, <2>3
<1>. QED  BY <1>3, <1>4, InsertsKeep DEF RegisterInbound

LEMMA Delivered ==
  ASSUME IdentityInv, NEW w \in Worker, NEW m \in Message, Deliver(w, m)
  PROVE  IdentityInv'
<1>. USE NamesDiffer, IdentityAssumption DEF IdentityInv, IdentityAssumption, Goto, Deliver
<1>1. TypeOK'
  BY DEF TypeOK, Step, rows, locks
<1>2. ASSUME NEW v \in Worker PROVE Reached(v)' /\ (tries'[v] > 0 => phone' = "committed")
  <2>1. CASE v = w
    BY <2>1 DEF Reached, TypeOK, Step, rows
  <2>2. CASE v # w
    <3>1. step'[v] = step[v] /\ job'[v] = job[v] /\ UNCHANGED <<rows, tries>>
      BY <2>2 DEF TypeOK
    <3>. QED  BY <2>2, <3>1 DEF Reached, rows, u
  <2>. QED  BY <2>1, <2>2
<1>3. OneOwner'
  <2>1. \A x \in User : contact[x] # w
    BY DEF TypeOK
  <2>2. \A k \in Message : message[k] # w
    BY DEF TypeOK
  <2>3. \A v \in Worker : v # w => job'[v] = job[v] /\ step'[v] = step[v]
    BY DEF TypeOK
  <2>. QED  BY <2>1, <2>2, <2>3 DEF OneOwner, rows
<1>4. AllOrNothing' /\ OnlyContactsCollide'
  BY DEF AllOrNothing, OnlyContactsCollide, rows
<1>. QED  BY <1>1, <1>2, <1>3, <1>4

LEMMA StepIdentityInv == IdentityInv /\ [Next]_vars => IdentityInv'
<1>. SUFFICES ASSUME IdentityInv, [Next]_vars PROVE IdentityInv'
  OBVIOUS
<1>1. ASSUME NEW w \in Worker, Proceed(w) PROVE IdentityInv'
  BY <1>1, PhoneStatements, ContactStatements, ConversationStatements, RegisterStatement, CommitKeeps
     DEF Proceed
<1>2. ASSUME NEW w \in Worker, Crash(w) PROVE IdentityInv'
  BY <1>2, RolledBack, IdentityAssumption
     DEF Crash, IdentityInv, OnlyContactsCollide, TypeOK, IdentityAssumption
<1>3. ASSUME NEW w \in Worker, NEW m \in Message, Deliver(w, m) PROVE IdentityInv'
  BY <1>3, Delivered
<1>4. CASE UNCHANGED vars
  BY <1>4 DEF vars, rows, locks, IdentityInv, TypeOK, Reached, u, OneOwner, AllOrNothing, OnlyContactsCollide
<1>. QED  BY <1>1, <1>2, <1>3, <1>4 DEF Next, Quiescent

-----------------------------------------------------------------------------
\* Every transaction stands where its statements have brought it, and rows of
\* one user have one owner (contact.py, conversation.py, phone_number.py).
THEOREM IdentityInvariant == Spec => []IdentityInv
<1>. QED  BY InitIdentityInv, StepIdentityInv, PTL DEF Spec

\* Every variable stays in its type, and a transaction that is over holds no
\* lock and owns no row.
THEOREM IdentityTypes == Spec => []TypeOK
<1>1. IdentityInv => TypeOK
  BY DEF IdentityInv
<1>. QED  BY <1>1, IdentityInvariant, PTL

\* No crash, collision or order of arrival leaves a part of an identity behind
\* (register_inbound's commit is the only one), for any number of requests.
THEOREM IdentityAllOrNothing == Spec => []AllOrNothing
<1>1. IdentityInv => AllOrNothing
  BY DEF IdentityInv
<1>. QED  BY <1>1, IdentityInvariant, PTL

\* PhoneNumberService.resolve never raises its RuntimeError, and the inserts of
\* conversations and sessions meet no conflict: a contact's insert is the only
\* one that can cost a request.
THEOREM CollisionsAreContacts == Spec => []OnlyContactsCollide
<1>1. IdentityInv => OnlyContactsCollide
  BY DEF IdentityInv
<1>. QED  BY <1>1, IdentityInvariant, PTL
-----------------------------------------------------------------------------
(* No transactions wait for each other: who is waited for is further on.   *)

LEMMA StepHoldersAhead ==
  ASSUME IdentityInv, HoldersAhead, [Next]_vars
  PROVE  HoldersAhead'
<1>. USE NamesDiffer, IdentityAssumption DEF IdentityAssumption
<1>0. TypeOK
  BY DEF IdentityInv
<1>1. ASSUME NEW w \in Worker, NEW outcome \in {"absent", "committed"}, Ended(w, outcome)
      PROVE  HoldersAhead'
  <2>1. ASSUME NEW v \in Worker PROVE Ahead(v)'
    <3>1. CASE v = w
      BY <1>1, <3>1 DEF Ended, Ahead
    <3>2. CASE v # w
      BY <1>1, <3>2 DEF Ended, Ahead, HoldersAhead
    <3>. QED  BY <3>1, <3>2
  <2>. QED  BY <2>1 DEF HoldersAhead
<1>2. ASSUME NEW w \in Worker, Proceed(w), ~ \E outcome \in {"absent", "committed"} : EndTransaction(w, outcome)
      PROVE  HoldersAhead'
  <2>1. Reached(w) /\ Ahead(w) /\ OneOwner
    BY DEF IdentityInv, HoldersAhead
  <2>2. \A v \in Worker : v # w => step'[v] = step[v]
    BY <1>0, <1>2 DEF Proceed, FindPhone, InsertPhone, PhoneTaken, FindContact, InsertContact, ContactTaken,
          Rename, FindConversation, InsertConversation, InsertSession, Touch, RegisterInbound, Commit,
          Abort, Goto, TypeOK, vars
  <2>3. ASSUME NEW v \in Worker, v # w PROVE Ahead(v)'
    <3>1. step'[v] = step[v] /\ Ahead(v)
      BY <2>2, <2>3 DEF HoldersAhead
    <3>2. /\ phone' \in {phone, w}
          /\ \A x \in User :
               /\ contact'[x] \in {contact[x], w} /\ conversation'[x] \in {conversation[x], w}
               /\ session'[x] \in {session[x], w} /\ renaming'[x] \in {renaming[x], w}
               /\ touching'[x] \in {touching[x], w}
      BY <1>0, <1>2 DEF Proceed, FindPhone, InsertPhone, PhoneTaken, FindContact, InsertContact, ContactTaken,
          Rename, FindConversation, InsertConversation, InsertSession, Touch, RegisterInbound, Commit,
          Abort, Goto, TypeOK, rows, locks
    <3>. QED  BY <2>3, <3>1, <3>2 DEF Ahead
  <2>4. Ahead(w)'
    <3>1. CASE FindPhone(w)
      BY <1>0, <1>2, <2>1, <3>1 DEF FindPhone, Abort, Goto, Ahead, TypeOK, rows, locks
    <3>2. CASE InsertPhone(w)
      BY <1>0, <2>1, <3>2 DEF InsertPhone, Goto, Ahead, TypeOK, locks
    <3>3. CASE PhoneTaken(w)
      BY <1>0, <2>1, <3>3 DEF PhoneTaken, Goto, Ahead, TypeOK, rows, locks
    <3>4. CASE FindContact(w)
      BY <1>0, <2>1, <3>4 DEF FindContact, Goto, Ahead, TypeOK, rows, locks
    <3>5. CASE InsertContact(w)
      BY <1>0, <2>1, <3>5 DEF InsertContact, Goto, Ahead, TypeOK, locks
    <3>6. CASE ContactTaken(w)
      BY <1>2, <3>6 DEF ContactTaken, Abort
    <3>7. CASE Rename(w)
      BY <1>0, <2>1, <3>7 DEF Rename, Goto, Ahead, TypeOK, rows
    <3>8. CASE FindConversation(w)
      BY <1>0, <2>1, <3>8 DEF FindConversation, Goto, Ahead, TypeOK, rows, locks
    <3>9. CASE InsertConversation(w)
      BY <1>0, <1>2, <2>1, <3>9 DEF InsertConversation, Abort, Goto, Ahead, TypeOK, locks
    <3>10. CASE InsertSession(w)
      BY <1>0, <1>2, <2>1, <3>10 DEF InsertSession, Abort, Goto, Ahead, TypeOK, locks
    <3>11. CASE Touch(w)
      BY <1>0, <2>1, <3>11 DEF Touch, Goto, Ahead, TypeOK, rows
    <3>12. CASE RegisterInbound(w)
      BY <1>0, <2>1, <3>12 DEF RegisterInbound, Goto, Ahead, TypeOK, locks
    <3>13. CASE Commit(w)
      BY <1>2, <3>13 DEF Commit
    <3>. QED  BY <1>2, <3>1, <3>2, <3>3, <3>4, <3>5, <3>6, <3>7, <3>8, <3>9, <3>10, <3>11, <3>12, <3>13 DEF Proceed
  <2>. QED  BY <2>3, <2>4 DEF HoldersAhead
<1>3. ASSUME NEW w \in Worker, NEW outcome \in {"absent", "committed"}, EndTransaction(w, outcome)
      PROVE  Ended(w, outcome)
  BY <1>0, <1>3 DEF EndTransaction, Ended, Settle, Goto, TypeOK
<1>4. ASSUME NEW w \in Worker, NEW m \in Message, Deliver(w, m) PROVE HoldersAhead'
  <2>1. /\ UNCHANGED <<rows, locks>> /\ step[w] = "idle"
        /\ \A v \in Worker : v # w => step'[v] = step[v]
    BY <1>0, <1>4 DEF Deliver, Goto, TypeOK
  <2>2. phone # w /\ \A x \in User : w \notin {contact[x], conversation[x], session[x], renaming[x], touching[x]}
    BY <1>0, <2>1 DEF TypeOK
  <2>. QED  BY <2>1, <2>2 DEF HoldersAhead, Ahead, rows, locks
<1>5. CASE UNCHANGED vars
  BY <1>5 DEF vars, rows, locks, HoldersAhead, Ahead
<1>6. ASSUME NEW w \in Worker, Proceed(w) PROVE HoldersAhead'
  BY <1>1, <1>2, <1>3, <1>6
<1>7. ASSUME NEW w \in Worker, Crash(w) PROVE HoldersAhead'
  BY <1>1, <1>3, <1>7 DEF Crash
<1>. QED  BY <1>4, <1>5, <1>6, <1>7 DEF Next, Quiescent

\* Whoever owns an uncommitted row, or holds a lock, is past the statement that
\* takes it: the order of the statements is the order of the locks.
THEOREM HoldersAreAhead == Spec => []HoldersAhead
<1>1. Init => HoldersAhead
  BY NamesDiffer, IdentityAssumption DEF IdentityAssumption, Init, HoldersAhead, Ahead
<1>. QED  BY <1>1, StepHoldersAhead, IdentityInvariant, PTL DEF Spec

\* The statements in their order.
place == [idle |-> 0, phone |-> 1, insertPhone |-> 2, contact |-> 3, insertContact |-> 4, rename |-> 5,
          conversation |-> 6, insertConversation |-> 7, session |-> 8, touch |-> 9, message |-> 10, commit |-> 11]

LEMMA WaitsForOneAhead ==
  ASSUME IdentityInv, HoldersAhead, NEW w \in Worker, NEW v \in Worker, WaitsFor(w, v)
  PROVE  place[step[v]] > place[step[w]]
<1>1. step[v] \in Step /\ Ahead(v)
  BY DEF IdentityInv, TypeOK, HoldersAhead
<1>2. step[w] \notin {"idle", "commit"} /\ job[w] \in Message /\ u(w) \in User
  BY IdentityAssumption DEF WaitsFor, IdentityInv, Reached, u, IdentityAssumption
<1>3. CASE step[w] = "insertPhone" /\ phone = v
  BY <1>1, <1>3 DEF Ahead, Step, place
<1>4. CASE step[w] = "insertContact" /\ contact[u(w)] = v
  BY <1>1, <1>2, <1>4 DEF Ahead, Step, place
<1>5. CASE step[w] = "rename" /\ renaming[u(w)] = v
  BY <1>1, <1>2, <1>5 DEF Ahead, Step, place
<1>6. CASE step[w] = "insertConversation" /\ conversation[u(w)] = v
  BY <1>1, <1>2, <1>6 DEF Ahead, Step, place
<1>7. CASE step[w] = "session" /\ session[u(w)] = v
  BY <1>1, <1>2, <1>7 DEF Ahead, Step, place
<1>8. CASE step[w] = "touch" /\ touching[u(w)] = v
  BY <1>1, <1>2, <1>8 DEF Ahead, Step, place
<1>9. CASE step[w] = "message" /\ message[job[w]] = v
  <2>1. step[v] = "commit"
    BY <1>2, <1>9 DEF IdentityInv, OneOwner
  <2>. QED  BY <1>9, <2>1 DEF place
<1>. QED  BY <1>3, <1>4, <1>5, <1>6, <1>7, <1>8, <1>9 DEF WaitsFor

\* PostgreSQL never ends a request of register_inbound's transaction with a
\* deadlock error, for any number of requests at once: the transactions that
\* wait wait for ones further on, and the furthest of any of them for none.
THEOREM NoTransactionsDeadlock == Spec => []NoDeadlock
<1>1. IdentityInv /\ HoldersAhead => NoDeadlock
  <2>. SUFFICES ASSUME IdentityInv, HoldersAhead PROVE NoDeadlock
    OBVIOUS
  <2>0. SUFFICES ASSUME NEW S \in SUBSET Worker, S # {}
                 PROVE  \E w \in S : \A v \in S : ~WaitsFor(w, v)
    BY DEF NoDeadlock
  <2>1. SUFFICES ASSUME \A w \in S : \E v \in S : WaitsFor(w, v) PROVE FALSE
    OBVIOUS
  <2>2. \A w \in S : place[step[w]] \in 0..11
    <3>1. \A k \in Step : place[k] \in 0..11
      BY DEF Step, place
    <3>2. \A w \in S : step[w] \in Step
      BY <2>0 DEF IdentityInv, TypeOK
    <3>. QED  BY <3>1, <3>2
  <2>3. \A w \in S : \E v \in S : place[step[v]] > place[step[w]]
    BY <2>0, <2>1, WaitsForOneAhead
  <2> DEFINE Passed == { k \in Nat : \E w \in S : place[step[w]] >= k }
  <2>4. 0 \in Passed
    <3>1. PICK w : w \in S
      BY <2>0
    <3>. QED  BY <2>2, <3>1
  <2>5. \A k \in Nat : k \in Passed => k + 1 \in Passed
    BY <2>2, <2>3
  <2>6. 12 \notin Passed
    BY <2>2
  <2> HIDE DEF Passed
  <2>. QED  BY <2>4, <2>5, <2>6, SetInduction
<1>. QED  BY <1>1, IdentityInvariant, HoldersAreAhead, PTL
-----------------------------------------------------------------------------
(* What can be seen of a transaction is its commit.                        *)

\* Without a newly committed row there is nothing to see.
NothingCommitted ==
  /\ phone' = "committed" <=> phone = "committed"
  /\ \A x \in User :
       /\ contact'[x] = "committed" <=> contact[x] = "committed"
       /\ conversation'[x] = "committed" <=> conversation[x] = "committed"
       /\ session'[x] = "committed" <=> session[x] = "committed"
  /\ \A m \in Message : message'[m] = "committed" <=> message[m] = "committed"

LEMMA NothingSeen ==
  ASSUME TypeOK, TypeOK', NothingCommitted
  PROVE  UNCHANGED Identities!vars
<1>1. /\ DOMAIN contact = User /\ DOMAIN conversation = User
      /\ DOMAIN session = User /\ DOMAIN message = Message
      /\ DOMAIN contact' = User /\ DOMAIN conversation' = User
      /\ DOMAIN session' = User /\ DOMAIN message' = Message
  BY DEF TypeOK
<1>2. Committed(contact)' = Committed(contact)
  BY <1>1 DEF NothingCommitted, Committed
<1>3. Committed(conversation)' = Committed(conversation)
  BY <1>1 DEF NothingCommitted, Committed
<1>4. Committed(session)' = Committed(session)
  BY <1>1 DEF NothingCommitted, Committed
<1>5. Committed(message)' = Committed(message)
  BY <1>1 DEF NothingCommitted, Committed
<1>6. (phone = "committed")' = (phone = "committed")
  BY DEF NothingCommitted
<1>. QED  BY <1>2, <1>3, <1>4, <1>5, <1>6 DEF Identities!vars

LEMMA RollbackUnseen ==
  ASSUME NEW w \in Worker, Ended(w, "absent")
  PROVE  NothingCommitted
BY NamesDiffer DEF Ended, NothingCommitted

LEMMA StatementsUnseen ==
  ASSUME IdentityInv, NEW w \in Worker, Proceed(w), ~Commit(w),
         ~EndTransaction(w, "absent")
  PROVE  NothingCommitted
<1>1. TypeOK
  BY DEF IdentityInv
<1>2. ~ \E why \in {"phone", "contact", "conversation", "session"} : Abort(w, why)
  BY DEF Abort
<1>3. /\ (phone' = phone \/ (phone = "absent" /\ phone' = w))
      /\ \A x \in User :
           /\ (contact'[x] = contact[x] \/ (contact[x] = "absent" /\ contact'[x] = w))
           /\ (conversation'[x] = conversation[x] \/ (conversation[x] = "absent" /\ conversation'[x] = w))
           /\ (session'[x] = session[x] \/ (session[x] = "absent" /\ session'[x] = w))
      /\ \A m \in Message : (message'[m] = message[m] \/ (message[m] = "absent" /\ message'[m] = w))
  BY <1>1, <1>2, NamesDiffer
     DEF Proceed, FindPhone, InsertPhone, PhoneTaken, FindContact, InsertContact, ContactTaken,
         Rename, FindConversation, InsertConversation, InsertSession, Touch, RegisterInbound, TypeOK, rows, RowState
<1>. QED  BY <1>3, NamesDiffer DEF NothingCommitted

\* A commit registers its message, or had nothing to commit.
LEMMA CommitSeen ==
  ASSUME IdentityInv, IdentityInv', NEW w \in Worker, step[w] = "commit", Ended(w, "committed")
  PROVE  Identities!Next \/ UNCHANGED Identities!vars
<1>. USE NamesDiffer, IdentityAssumption DEF IdentityAssumption
<1>0. TypeOK /\ TypeOK' /\ Reached(w) /\ OneOwner /\ AllOrNothing
  BY DEF IdentityInv
<1>1. /\ job[w] \in Message /\ u(w) \in User /\ phone \in {w, "committed"}
      /\ message[job[w]] \in {w, "committed"}
      /\ \/ contact[u(w)] = "committed"
         \/ contact[u(w)] = w /\ conversation[u(w)] = w /\ session[u(w)] = w
  BY <1>0 DEF Reached, u
<1>2. \A x \in User :
        /\ contact[x] = w => x = u(w)
        /\ conversation[x] = w => contact[x] = w
        /\ session[x] = w => conversation[x] = w
  BY <1>0 DEF OneOwner, u
<1>3. \A m \in Message : message[m] = w => m = job[w]
  BY <1>0 DEF OneOwner
<1>4. CASE message[job[w]] = "committed"
  <2>1. phone = "committed" /\ contact[u(w)] = "committed"
    BY <1>0, <1>1, <1>4 DEF AllOrNothing, u
  <2>2. \A x \in User : contact[x] # w /\ conversation[x] # w /\ session[x] # w
    BY <1>2, <2>1
  <2>3. \A m \in Message : message[m] # w
    BY <1>3, <1>4
  <2>4. NothingCommitted
    BY <2>1, <2>2, <2>3 DEF Ended, NothingCommitted
  <2>. QED  BY <1>0, <2>4, NothingSeen
<1>5. CASE message[job[w]] = w
  <2>1. /\ DOMAIN contact = User /\ DOMAIN conversation = User
        /\ DOMAIN session = User /\ DOMAIN message = Message
        /\ DOMAIN contact' = User /\ DOMAIN conversation' = User
        /\ DOMAIN session' = User /\ DOMAIN message' = Message
    BY <1>0 DEF TypeOK
  <2>2. /\ \A x \in User : contact'[x] = "committed" <=> contact[x] = "committed" \/ x = u(w)
        /\ \A x \in User : conversation'[x] = "committed" <=> conversation[x] = "committed" \/ x = u(w)
        /\ \A x \in User : session'[x] = "committed" <=> session[x] = "committed" \/ x = u(w)
        /\ \A m \in Message : message'[m] = "committed" <=> message[m] = "committed" \/ m = job[w]
    BY <1>0, <1>1, <1>2, <1>3, <1>5 DEF Ended, AllOrNothing
  <2>3. phone' = "committed"
    BY <1>1 DEF Ended
  <2>4. Committed(contact)' = Committed(contact) \cup {u(w)}
    BY <1>1, <2>1, <2>2 DEF Committed
  <2>5. Committed(conversation)' = Committed(conversation) \cup {u(w)}
    BY <1>1, <2>1, <2>2 DEF Committed
  <2>6. Committed(session)' = Committed(session) \cup {u(w)}
    BY <1>1, <2>1, <2>2 DEF Committed
  <2>7. Committed(message)' = Committed(message) \cup {job[w]} /\ job[w] \notin Committed(message)
    BY <1>1, <1>5, <2>1, <2>2 DEF Committed
  <2>8. Identities!Register(job[w])
    BY <2>3, <2>4, <2>5, <2>6, <2>7 DEF Identities!Register, u
  <2>. QED  BY <1>1, <2>8 DEF Identities!Next
<1>. QED  BY <1>1, <1>4, <1>5

\* The statement-by-statement transaction implements AtomicIdentity: what others
\* can see of it happens in one step, its commit, for any number of requests.
THEOREM TransactionImplementsAtomicIdentity == Spec => ImplementsAtomicIdentity
<1>1. Init => Identities!Init
  BY DEF Init, Identities!Init, Committed
<1>2. IdentityInv /\ IdentityInv' /\ [Next]_vars => [Identities!Next]_(Identities!vars)
  <2>. SUFFICES ASSUME IdentityInv, IdentityInv', [Next]_vars
                PROVE  Identities!Next \/ UNCHANGED Identities!vars
    OBVIOUS
  <2>0. TypeOK /\ TypeOK'
    BY DEF IdentityInv
  <2>1. ASSUME NEW w \in Worker, NEW outcome \in {"absent", "committed"}, EndTransaction(w, outcome)
        PROVE  Ended(w, outcome)
    BY <2>0, <2>1 DEF EndTransaction, Ended, Settle, Goto, TypeOK
  <2>2. ASSUME NEW w \in Worker, Proceed(w) PROVE Identities!Next \/ UNCHANGED Identities!vars
    <3>1. CASE Commit(w)
      BY <2>1, <3>1, CommitSeen DEF Commit
    <3>2. CASE EndTransaction(w, "absent")
      BY <2>0, <2>1, <3>2, RollbackUnseen, NothingSeen
    <3>3. CASE ~Commit(w) /\ ~EndTransaction(w, "absent")
      BY <2>0, <2>2, <3>3, StatementsUnseen, NothingSeen
    <3>. QED  BY <3>1, <3>2, <3>3
  <2>3. ASSUME NEW w \in Worker, Crash(w) PROVE UNCHANGED Identities!vars
    BY <2>0, <2>1, <2>3, RollbackUnseen, NothingSeen DEF Crash
  <2>4. ASSUME UNCHANGED rows PROVE UNCHANGED Identities!vars
    BY <2>4 DEF rows, Identities!vars, Committed
  <2>. QED  BY <2>2, <2>3, <2>4 DEF Next, Quiescent, Deliver, vars
<1>. QED  BY <1>1, <1>2, IdentityInvariant, PTL DEF Spec, ImplementsAtomicIdentity, Identities!Spec
=============================================================================
