------------------------------- MODULE AdminRead -------------------------------
(***************************************************************************)
(* An administrator pages through a listing of the read API while          *)
(* WhatsApp messages arrive: login, the check of every request, the count  *)
(* and the page of a listing, and the rows that come and move in between.  *)
(*                                                                         *)
(* A listing is the sequence of the rows its ORDER BY gives at the moment; *)
(* time stamps show only in where a row is.  A message that is committed   *)
(* late lies before others (created_at is the start of its transaction),   *)
(* and a conversation or a contact moves when it is updated.  Rows are     *)
(* never deleted.  Two rows never have the same time stamp.                *)
(*                                                                         *)
(* The two statements of a request run in one transaction at READ          *)
(* COMMITTED: each of them sees what is committed when it starts.          *)
(*                                                                         *)
(* A definition marked as a seeded error is used by no action.             *)
(***************************************************************************)
EXTENDS Integers, Sequences, FiniteSets

CONSTANTS
  Row,
  PageLimit,       \* the limit the client asks for
  MaxMoves         \* bound: updates that move a row

ASSUME AdminAssumption == PageLimit \in Nat \ {0} /\ MaxMoves \in Nat

VARIABLES
  endpoint,    \* what is listed: "messages" of a conversation, or the "inbox"
  list,        \* the rows in the listing's order
  account,     \* role of the administrator, or "inactive"
  claim,       \* the role in the token, "none" before login and once it has expired
  step,        \* the next step of the request, "idle" between requests
  offset,      \* the offset of the next page: the rows before it are behind
  skip,        \* the offset of the request
  total, page, \* what its two statements have found
  owed,        \* rows listed when paging began and not read yet
  crossed,     \* updates since that moved a row across the offset
  entitled,    \* the request could have been allowed at some moment since it came
  moves

rows   == <<endpoint, list, moves>>
access == <<account, claim>>
paging == <<offset, owed, crossed>>
answer == <<skip, total, page>>
adminVars == <<rows, access, paging, answer, step, entitled>>

Endpoint == {"messages", "inbox"}
Role == {"viewer", "operator", "admin"}
AdminStep == {"idle", "check", "lookup", "count", "page", "answer"}

ElementsOf(seq) == { seq[i] : i \in DOMAIN seq }

AdminInit ==
  /\ endpoint \in Endpoint
  /\ list = <<>>
  /\ account \in Role
  /\ claim = "none"
  /\ step = "idle"
  /\ offset = 0 /\ skip = 0
  /\ total = 0 /\ page = <<>>
  /\ owed = {} /\ crossed = 0
  /\ entitled = FALSE
  /\ moves = 0

-----------------------------------------------------------------------------
(* The webhook path, committing in between.                                *)

Inserted(seq, at, row) ==
  [i \in 1..(Len(seq) + 1) |-> IF i < at THEN seq[i] ELSE IF i = at THEN row ELSE seq[i - 1]]

Moved(seq, from, to) ==
  [i \in 1..Len(seq) |->
     IF i = to THEN seq[from]
     ELSE IF from <= i /\ i < to THEN seq[i + 1]
     ELSE IF to < i /\ i <= from THEN seq[i - 1]
     ELSE seq[i]]

\* A row is committed, wherever its time stamp puts it.
Arrive(row, at) ==
  /\ row \notin ElementsOf(list) /\ at \in 1..(Len(list) + 1)
  /\ list' = Inserted(list, at, row)
  /\ UNCHANGED <<endpoint, moves, access, paging, answer, step, entitled>>

\* _touch, or a new display name: Meta's time stamps, or the start of a
\* transaction, may also lie before the stored one.
Touch(from, to) ==
  /\ endpoint = "inbox" /\ moves < MaxMoves /\ moves' = moves + 1
  /\ from \in DOMAIN list /\ to \in DOMAIN list
  /\ list' = Moved(list, from, to)
  /\ crossed' = IF (from <= offset) # (to <= offset) THEN crossed + 1 ELSE crossed
  /\ UNCHANGED <<endpoint, access, offset, owed, answer, step, entitled>>

-----------------------------------------------------------------------------
(* Accounts and tokens.                                                    *)

\* require_role(OPERATOR) on what get_current_user has read.  (RoleClaimed:
\* seeded error, the role is taken from the token.)
RoleClaimed(stored, claimed) == stored # "inactive" /\ claimed \in {"operator", "admin"}
Allowed(stored, claimed) == claimed # "none" /\ stored \in {"operator", "admin"}

\* What the request could rely on, were it checked now.
Rights(stored, claimed) == stored \in Role \ {"viewer"} /\ claimed \in Role

\* The row is changed by hand: no code of the repository does it.
ChangeAccount(to) ==
  /\ to # account /\ account' = to
  /\ entitled' = (entitled \/ Rights(to, claim))
  /\ UNCHANGED <<rows, claim, paging, answer, step>>

Login ==
  /\ step = "idle" /\ claim = "none" /\ account # "inactive"
  /\ claim' = account
  /\ UNCHANGED <<rows, account, paging, answer, step, entitled>>

\* access_token_expire_minutes have passed.
ExpireToken ==
  /\ claim # "none" /\ claim' = "none"
  /\ UNCHANGED <<rows, account, paging, answer, step, entitled>>

-----------------------------------------------------------------------------
(* Requests.                                                               *)

\* The order of the two statements.  (PageFirst: seeded error.)
PageFirst == <<"page", "count">>
Statements == <<"count", "page">>
After(statement) == IF statement = Statements[1] THEN Statements[2] ELSE "answer"

\* The client begins to page, or asks for the next page.
StartPaging ==
  /\ step = "idle"
  /\ offset' = 0 /\ skip' = 0 /\ owed' = ElementsOf(list) /\ crossed' = 0
  /\ step' = "check" /\ entitled' = Rights(account, claim)
  /\ UNCHANGED <<rows, access, total, page>>

NextPage ==
  /\ step = "idle" /\ offset > 0
  /\ skip' = offset
  /\ step' = "check" /\ entitled' = Rights(account, claim)
  /\ UNCHANGED <<rows, access, paging, total, page>>

\* get_current_user and require_role: 401, 403, or the service.  A token that
\* expires after it was decoded and before the account is read is as good as
\* one that expires after both.
Check ==
  /\ step = "check"
  /\ step' = IF ~Allowed(account, claim) THEN "idle"
             ELSE IF endpoint = "messages" THEN "lookup" ELSE Statements[1]
  /\ UNCHANGED <<rows, access, paging, answer, entitled>>

\* get_conversation: the row is committed with its first message, else 404.
Lookup ==
  /\ step = "lookup"
  /\ step' = IF list = <<>> THEN "idle" ELSE Statements[1]
  /\ UNCHANGED <<rows, access, paging, answer, entitled>>

Count ==
  /\ step = "count"
  /\ total' = Len(list)
  /\ step' = After("count")
  /\ UNCHANGED <<rows, access, paging, skip, page, entitled>>

\* LIMIT and OFFSET.  (PageFromNext: seeded error, the offset is one too far.)
Least(m, n) == IF m < n THEN m ELSE n
PageFromNext(seq, from) == [i \in 1..Least(PageLimit, Len(seq) - from - 1) |-> seq[from + 1 + i]]
PageOf(seq, from) == [i \in 1..Least(PageLimit, Len(seq) - from) |-> seq[from + i]]

\* A full page has a successor.
SelectPage ==
  /\ step = "page"
  /\ page' = PageOf(list, skip)
  /\ owed' = owed \ ElementsOf(page')
  /\ offset' = IF Len(page') = PageLimit THEN skip + PageLimit ELSE skip
  /\ step' = After("page")
  /\ UNCHANGED <<rows, access, crossed, skip, total, entitled>>

\* The client has its answer.  A short page ends the paging.
Answer ==
  /\ step = "answer"
  /\ step' = "idle"
  /\ IF Len(page) = PageLimit THEN UNCHANGED paging
     ELSE offset' = 0 /\ owed' = {} /\ crossed' = 0
  /\ UNCHANGED <<rows, access, answer, entitled>>

AdminNext ==
  \/ \E row \in Row, at \in 1..(Len(list) + 1) : Arrive(row, at)
  \/ \E from, to \in DOMAIN list : Touch(from, to)
  \/ \E to \in Role \cup {"inactive"} : ChangeAccount(to)
  \/ Login \/ ExpireToken
  \/ StartPaging \/ NextPage \/ Check \/ Lookup \/ Count \/ SelectPage \/ Answer

AdminSpec == AdminInit /\ [][AdminNext]_adminVars

-----------------------------------------------------------------------------
AdminTypeOK ==
  /\ endpoint \in Endpoint
  /\ list \in Seq(Row)
  /\ account \in Role \cup {"inactive"} /\ claim \in Role \cup {"none"}
  /\ step \in AdminStep
  /\ offset \in Nat /\ skip \in Nat
  /\ total \in Nat /\ page \in Seq(Row)
  /\ owed \subseteq Row
  /\ crossed \in 0..moves /\ moves \in 0..MaxMoves
  /\ entitled \in BOOLEAN

\* The page of an answer is at least as full as its total promises: what
\* arrives or moves between the two statements of a listing (admin_read.py,
\* the count before the page) never leaves a client with fewer rows than
\* total - offset on the page it has asked for.
PageAsPromised ==
  step = "answer" => Len(page) = PageLimit \/ skip + Len(page) >= total

\* When a short page ends the paging, every row that was listed when it began
\* has been read, but for one per update that moved a row across the reader's
\* offset.  Messages never move: paging through a conversation misses none of
\* them, whatever is committed, early or late, between its pages (the ORDER BY
\* of list_messages, list_conversations and list_contacts).
MissedPaidFor ==
  step = "answer" /\ Len(page) < PageLimit => Cardinality(owed) <= crossed

\* A token outlives the rights of its account, but opens nothing by itself:
\* data is read only for a request whose account was active and an operator,
\* and its token unexpired, at some moment since the request came
\* (get_current_user, require_role).
RevocationHolds == step \in {"lookup", "count", "page", "answer"} => entitled

-----------------------------------------------------------------------------
(* The inductive invariant behind MissedPaidFor.                           *)

\* Rows owed to the client that lie behind it.
Slipped == { r \in owed : \E i \in DOMAIN list : i <= offset /\ list[i] = r }

PagingInv ==
  /\ AdminTypeOK
  /\ \A i, j \in DOMAIN list : list[i] = list[j] => i = j
  /\ owed \subseteq ElementsOf(list) /\ IsFiniteSet(owed)
  /\ offset <= Len(list)
  /\ step \in {"check", "lookup", "count", "page"} => skip = offset
  /\ step # "idle" /\ Rights(account, claim) => entitled
  /\ step \in {"page", "answer"} => total <= Len(list)
  /\ Cardinality(Slipped) <= crossed
  /\ PageAsPromised
  /\ MissedPaidFor
  /\ RevocationHolds
=============================================================================
