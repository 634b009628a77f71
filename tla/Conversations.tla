--------------------------- MODULE Conversations ---------------------------
(***************************************************************************)
(* Conversations, their messages and the notifications of them             *)
(* (communications.service.ts).  A message is posted in three steps: the   *)
(* conversation is read, the participants are read by a statement outside  *)
(* the transaction, message and notifications are committed together.      *)
(***************************************************************************)
EXTENDS Integers, FiniteSets

CONSTANTS
  Users, Talks, Messages, Posts,
  Managers, \* owners, administrators and managers: scope.unrestricted
  Outside   \* no user: a participant without account, or nobody

ASSUME ConversationsAssumption == Managers \subseteq Users /\ Outside \notin Users

VARIABLES
  talk,    \* per conversation: "none", "open" or "closed"
  room,    \* the participants: <<conversation, user>>, with or without account
  message, \* per message: its conversation, author and state
  notice,  \* <<message, user>> |-> "UNREAD" or "READ", "none" where there is none
  post,    \* the calls of addMessage
  raced    \* history: calls whose conversation was closed or joined meanwhile

conversationVars == <<talk, room, message, notice, post, raced>>

Unwritten == [talk |-> Outside, author |-> Outside, state |-> "none"]
NoPost    == [stage |-> "idle", talk |-> Outside, author |-> Outside, told |-> {}]

ConversationTypeOK ==
  /\ talk \in [Talks -> {"none", "open", "closed"}]
  /\ room \subseteq Talks \X (Users \cup {Outside})
  /\ message \in [Messages -> [talk : Talks \cup {Outside}, author : Users \cup {Outside},
                               state : {"none", "posted", "deleted"}]]
  /\ notice \in [Messages \X Users -> {"none", "UNREAD", "READ"}]
  /\ post \in [Posts -> [stage : {"idle", "allowed", "addressed"}, talk : Talks \cup {Outside},
                         author : Users \cup {Outside}, told : SUBSET Users]]
  /\ raced \subseteq Posts
  \* participants and messages have a conversation, a notification a message
  /\ \A k \in Talks, u \in Users \cup {Outside} : <<k, u>> \in room => talk[k] # "none"
  /\ \A m \in Messages :
       /\ message[m].state # "none" => message[m].talk \in Talks
       /\ message[m].state = "none" => \A u \in Users : notice[<<m, u>>] = "none"

ConversationInit ==
  /\ talk = [k \in Talks |-> "none"] /\ room = {} /\ raced = {}
  /\ message = [m \in Messages |-> Unwritten]
  /\ notice = [n \in Messages \X Users |-> "none"]
  /\ post = [p \in Posts |-> NoPost]

-----------------------------------------------------------------------------
Participants(k) == {u \in Users : <<k, u>> \in room}
At(k) == {p \in Posts : post[p].stage # "idle" /\ post[p].talk = k}

(* conversationWhere: what a user sees who is no manager.  Access by way   *)
(* of a work order, a customer or a facility is participation here.        *)
Sees(u, k) == u \in Managers \/ <<k, u>> \in room

createConversation(u, k, closed) ==
  /\ u \in Managers /\ talk[k] = "none"
  /\ talk' = [talk EXCEPT ![k] = IF closed THEN "closed" ELSE "open"]
  /\ UNCHANGED <<room, message, notice, post, raced>>

updateConversation(u, k, closed) ==
  /\ u \in Managers /\ talk[k] # "none"
  /\ talk' = [talk EXCEPT ![k] = IF closed THEN "closed" ELSE "open"]
  /\ raced' = IF talk'[k] = "closed" THEN raced \cup At(k) ELSE raced
  /\ UNCHANGED <<room, message, notice, post>>

(* Nothing keeps a participant from being added twice; once is modelled.   *)
addParticipant(u, k, who) ==
  /\ u \in Managers /\ talk[k] # "none" /\ <<k, who>> \notin room
  /\ room' = room \cup {<<k, who>>}
  /\ raced' = IF who \in Users THEN raced \cup At(k) ELSE raced
  /\ UNCHANGED <<talk, message, notice, post>>

-----------------------------------------------------------------------------
\* Mutant of addMessage: a closed conversation is written to like any other.
addMessageAnyway(p, u, k) ==
  /\ post[p] = NoPost /\ talk[k] # "none" /\ Sees(u, k)
  /\ post' = [post EXCEPT ![p] = [NoPost EXCEPT !.stage = "allowed", !.talk = k, !.author = u]]
  /\ UNCHANGED <<talk, room, message, notice, raced>>

addMessage(p, u, k) ==
  /\ post[p] = NoPost /\ talk[k] = "open" /\ Sees(u, k)
  /\ post' = [post EXCEPT ![p] = [NoPost EXCEPT !.stage = "allowed", !.talk = k, !.author = u]]
  /\ UNCHANGED <<talk, room, message, notice, raced>>

buildMessageNotifications(p) ==
  /\ post[p].stage = "allowed"
  /\ post' = [post EXCEPT ![p].stage = "addressed", ![p].told = Participants(post[p].talk)]
  /\ UNCHANGED <<talk, room, message, notice, raced>>

commitMessage(p, m) ==
  /\ post[p].stage = "addressed" /\ message[m] = Unwritten
  /\ message' = [message EXCEPT ![m] = [talk |-> post[p].talk, author |-> post[p].author,
                                        state |-> "posted"]]
  /\ notice' = [n \in Messages \X Users |->
       IF n[1] = m /\ n[2] \in post[p].told THEN "UNREAD" ELSE notice[n]]
  /\ post' = [post EXCEPT ![p] = NoPost] /\ raced' = raced \ {p}
  /\ UNCHANGED <<talk, room>>

(* The transaction fails, nothing of it is stored.                         *)
postFails(p) ==
  /\ post[p].stage # "idle"
  /\ post' = [post EXCEPT ![p] = NoPost] /\ raced' = raced \ {p}
  /\ UNCHANGED <<talk, room, message, notice>>

(* deletedAt is set by the author or a manager; the notifications stay.    *)
deleteMessage(u, m) ==
  /\ message[m].state # "none" /\ (u \in Managers \/ message[m].author = u)
  /\ message' = [message EXCEPT ![m].state = "deleted"]
  /\ UNCHANGED <<talk, room, notice, post, raced>>

readNotification(u, m) ==
  /\ notice[<<m, u>>] # "none" /\ notice' = [notice EXCEPT ![<<m, u>>] = "READ"]
  /\ UNCHANGED <<talk, room, message, post, raced>>

readAllNotifications(u) ==
  /\ notice' = [n \in Messages \X Users |->
       IF n[2] = u /\ notice[n] = "UNREAD" THEN "READ" ELSE notice[n]]
  /\ UNCHANGED <<talk, room, message, post, raced>>

ConversationNext ==
  \/ \E u \in Users, k \in Talks :
       \/ \E closed \in BOOLEAN : createConversation(u, k, closed) \/ updateConversation(u, k, closed)
       \/ \E who \in Users \cup {Outside} : addParticipant(u, k, who)
       \/ \E p \in Posts : addMessage(p, u, k)
  \/ \E p \in Posts : buildMessageNotifications(p) \/ postFails(p)
  \/ \E p \in Posts, m \in Messages : commitMessage(p, m)
  \/ \E u \in Users, m \in Messages : deleteMessage(u, m) \/ readNotification(u, m)
  \/ \E u \in Users : readAllNotifications(u)

ConversationSpec == ConversationInit /\ [][ConversationNext]_conversationVars

-----------------------------------------------------------------------------
Appears(m) == message[m].state = "none" /\ message'[m].state = "posted"

(* A message comes into an open conversation and everyone with an account  *)
(* who is in it then is told, the author too, unless the conversation was  *)
(* closed or joined while the message was on its way: what was read before *)
(* the transaction, and beside it, is not looked at again.                 *)
PostsReachTheRoom ==
  [][\A m \in Messages : Appears(m) =>
       LET k == message'[m].talk
           late == At(k) \cap raced IN
       \/ talk[k] = "open" /\ \A u \in Participants(k) : notice'[<<m, u>>] = "UNREAD"
       \/ \E p \in late : post'[p] = NoPost]_conversationVars

=============================================================================
