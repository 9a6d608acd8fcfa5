------------------------- MODULE GetBlockResponder -------------------------
(***************************************************************************)
(* The serving half of GetBlockManager: what onFrame() does with the       *)
(* REQUEST, START and ABORT frames of other nodes.  It runs on the receive *)
(* threads of the dispatcher, one for each interface.  Every critical      *)
(* section of the mutex is one action; the handler and the sends run       *)
(* outside of it and are actions of their own.                             *)
(*                                                                         *)
(* The payload that one run of the handler returns consists of blocks of   *)
(* one and the same content, so that a transfer that mixes two shows.      *)
(***************************************************************************)
EXTENDS Naturals, FiniteSetsExt

CONSTANTS
    Clients,   \* addresses of the nodes that may read from this one
    Threads,   \* receive threads, one per interface
    Hears,     \* Hears[t]: the peers whose frames arrive on t's interface
    Readings,  \* what a run of the handler may return
    Nothing,   \* the content of no session
    MaxBlocks  \* blocks in the largest transfer (64 in the code)

ASSUME ResponderAssumption ==
    /\ MaxBlocks \in Nat \ {0}
    /\ Hears \in [Threads -> SUBSET Clients]
    /\ Nothing \notin Readings

BlockIndex == 0 .. MaxBlocks - 1

VARIABLES
    handler,   \* whether a handler is registered
    sessions,  \* GetBlockManager::sessions
    rx,        \* locals and program counter of each receive thread
    answered   \* history: contents that t has sent in answer to its last START

serveVars == <<handler, sessions, rx, answered>>

(* A session: its blocks, all of them with the given content.              *)
NoSession == [exists |-> FALSE, numBlocks |-> 1, content |-> Nothing]

Session == [exists : BOOLEAN, numBlocks : 1 .. MaxBlocks,
            content : Readings \cup {Nothing}]

(* A thread is idle in receive(), or in onFrame() about to call the        *)
(* handler, store the session, send a reply, or send the blocks of `todo'. *)
Resting(p) == [pc |-> "idle", peer |-> p, numBlocks |-> 1, hasAddress |-> FALSE,
               content |-> Nothing, todo |-> {}, out |-> "ack"]

Thread ==
    [pc : {"idle", "handler", "store", "reply", "transfers"}, peer : Clients,
     numBlocks : 1 .. MaxBlocks, hasAddress : BOOLEAN,
     content : Readings \cup {Nothing}, todo : SUBSET BlockIndex, out : {"ack", "nack"}]

(* A transfer stays within the session it is taken from; the rest is typing*)
ServeTypeOK ==
    /\ handler \in BOOLEAN
    /\ sessions \in [Clients -> Session]
    /\ \A p \in Clients : sessions[p].exists <=> sessions[p].content # Nothing
    /\ rx \in [Threads -> Thread]
    /\ \A t \in Threads :
          rx[t].pc = "transfers" =>
              rx[t].todo \in (SUBSET (0 .. rx[t].numBlocks - 1)) \ {{}}
    /\ answered \in [Threads -> SUBSET Readings]

ServeInit ==
    /\ handler = FALSE
    /\ sessions = [p \in Clients |-> NoSession]
    /\ \E p \in Clients : rx = [t \in Threads |-> Resting(p)]
    /\ answered = [t \in Threads |-> {}]

(* Thread t takes a frame of p off its interface.                          *)
Handles(t, p) == rx[t].pc = "idle" /\ p \in Hears[t]

(* t has nothing left to do for p but to send `answer'.                    *)
Reply(t, p, answer) ==
    rx' = [rx EXCEPT ![t] = [Resting(p) EXCEPT !.pc = "reply", !.out = answer]]

----------------------------------------------------------------------------
(* setHandler(), on an application thread                                  *)
SetHandler(h) ==
    /\ handler' = h
    /\ UNCHANGED <<sessions, rx, answered>>

(* First critical section of REQUEST: the handler is copied.  Without one  *)
(* the REQUEST is refused.                                                 *)
OnRequest(t, p, low6, hasAddress) ==
    /\ Handles(t, p)
    /\ IF handler
       THEN rx' = [rx EXCEPT ![t] = [Resting(p) EXCEPT
                     !.pc = "handler", !.numBlocks = low6 + 1,
                     !.hasAddress = hasAddress]]
       ELSE Reply(t, p, "nack")
    /\ UNCHANGED <<handler, sessions, answered>>

(* The copy of the handler runs, unlocked, and returns `size' blocks.  Any *)
(* other size than the one asked for is refused, as is a REQUEST without a *)
(* block address, whatever the handler has done.  Size 0 stands for all    *)
(* payloads that are not a whole number of blocks.                         *)
RunHandler(t, ok, size, content) ==
    /\ rx[t].pc = "handler"
    /\ IF ok /\ size = rx[t].numBlocks /\ rx[t].hasAddress
       THEN rx' = [rx EXCEPT ![t].pc = "store", ![t].content = content]
       ELSE Reply(t, rx[t].peer, "nack")
    /\ UNCHANGED <<handler, sessions, answered>>

(* Second critical section: a new session over whatever there was.         *)
Store(t) ==
    LET p == rx[t].peer IN
    /\ rx[t].pc = "store"
    /\ sessions' = [sessions EXCEPT ![p] =
                      [exists |-> TRUE, numBlocks |-> rx[t].numBlocks,
                       content |-> rx[t].content]]
    /\ Reply(t, p, "ack")
    /\ UNCHANGED <<handler, answered>>

(* Mutant: the bitmap selects blocks beyond those of the session.          *)
OnStartUnbounded(t, p, bitmap) ==
    /\ Handles(t, p)
    /\ sessions[p].exists /\ bitmap # {}
    /\ rx' = [rx EXCEPT ![t] = [Resting(p) EXCEPT
                !.pc = "transfers", !.numBlocks = sessions[p].numBlocks,
                !.content = sessions[p].content, !.todo = bitmap]]
    /\ answered' = [answered EXCEPT ![t] = {}]
    /\ UNCHANGED <<handler, sessions>>

(* Mutant: the loop over the blocks ends one too early.                    *)
OnStartNotLast(t, p, bitmap) ==
    LET s    == sessions[p]
        todo == bitmap \cap 0 .. s.numBlocks - 2
    IN  /\ Handles(t, p)
        /\ IF ~s.exists
           THEN Reply(t, p, "nack")
           ELSE rx' = [rx EXCEPT ![t] = [Resting(p) EXCEPT
                         !.pc = IF todo = {} THEN "idle" ELSE "transfers",
                         !.numBlocks = s.numBlocks, !.content = s.content,
                         !.todo = todo]]
        /\ answered' = [answered EXCEPT ![t] = {}]
        /\ UNCHANGED <<handler, sessions>>

(* A START takes a copy of the blocks that its bitmap selects.             *)
OnStart(t, p, bitmap) ==
    LET s    == sessions[p]
        todo == bitmap \cap 0 .. s.numBlocks - 1
    IN  /\ Handles(t, p)
        /\ IF ~s.exists
           THEN Reply(t, p, "nack")
           ELSE rx' = [rx EXCEPT ![t] = [Resting(p) EXCEPT
                         !.pc = IF todo = {} THEN "idle" ELSE "transfers",
                         !.numBlocks = s.numBlocks, !.content = s.content,
                         !.todo = todo]]
        /\ answered' = [answered EXCEPT ![t] = {}]
        /\ UNCHANGED <<handler, sessions>>

(* Mutant: the blocks are read from the session as they are sent.          *)
SendTransferUncopied(t) ==
    /\ rx[t].pc = "transfers"
    /\ answered' = [answered EXCEPT ![t] = @ \cup ({sessions[rx[t].peer].content} \ {Nothing})]
    /\ LET rest == rx[t].todo \ {Min(rx[t].todo)} IN
          rx' = IF rest = {} THEN [rx EXCEPT ![t] = Resting(@.peer)]
                             ELSE [rx EXCEPT ![t].todo = rest]
    /\ UNCHANGED <<handler, sessions>>

(* The blocks go out in the order of their numbers; the results of the     *)
(* sends are ignored.                                                      *)
SendTransfer(t) ==
    /\ rx[t].pc = "transfers"
    /\ answered' = [answered EXCEPT ![t] = @ \cup {rx[t].content}]
    /\ LET rest == rx[t].todo \ {Min(rx[t].todo)} IN
          rx' = IF rest = {} THEN [rx EXCEPT ![t] = Resting(@.peer)]
                             ELSE [rx EXCEPT ![t].todo = rest]
    /\ UNCHANGED <<handler, sessions>>

(* An ABORT is not answered.                                               *)
OnAbort(t, p) ==
    /\ Handles(t, p)
    /\ sessions' = [sessions EXCEPT ![p] = NoSession]
    /\ UNCHANGED <<handler, rx, answered>>

SendReply(t) ==
    /\ rx[t].pc = "reply"
    /\ rx' = [rx EXCEPT ![t] = Resting(rx[t].peer)]
    /\ UNCHANGED <<handler, sessions, answered>>

----------------------------------------------------------------------------
Frame(t, p) ==
    \/ \E low6 \in BlockIndex, hasAddress \in BOOLEAN :
          OnRequest(t, p, low6, hasAddress)
    \/ \E bitmap \in SUBSET BlockIndex : OnStart(t, p, bitmap)
    \/ OnAbort(t, p)

ThreadStep(t) ==
    \/ \E ok \in BOOLEAN, size \in 0 .. MaxBlocks, content \in Readings :
          RunHandler(t, ok, size, content)
    \/ Store(t)
    \/ SendTransfer(t)
    \/ SendReply(t)

ServeNext ==
    \/ \E h \in BOOLEAN : SetHandler(h)
    \/ \E t \in Threads, p \in Clients : Frame(t, p)
    \/ \E t \in Threads : ThreadStep(t)

ServeSpec == ServeInit /\ [][ServeNext]_serveVars

----------------------------------------------------------------------------
(* The blocks that answer one START come from one run of the handler, even *)
(* when another REQUEST or an ABORT of the same peer, on another interface,*)
(* replaces the session while they go out.                                 *)
TransfersOfOneAnswer == \A t \in Threads : \A a, b \in answered[t] : a = b
============================================================================
