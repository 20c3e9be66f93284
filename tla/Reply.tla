------------------------------- MODULE Reply -------------------------------
(***************************************************************************)
(* Reply objects and the call stack (object/reply.c).  The replies of the  *)
(* calls along which a scheduling context was lent form a doubly linked    *)
(* list: scReply is the newest, replyPrev leads to older ones, replyNext   *)
(* to newer ones, and replyNext of the newest is the context (isHead).     *)
(***************************************************************************)
EXTENDS SchedContext

reply_unlink(k, r, t) ==
  LET k1 == assert(k, /\ k.tsType[t] \in {"BlockedOnReceive", "BlockedOnReply"}
                      /\ k.replyTCB[r] = t
                      /\ k.replyObject[t] = r, "reply_unlink")
  IN setThreadState([k1 EXCEPT !.replyTCB[r] = Null], t, "Inactive")

reply_push(k, caller, callee, r, canDonate) ==
  LET s   == k.tcbSchedContext[caller]
      old == k.scReply[s]
      k1  == assert(k, /\ k.replyTCB[r] = Null
                       /\ k.replyPrev[r] = Null /\ k.replyNext[r] = Null
                       /\ k.tsType[caller] \in {"BlockedOnSend", "Running", "Restart"}
                       /\ k.tsType[callee] \in {"Inactive", "Running", "Restart"}, "reply_push")
      k2  == setThreadStateBlockedOnReply([k1 EXCEPT !.replyTCB[r] = caller], caller, r)
      k3  == assert(k2, old = Null \/ k.replyNext[old] = s, "reply_push")
      k4  == IF old # Null THEN [k3 EXCEPT !.replyNext[old] = r] ELSE k3
      k5  == [k4 EXCEPT !.replyPrev[r] = old, !.scReply[s] = r, !.replyNext[r] = s]
  IN IF s # Null /\ k.tcbSchedContext[callee] = Null /\ canDonate
     THEN schedContext_donate(k5, s, callee)
     ELSE k2

\* Give the context back unless the thread has got another one by now
returnContext(k, s, t) ==
  IF k.tcbSchedContext[t] = Null THEN schedContext_donate(k, s, t) ELSE k

\* Mutant: the next older reply does not become the head of the stack
reply_pop_headLost(k, r, t) ==
  LET s  == k.replyNext[r]
      k1 == [k EXCEPT !.scReply[s] = k.replyPrev[r], !.replyNext[r] = Null]
  IN reply_unlink([returnContext(k1, s, t) EXCEPT !.replyPrev[r] = Null], r, t)

\* Mutant: the context goes back whether or not the caller has one by now
reply_pop_always(k, r, t) ==
  LET s    == k.replyNext[r]
      prev == k.replyPrev[r]
      k1   == [k EXCEPT !.scReply[s] = prev, !.replyNext[r] = Null, !.replyPrev[r] = Null]
      k2   == IF prev # Null THEN [k1 EXCEPT !.replyNext[prev] = s] ELSE k1
  IN reply_unlink(schedContext_donate(k2, s, t), r, t)

\* Mutant: the context stays with the thread that answers
reply_pop_kept(k, r, t) ==
  LET s    == k.replyNext[r]
      prev == k.replyPrev[r]
      k1   == [k EXCEPT !.scReply[s] = prev, !.replyNext[r] = Null, !.replyPrev[r] = Null]
  IN reply_unlink(IF prev # Null THEN [k1 EXCEPT !.replyNext[prev] = s] ELSE k1, r, t)

reply_pop(k, r, t) ==
  LET s    == k.replyNext[r]
      prev == k.replyPrev[r]
      k1   == assert(k, /\ k.replyTCB[r] = t
                        /\ k.tsType[t] = "BlockedOnReply"
                        /\ k.replyObject[t] = r, "reply_pop")
      k2   == [k1 EXCEPT !.scReply[s] = prev]
      k3   == IF prev # Null THEN [k2 EXCEPT !.replyNext[prev] = s] ELSE k2
      k4   == [k3 EXCEPT !.replyNext[r] = Null]
  IN reply_unlink([returnContext(k4, s, t) EXCEPT !.replyPrev[r] = Null], r, t)

\* Cut reply r out of its stack; the parts above and below it stay apart
breakChain(k, r) ==
  LET next == k.replyNext[r]
      prev == k.replyPrev[r]
      k1   == IF next \in Replies THEN [k EXCEPT !.replyPrev[next] = Null] ELSE k
      k2   == IF prev # Null THEN [k1 EXCEPT !.replyNext[prev] = Null] ELSE k1
  IN [k2 EXCEPT !.replyPrev[r] = Null, !.replyNext[r] = Null]

reply_remove(k, r, t) ==
  LET k1 == assert(k, /\ k.replyTCB[r] = t
                      /\ k.tsType[t] = "BlockedOnReply"
                      /\ k.replyObject[t] = r, "reply_remove")
  IN IF isHead(k, r) THEN reply_pop(k1, r, t) ELSE reply_unlink(breakChain(k1, r), r, t)

reply_remove_tcb(k, t) ==
  LET r  == k.replyObject[t]
      k1 == assert(k, k.tsType[t] = "BlockedOnReply", "reply_remove_tcb")
      k2 == IF isHead(k, r) THEN [k1 EXCEPT !.scReply[k.replyNext[r]] = Null] ELSE k1
  IN reply_unlink(breakChain(k2, r), r, t)
=============================================================================
