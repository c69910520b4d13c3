-------------------------------- MODULE Future --------------------------------
(***************************************************************************)
(* Futures and promises (Mso/src/future, Mso/future).  A future keeps its   *)
(* state and the head of its continuation list in one atomic word; every    *)
(* change of it is a compare-exchange loop, one step here.  Completing a    *)
(* future posts its continuations, which may complete in turn on the same   *)
(* thread: stack[t] holds the calls thread t has still to make, innermost   *)
(* first.  m_link is the next continuation while a future waits in a list   *)
(* and its parent from Posting on.                                          *)
(***************************************************************************)
EXTENDS Naturals, Sequences, FiniteSets

CONSTANTS Thread,
          Future,
          Kind,     \* which traits each future has, see Kinds
          Parents,  \* the futures each continuation is added to, in that order
          IsVoid,   \* value type of all of them is void
          Null, Invoked  \* null and FuturePackedData::ContinuationInvoked

Kinds == {"promise", "then", "share", "copy", "token", "whenAll", "whenAny"}

(* A continuation is no control value of the packed word.                   *)
ASSUME FutureAssumption ==
  IsFiniteSet(Future) /\ Null \notin Future /\ Invoked \notin Future /\ Null # Invoked

(* Each kind has the parents its function takes: only a promise has none,   *)
(* WhenAll and WhenAny take a list of different futures, and Share is a     *)
(* method of Future, not of SharedFuture.                                   *)
ASSUME KindAssumption ==
  /\ IsVoid \in BOOLEAN
  /\ Kind \in [Future -> Kinds] /\ Parents \in [Future -> Seq(Future)]
  /\ \A c \in Future :
       /\ Kind[c] = "promise" => Parents[c] = <<>>
       /\ Kind[c] \in {"then", "share", "copy", "token"} => Len(Parents[c]) = 1
       /\ \A i, j \in DOMAIN Parents[c] : Parents[c][i] = Parents[c][j] => i = j
       /\ Kind[c] = "share" => Kind[Parents[c][1]] \notin {"share", "token"}

VARIABLES
  state,       \* FutureState of the packed word
  head,        \* continuation of the packed word
  link,        \* m_link
  hasError,    \* m_error is set
  hasValue,    \* the value was constructed
  completed,   \* WhenAllFutureTask::CompleteCount
  created,     \* continuations that were asked for
  callbacks,   \* FutureCallbacks an executor holds
  awaited,     \* futures whose task returned a future that is not done yet
  tried,       \* <<t, p>>: thread t has tried to complete promise p
  abandoned,   \* promises whose last reference is gone
  delivered,   \* [edge -> times TryPostInternal ran for it], history
  stack, crashed

word == <<state, head>>
data == <<link, hasError, hasValue, completed>>
clients == <<created, callbacks, awaited, tried, abandoned>>
vars == <<word, data, clients, delivered, stack, crashed>>

IsShared(f) == Kind[f] \in {"share", "token"}
IsMultiPost(f) == Kind[f] \in {"whenAll", "whenAny"}
HasTaskInvoke(f) == Kind[f] \notin {"promise", "share"}
IsVoidValue(f) == Kind[f] = "share" \/ (IsVoid /\ Kind[f] # "token")

Edge == UNION {{<<Parents[c][i], c>> : i \in DOMAIN Parents[c]} : c \in Future}
Done == {"Succeeded", "Failed"}
IsDone(f) == state[f] \in Done

Init ==
  /\ state = [f \in Future |-> "Pending"]
  /\ head = [f \in Future |-> Null] /\ link = [f \in Future |-> Null]
  /\ hasError = [f \in Future |-> FALSE] /\ hasValue = [f \in Future |-> FALSE]
  /\ completed = [f \in Future |-> 0]
  /\ created = {} /\ callbacks = {} /\ awaited = {} /\ tried = {} /\ abandoned = {}
  /\ delivered = [e \in Edge |-> 0]
  /\ stack = [t \in Thread |-> <<>>] /\ crashed = FALSE

-----------------------------------------------------------------------------
(* Calls.  "crash" is crashIfFailed, "sync" is IsSynchronousCall.           *)

Call(op, f, crash, sync) == [op |-> op, f |-> f, crash |-> crash, sync |-> sync]
ListCall(op, p, c) == [op |-> op, f |-> c, parent |-> p]

(* IFuture::SetValue and TrySetValue: a void future succeeds at once.       *)
SetValue(f, crash, sync) ==
  Call(IF IsVoidValue(f) THEN "TrySetSuccess" ELSE "TryStartSetValue", f, crash, sync)

(* The innermost call of t is replaced by the calls it makes.               *)
Continue(t, calls) == stack' = [stack EXCEPT ![t] = calls \o Tail(@)]
Return(t) == Continue(t, <<>>)
Crash == crashed' = TRUE /\ UNCHANGED <<word, data, clients, delivered, stack>>

(* UnexpectedState: crash, or give up and change nothing.                   *)
Unexpected(t, crash) ==
  IF crash THEN Crash
  ELSE Return(t) /\ UNCHANGED <<word, data, clients, delivered, crashed>>

Top(t, op) == stack[t] # <<>> /\ Head(stack[t]).op = op

(* The list of continuations is taken out of the word.                      *)
TakeContinuations(t, f) ==
  /\ head' = [head EXCEPT ![f] = IF @ = Null THEN Null ELSE Invoked]
  /\ Continue(t, IF head[f] = Null THEN <<>> ELSE <<ListCall("PostContinuation", f, head[f])>>)

-----------------------------------------------------------------------------
(* FutureImpl *)

(* Can a second continuation join the ones of p?                            *)
MayJoin(p, c) == head[p] = Null \/ IsShared(p) \/ Kind[c] = "share"

(* Mutant: the continuation is listed although the parent is done by now.   *)
AddContinuationIgnoresDone(t) ==
  /\ Top(t, "AddContinuation")
  /\ LET p == Head(stack[t]).parent
         c == Head(stack[t]).f
     IN  /\ MayJoin(p, c)
         /\ head' = [head EXCEPT ![p] = c]
         /\ link' = [link EXCEPT ![c] = IF head[p] = Invoked THEN Null ELSE head[p]]
  /\ Return(t)
  /\ UNCHANGED <<state, hasError, hasValue, completed, clients, delivered, crashed>>

AddContinuation(t) ==
  /\ Top(t, "AddContinuation")
  /\ LET p == Head(stack[t]).parent
         c == Head(stack[t]).f
     IN  IF ~MayJoin(p, c) THEN Crash
         ELSE /\ IF IsDone(p)
                 THEN /\ head' = [head EXCEPT ![p] = Invoked]
                      /\ link' = [link EXCEPT ![c] = Null]
                      /\ Continue(t, <<ListCall("PostContinuation", p, c)>>)
                 ELSE /\ head' = [head EXCEPT ![p] = c]
                      /\ link' = [link EXCEPT ![c] = head[p]]
                      /\ Return(t)
              /\ UNCHANGED <<state, hasError, hasValue, completed, clients, delivered, crashed>>

(* TryPostInternal for MultiPost: the task of WhenAll or WhenAny runs       *)
(* inline, once per parent, and takes the parent's error.                   *)
MultiPost(t, p, w) ==
  LET count == completed[w] + (IF Kind[w] = "whenAll" /\ state[p] = "Succeeded" THEN 1 ELSE 0) IN
  /\ completed' = [completed EXCEPT ![w] = count]
  /\ hasError' = [hasError EXCEPT ![p] = FALSE]
  /\ Continue(t,
       IF state[p] = "Failed" THEN <<Call("TryStartSetError", w, FALSE, TRUE)>>
       ELSE IF Kind[w] = "whenAny" THEN <<SetValue(w, FALSE, TRUE)>>
       ELSE IF count = Len(Parents[w]) THEN <<SetValue(w, TRUE, TRUE)>>
       ELSE <<>>)
  /\ UNCHANGED <<word, link, hasValue, clients>>

(* TryPostInternal otherwise: c starts with its parent's result, and its    *)
(* task goes to an executor, which may run it inline, or runs inline.       *)
PostOne(t, p, c) ==
  LET next == IF link[c] = Null THEN <<>> ELSE <<ListCall("PostContinuation", p, link[c])>>
      invoke == <<Call("Invoke", c, TRUE, TRUE)>>
      setPosted == <<Call("TrySetPosted", c, TRUE, TRUE)>>
  IN
  /\ state' = [state EXCEPT ![c] = "Posting"]
  /\ link' = [link EXCEPT ![c] = IF state[p] = "Succeeded" THEN p ELSE Null]
  /\ hasError' = [hasError EXCEPT ![c] = state[p] = "Failed" /\ hasError[p]]
  /\ \/ Kind[c] # "then" /\ Continue(t, invoke \o next) /\ UNCHANGED callbacks
     \/ Kind[c] = "then" /\ Continue(t, invoke \o setPosted \o next) /\ UNCHANGED callbacks
     \/ Kind[c] = "then" /\ Continue(t, setPosted \o next) /\ callbacks' = callbacks \cup {c}
  /\ UNCHANGED <<head, hasValue, completed, created, awaited, tried, abandoned>>

PostContinuation(t) ==
  /\ Top(t, "PostContinuation")
  /\ LET p == Head(stack[t]).parent
         c == Head(stack[t]).f
     IN  IF IsMultiPost(c) \/ state[c] = "Pending"
         THEN /\ IF IsMultiPost(c) THEN MultiPost(t, p, c) ELSE PostOne(t, p, c)
              /\ delivered' = [delivered EXCEPT ![<<p, c>>] = @ + 1]
              /\ UNCHANGED crashed
         ELSE Unexpected(t, link[c] # Null)

TrySetPosted(t) ==
  /\ Top(t, "TrySetPosted")
  /\ LET f == Head(stack[t]).f IN
     state' = [state EXCEPT ![f] = IF @ = "Posting" THEN "Posted" ELSE @]
  /\ Return(t)
  /\ UNCHANGED <<head, data, clients, delivered, crashed>>

(* Invoke up to the task: TrySetInvoking waits while another thread is      *)
(* posting the future.                                                      *)
Invoke(t) ==
  /\ Top(t, "Invoke")
  /\ LET f == Head(stack[t]).f
         sync == Head(stack[t]).sync
     IN  /\ state[f] = "Posting" => sync
         /\ IF state[f] \in {"Posting", "Posted"}
            THEN /\ state' = [state EXCEPT ![f] = "Invoking"]
                 /\ Continue(t, <<Call("Task", f, TRUE, TRUE)>>)
                 /\ UNCHANGED <<head, data, clients, delivered, crashed>>
            ELSE Unexpected(t, sync)

(* GetValue: a shared future reads its parent's.                            *)
IsReadable(f) ==
  LET g == IF Kind[f] = "share" THEN link[f] ELSE f IN
  f # Null /\ state[f] = "Succeeded" /\ g # Null /\ (IsVoid \/ hasValue[g])

(* Mutant: the catch callback of a copy is missing.                         *)
TaskResultsSwallowError(f) ==
  IF Kind[f] = "then" THEN {"value", "error", "future"} ELSE {"value"}

(* What a task asks for: a user's lambda returns a value, an error or a     *)
(* future; the library's own tasks copy the parent's result.                *)
TaskResults(f) ==
  CASE Kind[f] = "then"  -> {"value", "error", "future"}
    [] Kind[f] = "token" -> {"value"}
    [] OTHER -> IF hasError[f] THEN {"error"} ELSE {"value"}

(* TaskInvoke reads the parent's value, TaskCatch takes m_error.            *)
Task(t) ==
  /\ Top(t, "Task")
  /\ LET f == Head(stack[t]).f IN
     IF ~hasError[f] /\ ~IsReadable(link[f]) THEN Crash
     ELSE /\ hasError' = [hasError EXCEPT ![f] = FALSE]
          /\ \E result \in TaskResults(f) :
               /\ Continue(t, CASE result = "value" -> <<SetValue(f, TRUE, TRUE)>>
                                [] result = "error" -> <<Call("TryStartSetError", f, TRUE, TRUE)>>
                                [] OTHER -> <<>>)
               /\ IF result = "future"   \* StartAwaiting
                  THEN state' = [state EXCEPT ![f] = "Awaiting"] /\ awaited' = awaited \cup {f}
                  ELSE UNCHANGED <<state, awaited>>
          /\ UNCHANGED <<head, link, hasValue, completed, created, callbacks, tried,
                         abandoned, delivered, crashed>>

MayStartSetValue(f, sync) ==
  \/ state[f] = "Pending" /\ (IsMultiPost(f) \/ ~HasTaskInvoke(f))
  \/ state[f] = "Invoking" /\ sync
  \/ state[f] = "Awaiting"

(* TryStartSetValue, the construction of the value, and the TrySetSuccess   *)
(* that follows, which must not fail.                                       *)
TryStartSetValue(t) ==
  /\ Top(t, "TryStartSetValue")
  /\ LET f == Head(stack[t]).f IN
     IF MayStartSetValue(f, Head(stack[t]).sync)
     THEN /\ state' = [state EXCEPT ![f] = "SettingResult"]
          /\ hasValue' = [hasValue EXCEPT ![f] = TRUE]
          /\ Continue(t, <<Call("TrySetSuccess", f, TRUE, Head(stack[t]).sync)>>)
          /\ UNCHANGED <<head, link, hasError, completed, clients, delivered, crashed>>
     ELSE Unexpected(t, Head(stack[t]).crash)

MaySucceed(f, sync) ==
  \/ state[f] = "Pending" /\ IsVoidValue(f)
     /\ (IsMultiPost(f) \/ (~HasTaskInvoke(f) /\ Kind[f] # "share"))
  \/ state[f] = "Posting" /\ sync /\ Kind[f] = "share"
  \/ state[f] = "Invoking" /\ sync /\ IsVoidValue(f)
  \/ state[f] = "Awaiting" /\ IsVoidValue(f)
  \/ state[f] = "SettingResult"

(* Mutant: a shared future gives up its parent, whose value it reads.       *)
TrySetSuccessReleasesParent(t) ==
  /\ Top(t, "TrySetSuccess")
  /\ LET f == Head(stack[t]).f IN
     IF MaySucceed(f, Head(stack[t]).sync)
     THEN /\ state' = [state EXCEPT ![f] = "Succeeded"]
          /\ link' = [link EXCEPT ![f] = Null]
          /\ TakeContinuations(t, f)
          /\ UNCHANGED <<hasError, hasValue, completed, clients, delivered, crashed>>
     ELSE Unexpected(t, Head(stack[t]).crash)

TrySetSuccess(t) ==
  /\ Top(t, "TrySetSuccess")
  /\ LET f == Head(stack[t]).f IN
     IF MaySucceed(f, Head(stack[t]).sync)
     THEN IF head[f] = Invoked THEN Crash
          ELSE /\ state' = [state EXCEPT ![f] = "Succeeded"]
               /\ link' = [link EXCEPT ![f] = IF Kind[f] = "share" THEN @ ELSE Null]
               /\ hasError' = [hasError EXCEPT ![f] = FALSE]
               /\ TakeContinuations(t, f)
               /\ UNCHANGED <<hasValue, completed, clients, delivered, crashed>>
     ELSE Unexpected(t, Head(stack[t]).crash)

(* Mutant: an error is accepted while another result is being set.          *)
MayFailTwice(f, sync) == state[f] \notin Done /\ (state[f] = "Invoking" => sync)

MayFail(f, sync) ==
  \/ state[f] = "Pending" /\ link[f] = Null
  \/ state[f] \in {"Posting", "Posted", "Awaiting"}
  \/ state[f] = "Invoking" /\ sync

(* An asynchronous TrySetError waits while the future is being posted.      *)
TryStartSetError(t) ==
  /\ Top(t, "TryStartSetError")
  /\ LET f == Head(stack[t]).f
         sync == Head(stack[t]).sync
     IN  /\ state[f] = "Posting" => sync
         /\ IF MayFail(f, sync)
            THEN /\ state' = [state EXCEPT ![f] = "SettingResult"]
                 /\ Continue(t, <<Call("SetFailed", f, TRUE, sync)>>)
                 /\ UNCHANGED <<head, data, clients, delivered, crashed>>
            ELSE Unexpected(t, Head(stack[t]).crash)

SetFailed(t) ==
  /\ Top(t, "SetFailed")
  /\ LET f == Head(stack[t]).f IN
     IF state[f] # "SettingResult" \/ head[f] = Invoked THEN Crash
     ELSE /\ state' = [state EXCEPT ![f] = "Failed"]
          /\ hasError' = [hasError EXCEPT ![f] = TRUE]
          /\ link' = [link EXCEPT ![f] = Null]
          /\ TakeContinuations(t, f)
          /\ UNCHANGED <<hasValue, completed, clients, delivered, crashed>>

-----------------------------------------------------------------------------
(* Callers.  A thread makes a new call when it has nothing left to do.      *)

Start(t, calls) == stack[t] = <<>> /\ stack' = [stack EXCEPT ![t] = calls]

(* A future that is not shared belongs to one caller, who continues it once *)
(* and may Share() it after that.                                           *)
MayContinue(p, c) ==
  /\ p \notin abandoned /\ (Kind[p] # "promise" => p \in created)
  /\ IsShared(p) \/ \A e \in Edge : e[1] = p /\ e[2] \in created =>
       /\ Kind[c] = "share"
       /\ \A t \in Thread : \A i \in DOMAIN stack[t] : stack[t][i] # ListCall("AddContinuation", p, e[2])

(* Then, Catch, Share, WhenAll, WhenAny, the copies of a shared future, the *)
(* token of a token source: one AddContinuation per parent.                 *)
Create(t, c) ==
  /\ c \notin created /\ Parents[c] # <<>>
  /\ \A i \in DOMAIN Parents[c] : MayContinue(Parents[c][i], c)
  /\ Start(t, [i \in DOMAIN Parents[c] |-> ListCall("AddContinuation", Parents[c][i], c)])
  /\ created' = created \cup {c}
  /\ UNCHANGED <<word, data, callbacks, awaited, tried, abandoned, delivered, crashed>>

(* Promise::TrySetValue, TrySetError, TryCancel, and a token source's       *)
(* Cancel and Abandon.                                                      *)
TryComplete(t, p) ==
  /\ Kind[p] = "promise" /\ <<t, p>> \notin tried /\ p \notin abandoned
  /\ \/ Start(t, <<SetValue(p, FALSE, FALSE)>>)
     \/ Start(t, <<Call("TryStartSetError", p, FALSE, FALSE)>>)
  /\ tried' = tried \cup {<<t, p>>}
  /\ UNCHANGED <<word, data, created, callbacks, awaited, abandoned, delivered, crashed>>

(* ~FutureImpl of a promise nobody completed: its continuations are         *)
(* canceled.                                                                *)
Abandon(t, p) ==
  /\ Kind[p] = "promise" /\ p \notin abandoned /\ ~IsDone(p)
  /\ \A u \in Thread : \A i \in DOMAIN stack[u] :
       stack[u][i].f # p /\ ("parent" \in DOMAIN stack[u][i] => stack[u][i].parent # p)
  /\ abandoned' = abandoned \cup {p}
  /\ Start(t, IF head[p] \in {Null, Invoked} THEN <<>>
              ELSE <<Call("TryStartSetError", p, TRUE, FALSE)>>)
  /\ UNCHANGED <<word, data, created, callbacks, awaited, tried, delivered, crashed>>

(* Mutant: a callback that is dropped uncalled does not cancel its future.  *)
RunCallbackOrDrop(t, f) ==
  /\ f \in callbacks /\ callbacks' = callbacks \ {f}
  /\ Start(t, <<>>) \/ Start(t, <<Call("Invoke", f, FALSE, FALSE)>>)
  /\ UNCHANGED <<word, data, created, awaited, tried, abandoned, delivered, crashed>>

(* An executor runs a FutureCallback, or cancels it or drops it uncalled.   *)
RunCallback(t, f) ==
  /\ f \in callbacks /\ callbacks' = callbacks \ {f}
  /\ \/ Start(t, <<Call("Invoke", f, FALSE, FALSE)>>)
     \/ Start(t, <<Call("TryStartSetError", f, FALSE, FALSE)>>)
  /\ UNCHANGED <<word, data, created, awaited, tried, abandoned, delivered, crashed>>

(* The future a task returned completes: FutureCompletionTask hands its     *)
(* result over.                                                             *)
CompleteAwaited(t, f) ==
  /\ f \in awaited /\ awaited' = awaited \ {f}
  /\ \/ Start(t, <<SetValue(f, FALSE, FALSE)>>)
     \/ Start(t, <<Call("TryStartSetError", f, FALSE, FALSE)>>)
  /\ UNCHANGED <<word, data, created, callbacks, tried, abandoned, delivered, crashed>>

Step(t) ==
  \/ AddContinuation(t) \/ PostContinuation(t) \/ TrySetPosted(t) \/ Invoke(t) \/ Task(t)
  \/ TryStartSetValue(t) \/ TrySetSuccess(t) \/ TryStartSetError(t) \/ SetFailed(t)

Next ==
  /\ ~crashed
  /\ \E t \in Thread :
       \/ Step(t)
       \/ \E f \in Future :
            \/ Create(t, f) \/ TryComplete(t, f) \/ Abandon(t, f)
            \/ RunCallback(t, f) \/ CompleteAwaited(t, f)

Spec == Init /\ [][Next]_vars

(* Running threads run, executors run or cancel what they hold, and the     *)
(* futures tasks return complete.  Nobody has to complete a promise.        *)
FairSpec ==
  /\ Spec
  /\ \A t \in Thread : WF_vars(Step(t))
  /\ \A f \in Future : /\ WF_vars(\E t \in Thread : RunCallback(t, f))
                       /\ WF_vars(\E t \in Thread : CompleteAwaited(t, f))

-----------------------------------------------------------------------------
(* Properties *)

TypeOK ==
  /\ state \in [Future -> Done \cup {"Pending", "Posting", "Posted", "Invoking", "Awaiting",
                                      "SettingResult"}]
  /\ head \in [Future -> Future \cup {Null, Invoked}]
  /\ link \in [Future -> Future \cup {Null}]
  /\ hasError \in [Future -> BOOLEAN] /\ hasValue \in [Future -> BOOLEAN]
  /\ completed \in [Future -> 0..Cardinality(Future)]
  /\ created \cup callbacks \cup awaited \cup abandoned \subseteq Future
  /\ delivered \in [Edge -> Nat] /\ crashed \in BOOLEAN

(* No VerifyElseCrash of the future code fails as long as callers only use  *)
(* the Try methods: they return false when someone else was first.          *)
TryMethodsDoNotCrash == ~crashed

(* c can be reached from h: a link leads out of every set with h and        *)
(* without c.                                                               *)
Reaches(next, h, c) ==
  h \in Future /\ \A S \in SUBSET (Future \ {c}) : h \in S => \E x \in S : next[x] \in Future \ S

(* How often c is in the list that starts at h: twice if the list is a ring.*)
Listed(c, h) ==
  IF ~Reaches(link, h, c) THEN 0 ELSE IF Reaches(link, link[c], c) THEN 2 ELSE 1

PendingCalls(op, e) ==
  UNION {{<<t, i>> : i \in {j \in DOMAIN stack[t] :
            stack[t][j].op = op /\ stack[t][j].parent = e[1]
            /\ (IF op = "PostContinuation" THEN Listed(e[2], stack[t][j].f) = 1
                ELSE stack[t][j].f = e[2])}} : t \in Thread}

(* A continuation is never lost and never run twice: from the call of       *)
(* AddContinuation on it is in exactly one place, still to be added, in its *)
(* parent's list, in a list a thread is posting, or posted.                 *)
ContinuationIsSomewhere ==
  \A e \in Edge : e[2] \in created /\ ~crashed =>
    Cardinality(PendingCalls("AddContinuation", e)) + Cardinality(PendingCalls("PostContinuation", e))
      + delivered[e] + (IF IsDone(e[1]) THEN 0 ELSE Listed(e[2], head[e[1]])) = 1

(* A done future reports what its parents did: copies and shared futures    *)
(* have the parent's outcome, WhenAll succeeds only when all did, the       *)
(* outcome of WhenAny is the outcome of one of them.                        *)
OutcomeFollowsParents ==
  \A c \in Future : IsDone(c) /\ Parents[c] # <<>> =>
    LET outcomes == {state[Parents[c][i]] : i \in DOMAIN Parents[c]} IN
    CASE Kind[c] \in {"share", "copy"} -> outcomes = {state[c]}
      [] Kind[c] = "whenAny" -> state[c] \in outcomes
      [] Kind[c] = "whenAll" -> IF state[c] = "Succeeded" THEN outcomes = {"Succeeded"}
                                ELSE "Failed" \in outcomes
      [] OTHER -> TRUE

(* Whoever sees a future succeed can read its value (GetValue), also        *)
(* through a shared future that reads its parent's.                         *)
SucceededIsReadable == \A f \in Future : state[f] = "Succeeded" => IsReadable(f)

(* When all parents of a continuation are done it completes, whatever       *)
(* thread it was posted to and however its callback was canceled.           *)
ContinuationsComplete ==
  \A c \in Future : Parents[c] # <<>> =>
    ((c \in created /\ \A i \in DOMAIN Parents[c] : IsDone(Parents[c][i])) ~> (IsDone(c) \/ crashed))

=============================================================================
