------------------------------ MODULE AsyncLog ------------------------------
(***************************************************************************)
(* utils/async_logger.h: writers fill a buffer under mutex_, a background  *)
(* thread takes full buffers, or the one in use when none is full, prints  *)
(* them without the mutex and keeps two of them as spares.  A message is   *)
(* its number in the order of the writes; a buffer is a sequence of them.  *)
(***************************************************************************)
EXTENDS Integers, Sequences, SequencesExt, FiniteSets

CONSTANTS
    Capacity,       \* kLargeBufferSize
    Lengths,        \* the lengths of messages, at most kSmallBufferSize
    MaxWrites       \* bound: how many messages are written

ASSUME LogAssumption ==
    /\ Capacity \in Nat \ {0} /\ MaxWrites \in Nat
    /\ Lengths \subseteq 1 .. Capacity - 1

VARIABLES
    count,          \* messages written so far
    current,        \* what current_ holds
    size,           \* current_->size()
    ready,          \* ready_
    held,           \* which of the four buffer pointers are not null
    batch,          \* buffers_to_print
    back,           \* where the background thread is
    stop,           \* stop_flag_
    printed,        \* history: what went to the file
    owed            \* history: messages the destructor found with a quiet back end

asyncLogVars == <<count, current, size, ready, held, batch, back, stop, printed, owed>>

Spares == {"currentAlter", "nextAlter"}

AsyncLogInit ==
    /\ count = 0
    /\ current = <<>> /\ size = 0
    /\ ready = <<>>
    /\ held = {"current", "next"} \cup Spares
    /\ batch = <<>>
    /\ back = "wait"
    /\ stop = FALSE
    /\ printed = <<>>
    /\ owed = 0

(***************************************************************************)
(* write_impl()                                                            *)
(***************************************************************************)
Writing == count < MaxWrites /\ back # "exited"

Fits(len) == Capacity - size > len

WriteFits(len) ==
    /\ Writing /\ Fits(len)
    /\ count' = count + 1
    /\ current' = Append(current, count')
    /\ size' = size + len
    /\ UNCHANGED <<ready, held, batch, back, stop, printed, owed>>

\* Mutant: the new buffer stays in next_ as well.
WriteRollsKeepsNext(len) ==
    /\ Writing /\ ~Fits(len)
    /\ count' = count + 1
    /\ ready' = Append(ready, current)
    /\ current' = <<count'>>
    /\ size' = len
    /\ UNCHANGED <<held, batch, back, stop, printed, owed>>

\* current_ was moved from, so the swap leaves next_ null; a null next_ is
\* allocated before.
WriteRolls(len) ==
    /\ Writing /\ ~Fits(len)
    /\ count' = count + 1
    /\ ready' = Append(ready, current)
    /\ current' = <<count'>>
    /\ size' = len
    /\ held' = held \ {"next"}
    /\ UNCHANGED <<batch, back, stop, printed, owed>>

(***************************************************************************)
(* run_in_background(): wait_for() has no predicate, so it may end at any  *)
(* moment: notified, after three seconds, or for no reason.                *)
(***************************************************************************)
\* Mutant: the spare for next_ is put in on every pass.
AlwaysLendNext(h) == (h \ {"nextAlter"}) \cup {"next"}
\* if (!next_) { next_.swap(next_alter_buf); }
LendNext(h) == IF "next" \in h THEN h ELSE AlwaysLendNext(h)

\* Mutant: only full buffers are printed.
TakeNothing ==
    /\ back = "wait" /\ ready = <<>>
    /\ back' = "print"
    /\ UNCHANGED <<count, current, size, ready, held, batch, stop, printed, owed>>

\* Mutant: after stop the buffer in use is left alone.
TakeCurrentUnlessStopped ==
    /\ back = "wait" /\ ready = <<>>
    /\ back' = "print"
    /\ IF size # 0 /\ ~stop
       THEN /\ batch' = <<current>>
            /\ current' = <<>> /\ size' = 0
            /\ held' = LendNext(held \ {"currentAlter"})
       ELSE held' = LendNext(held) /\ UNCHANGED <<batch, current, size>>
    /\ UNCHANGED <<count, ready, stop, printed, owed>>

TakeCurrent ==
    /\ back = "wait" /\ ready = <<>>
    /\ back' = "print"
    /\ IF size # 0
       THEN /\ batch' = <<current>>
            /\ current' = <<>> /\ size' = 0
            /\ held' = LendNext(held \ {"currentAlter"})
       ELSE held' = LendNext(held) /\ UNCHANGED <<batch, current, size>>
    /\ UNCHANGED <<count, ready, stop, printed, owed>>

TakeReady ==
    /\ back = "wait" /\ ready # <<>>
    /\ back' = "print"
    /\ batch' = ready
    /\ ready' = <<>>
    /\ held' = LendNext(held)
    /\ UNCHANGED <<count, current, size, stop, printed, owed>>

Unprinted == {i \in DOMAIN batch : batch[i] # <<>>}

\* Mutant: the vector is printed from its end.
PrintLastFirst ==
    /\ back = "print"
    /\ \E i \in Unprinted :
          /\ \A j \in Unprinted : j <= i
          /\ printed' = printed \o batch[i]
          /\ batch' = [batch EXCEPT ![i] = <<>>]
    /\ UNCHANGED <<count, current, size, ready, held, back, stop, owed>>

\* file.write() of one buffer, which is cleared and stays in the vector
PrintNext ==
    /\ back = "print"
    /\ \E i \in Unprinted :
          /\ \A j \in Unprinted : i <= j
          /\ printed' = printed \o batch[i]
          /\ batch' = [batch EXCEPT ![i] = <<>>]
    /\ UNCHANGED <<count, current, size, ready, held, back, stop, owed>>

\* The null spares are taken from the end of the vector, where back() of an
\* empty one is undefined; then stop_flag_ is looked at without the mutex.
EndPass ==
    /\ back = "print" /\ Unprinted = {}
    /\ IF Cardinality(Spares \ held) > Len(batch)
       THEN back' = "undefined" /\ UNCHANGED held
       ELSE back' = (IF stop THEN "exited" ELSE "wait") /\ held' = held \cup Spares
    /\ batch' = <<>>
    /\ UNCHANGED <<count, current, size, ready, stop, printed, owed>>

\* ~AsyncLogger() up to its join; "owed" notes what a destructor may count on
\* that finds the background thread waiting and no full buffer.
Destroy ==
    /\ ~stop
    /\ stop' = TRUE
    /\ owed' = IF back = "wait" /\ ready = <<>> THEN count ELSE 0
    /\ UNCHANGED <<count, current, size, ready, held, batch, back, printed>>

(***************************************************************************)
(* The specification.  The background thread is scheduled and its wait     *)
(* ends after three seconds at the latest.                                 *)
(***************************************************************************)
BackStep == TakeCurrent \/ TakeReady \/ PrintNext \/ EndPass

AsyncLogNext ==
    \/ \E len \in Lengths : WriteFits(len) \/ WriteRolls(len)
    \/ BackStep
    \/ Destroy

AsyncLogSpec == AsyncLogInit /\ [][AsyncLogNext]_asyncLogVars

FairAsyncLogSpec == AsyncLogSpec /\ WF_asyncLogVars(BackStep)

(***************************************************************************)
(* Properties.                                                             *)
(***************************************************************************)
AsyncLogTypeOK ==
    /\ count \in 0 .. MaxWrites /\ owed \in 0 .. MaxWrites
    /\ current \in Seq(Nat) /\ size \in 0 .. Capacity - 1
    /\ ready \in Seq(Seq(Nat)) /\ batch \in Seq(Seq(Nat))
    /\ held \subseteq {"current", "next"} \cup Spares
    /\ back \in {"wait", "print", "exited", "undefined"}
    /\ stop \in BOOLEAN
    /\ printed \in Seq(Nat)

\* The four buffers go round: next_ is missing exactly while full buffers wait,
\* so a pass that lends a spare has a buffer to take it back from, and both
\* spares are there when the thread waits.
BuffersGoRound ==
    /\ back # "undefined"
    /\ "next" \in held <=> ready = <<>>
    /\ back # "print" => Spares \subseteq held

\* The logger prints every message once and in the order of the writes,
\* whichever buffers went through the two vectors.
Out == INSTANCE Log WITH written <- [i \in 1 .. count |-> i]
ImplementsLog == Out!LogSpec

\* A destructor that finds the background thread waiting and no full buffer
\* loses nothing that was written before it, whoever goes on writing.
QuietStopLosesNothing == back = "exited" => Len(printed) >= owed

\* A message is printed within the passes that follow, without further writes,
\* unless the logger is destroyed.
MessagePrinted == \A n \in 1 .. MaxWrites : count = n ~> Len(printed) >= n \/ stop
=============================================================================
