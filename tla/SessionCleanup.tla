---------------------------- MODULE SessionCleanup ----------------------------
(***************************************************************************)
(* The cleanup of recorded sessions (server/session_cleanup.py, run by the *)
(* gateway's _session_cleanup_loop in a thread of its own process) beside  *)
(* the recorders of SessionRecorder, which write to the same directories:  *)
(* nothing keeps the one from the other.                                   *)
(***************************************************************************)
EXTENDS SessionRecorder, SequencesExt, FiniteSetsExt

CONSTANTS
  Limits,      \* max_storage_gb, counted in files
  MaxRounds    \* bound: rounds of the cleanup loop

VARIABLES
  born,        \* directories by created_at, the oldest first
  cl           \* the round under way: see NoRound

allVars == <<vars, born, cl>>

(***************************************************************************)
(* remaining holds what is not deleted, the oldest first, with the sizes   *)
(* read at the beginning; total is what the round believes they sum to.    *)
(***************************************************************************)
NoRound == [at |-> "idle", rounds |-> 0, expired |-> <<>>, remaining |-> <<>>,
            victim |-> <<>>, limit |-> 0, total |-> 0, evicted |-> {}, errors |-> 0]

Size(s) ==
  Cardinality({f \in Files : disk[s].file[f] # Absent})
  + Cardinality({x \in {"meta"} : disk[s].meta # "absent"})
  + Cardinality({x \in {"recording"} : disk[s].saved})

\* get_session_info raises without a meta.json that can be parsed.
Readable(s) == disk[s].there /\ disk[s].meta \in {"live", "ended"}

SizesOf(dirs) == FoldSeq(LAMBDA d, sum : d.size + sum, 0, dirs)

CInit == Init /\ born = <<>> /\ cl = NoRound

\* One round: the directories that can be read, sorted by created_at; the
\* oldest old of them are before the cutoff.
StartRound(old, limit) ==
  LET readable == SelectSeq(born, Readable)
      scanned == [i \in 1 .. Len(readable) |-> [of |-> readable[i], size |-> Size(readable[i])]]
      rest == SubSeq(scanned, old + 1, Len(scanned))
  IN
  /\ cl.at = "idle"
  /\ cl.rounds < MaxRounds
  /\ scanned # <<>>
  /\ old <= Len(scanned)
  /\ cl' = [NoRound EXCEPT !.at = "choose", !.rounds = cl.rounds + 1, !.limit = limit,
                           !.expired = SubSeq(scanned, 1, old),
                           !.remaining = rest, !.total = SizesOf(rest)]
  /\ UNCHANGED <<vars, born>>

\* First the expired directories, one by one.
ChooseExpired ==
  /\ cl.at = "choose"
  /\ cl.expired # <<>>
  /\ cl' = [cl EXCEPT !.at = "unlink", !.victim = <<Head(cl.expired)>>,
                      !.expired = Tail(@)]
  /\ UNCHANGED <<vars, born>>

\* Then the oldest of the rest, while the sum of their sizes is over the limit.
ChooseOldest ==
  /\ cl.at = "choose"
  /\ cl.expired = <<>>
  /\ cl.total > cl.limit
  /\ cl.remaining # <<>>
  /\ cl' = [cl EXCEPT !.at = "unlink", !.victim = <<Head(cl.remaining)>>,
                      !.remaining = Tail(@), !.evicted = @ \cup {Head(cl.remaining)}]
  /\ UNCHANGED <<vars, born>>

Victim == cl.victim[1]

\* shutil.rmtree unlinks the files ...
Unlink ==
  /\ cl.at = "unlink"
  /\ cl' = [cl EXCEPT !.at = "rmdir"]
  /\ disk' = [disk EXCEPT ![Victim.of] = [NoDirectory EXCEPT !.there = TRUE]]
  /\ UNCHANGED <<handler, rec, pending, queue, thread, sent, born>>

Empty(s) == disk[s] = [NoDirectory EXCEPT !.there = TRUE]

\* ... and removes the directory, unless a file has come back.
Rmdir ==
  /\ cl.at = "rmdir"
  /\ IF Empty(Victim.of)
     THEN /\ disk' = [disk EXCEPT ![Victim.of] = NoDirectory]
          /\ cl' = [cl EXCEPT !.at = "choose", !.victim = <<>>,
                              !.total = IF Victim \in cl.evicted THEN @ - Victim.size ELSE @]
     ELSE /\ cl' = [cl EXCEPT !.at = "choose", !.victim = <<>>, !.errors = @ + 1]
          /\ UNCHANGED disk
  /\ UNCHANGED <<handler, rec, pending, queue, thread, sent, born>>

EndRound ==
  /\ cl.at = "choose"
  /\ cl.expired = <<>>
  /\ cl.total <= cl.limit \/ cl.remaining = <<>>
  /\ cl' = [NoRound EXCEPT !.rounds = cl.rounds]
  /\ UNCHANGED <<vars, born>>

\* __init__ writes a new created_at; a meta.json that the flush makes up has none,
\* and the file's own time counts.
Dated(s) ==
  \/ rec'[s].prepares > rec[s].prepares
  \/ disk[s].meta = "absent" /\ disk'[s].meta = "partial"

\* The recorder's steps.
RecorderStep ==
  /\ Next
  /\ UNCHANGED cl
  /\ \E s \in Session :
       IF Dated(s)
       THEN born' = Append(SelectSeq(born, LAMBDA d : d # s), s)
       ELSE \A r \in Session : ~ Dated(r) /\ born' = born

CNext ==
  \/ RecorderStep
  \/ \E old \in 0 .. Cardinality(Session), limit \in Limits : StartRound(old, limit)
  \/ ChooseExpired
  \/ ChooseOldest
  \/ Unlink
  \/ Rmdir
  \/ EndRound

CSpec == CInit /\ [][CNext]_allVars
-----------------------------------------------------------------------------
\* Whatever the cleanup does to a directory while it is written to, audio that is
\* on the disk when the session's flush is over can be found again by a later
\* round: there is a meta.json, because the flush writes one when it is gone, and
\* no write comes after the flush.  It takes a session prepared once: a second
\* prepare drops the list of the writes that the flush would wait for, so that
\* one of them may come after it, into a directory emptied in between.
AudioIsFound ==
  \A s \in Session :
    /\ handler[s] = "closed"
    /\ rec[s].prepares = 1
    /\ Done([kind |-> "flush", of |-> s])
    /\ \E f \in Files : disk[s].file[f] # Absent
    => Readable(s)
=============================================================================
