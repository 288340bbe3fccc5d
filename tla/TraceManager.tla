----------------------------- MODULE TraceManager -----------------------------
(***************************************************************************)
(* The analyzer's TraceManager: it finds frame, scene, job and resource    *)
(* records by reading their files forward, and from the start again when   *)
(* it thinks the record lies behind.  The files begin with a header, which *)
(* the constructor reads past and a reset does not.                        *)
(***************************************************************************)
EXTENDS Naturals, SequencesExt, FiniteSetsExt

CONSTANTS
  NoRecord,   (* NULL                                                        *)
  Header      (* the header read as a record of each file                    *)

(* A file of records, read up to pos; nbr counts the records read since    *)
(* the last reset, and last is the record kept by get_frame and get_scene. *)
AtHeader == [pos |-> 0, nbr |-> 0, last |-> NoRecord]   \* mutant: the header is left
AtStart == [pos |-> 1, nbr |-> 0, last |-> NoRecord]

Rewound(at) == [at EXCEPT !.pos = 0, !.nbr = 0]

(* The record at a position: 0 is the header.                              *)
RecordAt(file, pos) == IF pos = 0 THEN Header ELSE file[pos]

(* get_frame, get_scene and get_resource past the kept record: rewind if   *)
(* the record is ahead, then read until nbr is the id or the file ends.    *)
Seek(file, at, id) ==
  LET from == IF at.nbr < id THEN Rewound(at) ELSE at
      pos  == from.pos + (id - from.nbr)
  IN IF from.nbr <= id /\ pos <= Len(file)
     THEN [pos |-> pos + 1, nbr |-> id + 1, last |-> RecordAt(file, pos)]
     ELSE [pos |-> Len(file) + 1, nbr |-> from.nbr + (Len(file) + 1 - from.pos),
           last |-> NoRecord]

(* get_frame and get_scene: the kept record is taken by its own id.        *)
Keeps(at, id) == at.last # NoRecord /\ at.last.id = id

SeekKept(file, at, id) == IF Keeps(at, id) THEN at ELSE Seek(file, at, id)

-----------------------------------------------------------------------------
(* get_job: the jobs of one frame are kept in a table.                     *)
NoJobs == [pos |-> 1, frame |-> 0, jobs |-> {}]

(* The records it reads for a frame: up to the first of a later frame,     *)
(* which it reads too.                                                     *)
LaterFrom(file, pos, f) ==
  {p \in pos .. Len(file) : RecordAt(file, p).frame > f} \cup {Len(file) + 1}

ReadJobs(file, at, f) ==
  LET from == IF at.frame < f THEN 0 ELSE at.pos
      end  == Min(LaterFrom(file, from, f))
  IN [pos   |-> IF end <= Len(file) THEN end + 1 ELSE end,
      frame |-> f,
      jobs  |-> {RecordAt(file, p) : p \in {q \in from .. end - 1 :
                                             RecordAt(file, q).frame = f}}]

(* Mutant of JobTable: the table is kept whatever the frame.               *)
JobTableStale(file, at, f) == IF at.jobs # {} THEN at ELSE ReadJobs(file, at, f)

JobTable(file, at, f) ==
  IF at.jobs # {} /\ at.frame = f THEN at ELSE ReadJobs(file, at, f)

(* assert(jobs.count(id)); a table keeps one job per id.                   *)
HasJob(at, id) == \E j \in at.jobs : j.id = id
=============================================================================
