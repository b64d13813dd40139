------------------------------- MODULE Cassette -------------------------------
(***************************************************************************)
(* The cassette package: a transport that records exchanges while tests    *)
(* run against the live service, a file of one interaction per line, and   *)
(* the transport that replays them offline.  A test process may end in the *)
(* middle of a recording or of the write of the file.                      *)
(*                                                                         *)
(* A request is a canonical form and one of several spellings of it; lines *)
(* of the file and interactions are pairs of a key and a response.         *)
(***************************************************************************)
EXTENDS Integers, Sequences, FiniteSets, SequencesExt

CONSTANTS
    Forms,        \* canonical requests: method, path and canonical body
    Spellings,    \* ways the same body is written
    Responses,    \* what the service may answer
    Workers,      \* goroutines using the transport
    MaxExchanges, \* bound on the exchanges of one session, a natural number
    MaxSessions   \* bound on the times the file is opened, a natural number

VARIABLES
    session,   \* mode, and how many exchanges and sessions there were
    cass,      \* the Cassette: order, byKey and plays
    flight,    \* each worker's exchange with the service, <<>> or a pair
    file,      \* lines on disk, and whether the last one is cut
    log,       \* pairs in the order they were added in this session
    saved,     \* the pairs of the save that wrote the file last
    hits       \* replayed exchanges in this session, by key

cassetteVars == <<session, cass, flight, file, log, saved, hits>>

Request == Forms \X Spellings
None == "none"

(* key: the hash of the method, the path and the canonical body.            *)
KeyAsWritten(r) == r
Key(r) == r[1]

Keys == {Key(r) : r \in Request}
New == [order |-> <<>>, byKey |-> [k \in Keys |-> None],
        plays |-> [k \in Keys |-> 0]]

CassetteInit ==
    /\ session = [mode |-> "closed", exchanges |-> 0, number |-> 0]
    /\ cass = New
    /\ flight = [w \in Workers |-> <<>>]
    /\ file = [lines |-> <<>>, torn |-> FALSE, exists |-> FALSE]
    /\ log = <<>>
    /\ saved = <<>>
    /\ hits = [k \in Keys |-> 0]

(* add: a key seen before keeps its place and takes the new response.       *)
Add(c, k, resp) ==
    [c EXCEPT !.byKey = [@ EXCEPT ![k] = resp],
              !.order = IF c.byKey[k] = None THEN Append(@, k) ELSE @]

(* Save writes the interactions in recording order; Load adds each line.    *)
Lines(c) == [i \in DOMAIN c.order |-> <<c.order[i], c.byKey[c.order[i]]>>]
Load(lines) ==
    LET after[i \in 0..Len(lines)] ==
          IF i = 0 THEN New ELSE Add(after[i - 1], lines[i][1], lines[i][2])
    IN  after[Len(lines)]

Unplayed == {k \in ToSet(cass.order) : cass.plays[k] = 0}

-----------------------------------------------------------------------------
Opened(mode) ==
    session' = [mode |-> mode, exchanges |-> 0, number |-> session.number + 1]

(* NewRecord starts from an empty cassette, whatever the file holds.        *)
NewRecord ==
    /\ session.mode = "closed" /\ session.number < MaxSessions
    /\ Opened("record")
    /\ cass' = New /\ log' = <<>>
    /\ UNCHANGED <<flight, file, saved, hits>>

(* NewReplay loads the file; a missing file or a cut line is an error.      *)
NewReplay ==
    /\ session.mode = "closed" /\ session.number < MaxSessions
    /\ Opened(IF file.exists /\ ~file.torn THEN "replay" ELSE "closed")
    /\ cass' = IF file.exists /\ ~file.torn THEN Load(file.lines) ELSE cass
    /\ hits' = [k \in Keys |-> 0]
    /\ UNCHANGED <<flight, file, log, saved>>

(* A worker's request reaches the service, which answers.                   *)
Exchange(w, r, resp) ==
    /\ session.mode = "record"
    /\ flight[w] = <<>> /\ session.exchanges < MaxExchanges
    /\ flight' = [flight EXCEPT ![w] = <<Key(r), resp>>]
    /\ session' = [session EXCEPT !.exchanges = @ + 1]
    /\ UNCHANGED <<cass, file, log, saved, hits>>

(* The transport has read the answer and adds it, or reading failed.        *)
RecordAnswer(w) ==
    /\ session.mode = "record" /\ flight[w] # <<>>
    /\ flight' = [flight EXCEPT ![w] = <<>>]
    /\ \/ UNCHANGED <<cass, log>>
       \/ /\ cass' = Add(cass, flight[w][1], flight[w][2])
          /\ log' = Append(log, flight[w])
    /\ UNCHANGED <<session, file, saved, hits>>

(* The test's cleanup saves; os.WriteFile truncates, then writes.           *)
BeginSave ==
    /\ session.mode = "record"
    /\ session' = [session EXCEPT !.mode = "saving"]
    /\ flight' = [w \in Workers |-> <<>>]
    /\ file' = [lines |-> <<>>, torn |-> FALSE, exists |-> TRUE]
    /\ saved' = Lines(cass)
    /\ UNCHANGED <<cass, log, hits>>

(* Save returns an error before it writes: the directory cannot be made, or *)
(* an interaction cannot be encoded.                                        *)
FailSave ==
    /\ session.mode = "record"
    /\ session' = [session EXCEPT !.mode = "closed"]
    /\ flight' = [w \in Workers |-> <<>>]
    /\ UNCHANGED <<cass, file, log, saved, hits>>
EndSave ==
    /\ session.mode = "saving"
    /\ session' = [session EXCEPT !.mode = "closed"]
    /\ file' = [file EXCEPT !.lines = Lines(cass)]
    /\ UNCHANGED <<cass, flight, log, saved, hits>>

(* The process ends, or the write does with an error: one under way leaves  *)
(* some of its bytes.                                                       *)
Crash ==
    /\ session.mode \in {"record", "saving"}
    /\ session' = [session EXCEPT !.mode = "closed"]
    /\ flight' = [w \in Workers |-> <<>>]
    /\ IF session.mode = "record" THEN UNCHANGED file
       ELSE \E n \in 0..Len(cass.order), cut \in BOOLEAN :
               /\ cut => n < Len(cass.order)
               /\ file' = [file EXCEPT !.lines = SubSeq(Lines(cass), 1, n),
                                       !.torn = cut]
    /\ UNCHANGED <<cass, log, saved, hits>>

(* replay: a hit is counted and answered, a miss is an error.               *)
Counted(k) == IF cass.byKey[k] = None THEN cass
              ELSE [cass EXCEPT !.plays = [cass.plays EXCEPT ![k] = @ + 1]]
Replay(r) ==
    /\ session.mode = "replay" /\ session.exchanges < MaxExchanges
    /\ session' = [session EXCEPT !.exchanges = @ + 1]
    /\ cass' = Counted(Key(r))
    /\ hits' = [hits EXCEPT ![Key(r)] =
          IF cass.byKey[Key(r)] = None THEN @ ELSE @ + 1]
    /\ UNCHANGED <<flight, file, log, saved>>

(* The test that replays ends.                                              *)
EndReplay ==
    /\ session.mode = "replay"
    /\ session' = [session EXCEPT !.mode = "closed"]
    /\ UNCHANGED <<cass, flight, file, log, saved, hits>>

CassetteNext ==
    \/ NewRecord \/ NewReplay \/ BeginSave \/ FailSave \/ EndSave \/ Crash \/ EndReplay
    \/ \E w \in Workers, r \in Request, resp \in Responses : Exchange(w, r, resp)
    \/ \E w \in Workers : RecordAnswer(w)
    \/ \E r \in Request : Replay(r)

CassetteSpec == CassetteInit /\ [][CassetteNext]_cassetteVars

-----------------------------------------------------------------------------
(* The response the recording session saw last for a request.               *)
LastSeen(r) ==
    LET of == {i \in DOMAIN log : log[i][1] = Key(r)}
    IN IF of = {} THEN None
       ELSE log[CHOOSE i \in of : \A j \in of : j <= i][2]

(* What is recorded is, for every spelling of a request, the last answer    *)
(* that any worker got for it, and nothing else (cassette.go: add replaces).*)
RecordsLast ==
    session.mode \in {"record", "saving"} =>
        \A f \in Forms, s, t \in Spellings :
            /\ cass.byKey[Key(<<f, s>>)] = LastSeen(<<f, t>>)
            /\ IsInjective(cass.order)

(* A replay serves a beginning of what was saved, all of it unless the      *)
(* process died in the write, and in the order it was recorded.             *)
ReplaysSaved ==
    session.mode = "replay" =>
        /\ IsPrefix(Lines(cass), saved)
        /\ \A f \in Forms, s, t \in Spellings :
              cass.byKey[Key(<<f, s>>)] = cass.byKey[Key(<<f, t>>)]

(* Plays counts the exchanges served, and Unplayed is exactly the           *)
(* interactions that no request has met.                                    *)
PlaysCounted ==
    session.mode = "replay" =>
        /\ cass.plays = hits
        /\ \A k \in ToSet(cass.order) : k \in Unplayed <=> hits[k] = 0

(* A cassette holds and replays what was exchanged, across concurrent       *)
(* workers, spellings of a request, crashes and restarts.                   *)
TapeFaithful == RecordsLast /\ ReplaysSaved /\ PlaysCounted
=============================================================================
