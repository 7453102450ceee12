------------------------------ MODULE Candles ------------------------------
(***************************************************************************)
(* The candles a model is trained on: scripts/fetch_datasets.py downloads  *)
(* May 2021 page by page into a CSV while scripts/train_ml_model.py loads  *)
(* its own CSV, downloads it, falls back on the other's file or on         *)
(* synthetic candles, trains, and saves the model and then its metadata.   *)
(* Either script may be cut short anywhere and run again.  A candle is its *)
(* minute.                                                                 *)
(***************************************************************************)
EXTENDS Ordered, SequencesExt

CONSTANTS Market,      \* the minutes for which the exchange has a candle
          From, Until, \* [Script -> the first and last minute it asks for]
          PageSize,    \* limit of fetch_ohlcv
          Enough       \* the fewest candles build_features makes a row of

Script == {"fetch", "train"}
Asked(s) == {c \in Market : c >= From[s] /\ c <= Until[s]}

ASSUME CandlesAssumption ==
    /\ Market \subseteq Nat \ {0} /\ IsFiniteSet(Market)
    /\ PageSize \in Nat \ {0} /\ Enough \in Nat \ {0}
    /\ From \in [Script -> Nat] /\ Until \in [Script -> Nat]

NoFile == [kind |-> "none", rows |-> <<>>]

VARIABLES
    at,        \* [Script -> the step it is at]
    since,     \* [Script -> since_ms]
    got,       \* [Script -> all_candles; the rows still to be written; what train trains on]
    source,    \* data_source
    csv,       \* [Script -> the CSV it writes]: kind "none", "blank", "cut" or "whole"
    model,     \* the saved model: the source and the candles it was trained on
    meta       \* the saved metadata: those it tells of

candlesVars == <<at, since, got, source, csv, model, meta>>

Nothing == [source |-> "none", rows |-> <<>>]

CandlesInit ==
    /\ at = [s \in Script |-> "idle"]
    /\ since = [s \in Script |-> From[s]]
    /\ got = [s \in Script |-> <<>>]
    /\ source = "none"
    /\ csv = [s \in Script |-> NoFile]
    /\ model = Nothing /\ meta = Nothing

Goes(s, step) == at' = [at EXCEPT ![s] = step]

\* A script ends, and what its process held is gone.
Ends(s) ==
    /\ Goes(s, "idle")
    /\ since' = [since EXCEPT ![s] = From[s]]
    /\ got' = [got EXCEPT ![s] = <<>>]

-----------------------------------------------------------------------------
(* The download.                                                           *)

StartFetch ==
    /\ at["fetch"] = "idle"
    /\ Goes("fetch", "page")
    /\ UNCHANGED <<since, got, source, csv, model, meta>>

\* What fetch_ohlcv answers: the first candles from since on.
Page(first) ==
    InOrder({c \in Market :
                /\ c >= first
                /\ Cardinality({d \in Market : d >= first /\ d <= c}) <= PageSize})

\* [c for c in all_candles if c[0] <= until_ms]
UpTo(last, all) ==
    LET kept == InOrder({k \in DOMAIN all : all[k] <= last})
    IN  [j \in DOMAIN kept |-> all[kept[j]]]

NextSinceMutant(batch) == Last(batch)
NextSince(batch) == Last(batch) + 1

\* One turn of the loop: an empty answer, a short page or one that reaches the
\* end leaves the loop, and what lies beyond the end is left out.
AskPage(s) ==
    /\ at[s] = "page"
    /\ \E batch \in {<<>>, Page(since[s])} :
          LET all == got[s] \o batch
              done == batch = <<>> \/ Last(batch) >= Until[s] \/ Len(batch) < PageSize
          IN  IF done
              THEN /\ got' = [got EXCEPT ![s] = UpTo(Until[s], all)]
                   /\ Goes(s, "write")
                   /\ UNCHANGED since
              ELSE /\ got' = [got EXCEPT ![s] = all]
                   /\ since' = [since EXCEPT ![s] = NextSince(batch)]
                   /\ UNCHANGED at
    /\ UNCHANGED <<source, csv, model, meta>>

\* A request raises: fetch_datasets ends, the training falls back.
PageFails(s) ==
    /\ at[s] = "page"
    /\ IF s = "train" THEN Goes(s, "fallback") /\ UNCHANGED <<since, got>> ELSE Ends(s)
    /\ UNCHANGED <<source, csv, model, meta>>

\* _write_candles_csv: opening empties the file, its buffer is written when it
\* is full, which may cut a row, and in full when the file is closed.
OpenCsv(s) ==
    /\ at[s] = "write"
    /\ csv' = [csv EXCEPT ![s] = [kind |-> "blank", rows |-> <<>>]]
    /\ Goes(s, "rows")
    /\ UNCHANGED <<since, got, source, model, meta>>

WriteRows(s) ==
    /\ at[s] = "rows"
    /\ \E n \in Len(csv[s].rows)..Len(got[s]), kind \in {"cut", "whole"} :
          /\ n > 0
          /\ csv' = [csv EXCEPT ![s] = [kind |-> kind, rows |-> SubSeq(got[s], 1, n)]]
    /\ UNCHANGED <<at, since, got, source, model, meta>>

CloseCsv(s) ==
    /\ at[s] = "rows"
    /\ csv' = [csv EXCEPT ![s] = [kind |-> "whole", rows |-> got[s]]]
    /\ IF s = "train" THEN Goes(s, "load") /\ UNCHANGED <<since, got>> ELSE Ends(s)
    /\ UNCHANGED <<source, model, meta>>

-----------------------------------------------------------------------------
(* The training.                                                           *)

\* train_and_save: the CSV if there is one, however it came to be.
StartTrain ==
    /\ at["train"] = "idle"
    /\ source' = "train"
    /\ Goes("train", IF csv["train"] # NoFile THEN "load" ELSE "page")
    /\ UNCHANGED <<since, got, csv, model, meta>>

\* load_binance_candles: a file without a header raises, a cut last row raises
\* or passes for a row.  What raises ends the training: only the load of what it
\* has just downloaded is inside a try, and that file is whole.
Load(f) ==
    \/ /\ csv[f].kind # "blank"
       /\ got' = [got EXCEPT !["train"] = csv[f].rows]
       /\ Goes("train", "features")
       /\ UNCHANGED since
    \/ csv[f].kind \in {"blank", "cut"} /\ Ends("train")

LoadPrimary ==
    /\ at["train"] = "load"
    /\ Load("train")
    /\ UNCHANGED <<source, csv, model, meta>>

\* The fallback: the file of the other script, which may be at work on it, or
\* synthetic candles.
Fallback ==
    /\ at["train"] = "fallback"
    /\ \/ csv["fetch"] # NoFile /\ source' = "fetch" /\ Load("fetch")
       \/ /\ csv["fetch"] = NoFile /\ source' = "synthetic"
          /\ got' = [got EXCEPT !["train"] = <<>>]
          /\ Goes("train", "features")
          /\ UNCHANGED since
    /\ UNCHANGED <<csv, model, meta>>

\* build_features makes no row of a short file, and train_and_save raises;
\* else the classifier is fitted, and the model saved, then its metadata.
SaveModel ==
    /\ at["train"] = "features"
    /\ IF source = "synthetic" \/ Len(got["train"]) >= Enough
       THEN /\ model' = [source |-> source, rows |-> got["train"]]
            /\ Goes("train", "meta")
            /\ UNCHANGED <<since, got>>
       ELSE Ends("train") /\ UNCHANGED model
    /\ UNCHANGED <<source, csv, meta>>

SaveMeta ==
    /\ at["train"] = "meta"
    /\ meta' = [source |-> source, rows |-> got["train"]]
    /\ Ends("train")
    /\ UNCHANGED <<source, csv, model>>

\* A script is cut short; what it wrote stays.
Cut(s) ==
    /\ at[s] # "idle"
    /\ Ends(s)
    /\ UNCHANGED <<source, csv, model, meta>>

CandlesNext ==
    \/ StartFetch \/ StartTrain \/ LoadPrimary \/ Fallback \/ SaveModel \/ SaveMeta
    \/ \E s \in Script : \/ AskPage(s) \/ PageFails(s)
                         \/ OpenCsv(s) \/ WriteRows(s) \/ CloseCsv(s) \/ Cut(s)

CandlesSpec == CandlesInit /\ [][CandlesNext]_candlesVars

-----------------------------------------------------------------------------
CandlesTypeOK ==
    /\ at \in [Script -> {"idle", "page", "write", "rows", "load", "fallback", "features", "meta"}]
    /\ since \in [Script -> Nat] /\ got \in [Script -> Seq(Market)]
    /\ source \in Script \cup {"none", "synthetic"}
    /\ csv \in [Script -> [kind : {"none", "blank", "cut", "whole"}, rows : Seq(Market)]]
    /\ {model, meta} \subseteq [source : Script \cup {"none", "synthetic"}, rows : Seq(Market)]

\* Whatever the pages, the fallbacks, the crashes and the other script's
\* writing, a model is trained on the exchange's candles of the range it names,
\* in order and each once, from the first on: what is missing is missing at the
\* end alone.
TrainedOnCandlesInOrder ==
    model.source \in Script =>
        IsPrefix(model.rows, InOrder(Asked(model.source)))
=============================================================================
