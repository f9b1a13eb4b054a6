-------------------------- MODULE MCRecordingImport --------------------------
EXTENDS RecordingImport, TLC

CONSTANTS canon, oldA, oldB

MCRuns == {canon, oldA, oldB}

Old(at) == [decoding |-> "rows", at |-> at, segments |-> "rows"]
OldFile == [id |-> 0, decoding |-> "rows"]
OldCSV == [Nothing EXCEPT !.alternate = OldFile]

\* Nothing yet; one run named after its file; two of them, one from before the
\* manifests.
MCStored ==
    {[table |-> [r \in MCRuns |-> None],
      files |-> [r \in MCRuns |-> Nothing],
      lists |-> <<>>, clock |-> 0],
     [table |-> [r \in MCRuns |-> IF r = oldA THEN Old(1) ELSE None],
      files |-> [r \in MCRuns |-> IF r = oldA THEN Whole(OldFile) ELSE Nothing],
      lists |-> <<oldA>>, clock |-> 1],
     [table |-> [r \in MCRuns |-> CASE r = oldA -> Old(1) [] r = oldB -> Old(2) [] OTHER -> None],
      files |-> [r \in MCRuns |-> CASE r = oldA -> OldCSV [] r = oldB -> Whole(OldFile)
                                    [] OTHER -> Nothing],
      lists |-> <<oldB, oldA>>, clock |-> 2]}

\* The threads are alike.
Interchangeable == Permutations(Importers) \cup Permutations(Readers)

=============================================================================
