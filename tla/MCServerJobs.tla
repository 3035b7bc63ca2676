------------------------------ MODULE MCServerJobs ------------------------------
EXTENDS ServerJobsSafety

modern == [api |-> "modern", tenant |-> TRUE]
legacy == [api |-> "legacy", tenant |-> FALSE]

MCFocus ==
  {[of |-> f, servers |-> {modern, legacy}, faults |-> 2] :
     f \in {{"progress", "submit"}, {"notice", "submit"},
            {"summary", "submit"}, {"handoff", "createHandoff"}}}
  \cup {[of |-> {"digest", "message"}, servers |-> {modern}, faults |-> 1]}

===================================================================================
