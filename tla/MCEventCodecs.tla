---------------------------- MODULE MCEventCodecs ---------------------------
(* EventCodecs on two ids, two times and eight strings.                    *)
EXTENDS PublishedEvents

MCStrings ==
  {<<"text", s>> : s \in {"SYD", " syd ", "", "Done", "DONE"}}
    \cup {<<"iso", t>> : t \in {8, 9}} \cup {<<"aware", 8>>}

MCNormal ==
  [s \in MCStrings |->
    CASE s = <<"text", " syd ">> -> <<"text", "SYD">>
      [] s = <<"text", "Done">> -> <<"text", "DONE">>
      [] OTHER -> s]

MCBlank == <<"text", "">>

=============================================================================
