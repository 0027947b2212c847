---------------------------- MODULE MCHyperlinks ----------------------------
(* Hyperlinks on a screen of twelve cells, one row of history. *)
EXTENDS Hyperlinks

MCWords == {<<"h", "t", "t", "p", ":", "/", "/", "a">>, <<"a", "a">>, <<"?", "%", "0">>, <<"0">>,
            <<".">>, <<":">>, <<" ">>}
MCUrls == {<<"u">>}
MCHalves == {{}, {0, 2, 4, 6, 8, 10}, 0..11}
=============================================================================
