----------------------------- MODULE MCUwsHttp -----------------------------
(* UwsHttp for TLC: the shapes a Host header has. *)
EXTENDS UwsHttp

MCHosts == {<<>>, <<"host">>, <<"host", ":", "3001">>, <<"host", ":", "80">>,
            <<":", "3001">>, <<"[", ":", ":", "1", "]", ":", "3001">>,
            <<"[", ":", ":", "1", "]">>}
MCUrls == {"/", "/f/x.js"}
MCTargetPorts == {"0", "3000"}
=============================================================================
