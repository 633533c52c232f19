------------------------- MODULE MCSessionServices -------------------------
(* Runtime on a 4-pixel screen: x = 3 is the edge, x = 2 is off it.  With a *)
(* rearm margin of 0 two samples do everything: push over the edge, and come *)
(* back from the peer or leave the edge.  Clipboard on two machines, two     *)
(* platform pairs, an image with an alternative text with CRLF, a file list  *)
(* and a text no conversion leaves alone.                                    *)
EXTENDS SessionServices

MCThereAndBack == {<<3, 1>>, <<2, -1>>}

CONSTANTS nodeA, nodeB

MCOsPairs ==
    { nodeA :> "windows" @@ nodeB :> "x11", nodeA :> "macos" @@ nodeB :> "macos" }

MCUserClips ==
    { "Png" :> <<"p", "q", "r", "s", "t">> @@ "Utf8Text" :> <<"x", "CR", "LF">>,
      "UriList" :> <<"file1", "LF", "web">>,
      "Utf8Text" :> <<"CR", "CR", "LF">> }

MCSettings ==
    { DefaultSettings, [DefaultSettings EXCEPT !.images = FALSE, !.native = FALSE],
      [DefaultSettings EXCEPT !.direction = "send_only", !.max = 1] }
=============================================================================
