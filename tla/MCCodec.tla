------------------------------ MODULE MCCodec -------------------------------
(* Codec over one or two lines built from pieces: a command word (upper   *)
(* or lower case, or none), separators, arguments, one of which ("U") is  *)
(* also a letter of PUT, and every way a line can end.                    *)
EXTENDS Codec

MCUpper == ("p" :> "P") @@ ("u" :> "U") @@ ("t" :> "T")

Words == {<<"P","U","T">>, <<"p","u","t">>, <<"G","E","T">>,
          <<"Q","U","I","T">>, <<>>}
Seps  == {<<SP>>, <<TAB, SP>>, <<>>}
Args  == {<<"U">>, <<"k">>, <<"v", SP, "v">>, <<>>}
Ends  == {<<LF>>, <<CR, LF>>, <<CR, CR, LF>>, <<CR>>, <<>>}
Seconds == {<<>>, <<LF>>, <<"G","E","T", SP, "k", LF>>}

Line(ends) == {w \o s1 \o a \o s2 \o v \o e :
                 w \in Words, s1 \in Seps, a \in Args, s2 \in Seps,
                 v \in Args, e \in ends}

MCBuffers == {l \o t : l \in Line(Ends), t \in Seconds}

(* The same buffers with no line ended by two '\r' before the '\n'. *)
MCBuffersOneCR == {l \o t : l \in Line(Ends \ {<<CR, CR, LF>>}), t \in Seconds}
=============================================================================
