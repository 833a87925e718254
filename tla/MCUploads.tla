---------------------------- MODULE MCUploads ----------------------------
(* Two uploads of files that end before, at and after every boundary: the   *)
(* chunk's (2, 4), the sample's (3) and the limit (5).                      *)
EXTENDS Uploads, TLC

CONSTANTS u1, u2, k1, k2, a, p, w, Pdf, Webp, OctetStream

MCBytes == {Lead, Cont, Nul, Control, a, p, w}

\* %PDF- is a plain prefix, RIFF....WEBP has a gap.
MCSignatures == (Pdf :> <<p, p>>) @@ (Webp :> <<w, Gap, p>>)

TextFiles ==
    { <<>>, <<a>>, <<a, a>>, <<a, a, a, a, a>>, <<Lead, Cont>>,
      <<a, Lead, Cont>>, <<a, a, Lead, Cont>>, <<Lead, Cont, Lead, Cont>> }
\* Half of the characters must print: in the sample, as a whole, or in both.
ControlFiles ==
    { <<Control>>, <<a, Control>>, <<Control, Lead, Cont>>,
      <<Control, Control, a, a>>, <<a, a, Control, Control, Control>> }
OtherFiles ==
    { <<p, p>>, <<p, p, Nul, Lead>>, <<w, Nul, p>>, <<w, a, p, Cont, a>>,
      <<p, a, p>>, <<w, a>>, <<a, Nul>>, <<a, a, a, Nul>>, <<a, Lead>>,
      <<a, a, a, a, a, a>>, <<p, p, a, a, a, a, a>> }

MCFiles == TextFiles \union ControlFiles \union OtherFiles
=============================================================================
