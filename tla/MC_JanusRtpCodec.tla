--------------------------- MODULE MC_JanusRtpCodec ---------------------------
(* Extension ids as a browser negotiates them: audio-level 1,              *)
(* rtp-stream-id 3, video-orientation 4, transport-cc 5, playout-delay   *)
(* 6; rtp-stream-id buffers of one to three bytes.  Up to three          *)
(* elements per block, so that a wanted element can follow one of another *)
(* id, a padding byte or a duplicate, or sit behind a terminator.          *)
EXTENDS JanusRtpCodec
=============================================================================
