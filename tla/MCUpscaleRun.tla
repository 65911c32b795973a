----------------------------- MODULE MCUpscaleRun -----------------------------
(* Model-checking instance of UpscaleRun. *)
EXTENDS UpscaleRun

CONSTANT s1

Payload(api, model, scale, width) ==
  [api |-> api, source |-> s1, model |-> model, scale |-> scale,
   width |-> width, height |-> None]

\* The last two are refused by the API: a target for Real-ESRGAN, and a scale
\* RealBasicVSR does not have.
MCPayloads ==
  {Payload("upscale", "realesrgan-animevideov3", None, None),
   Payload("upscale", "realbasicvsr", 0, None),
   Payload("version", "seedvr2", None, 1792),
   Payload("upscale", "realesrgan-animevideov3", 2, 1792),
   Payload("upscale", "realbasicvsr", None, 1792)}

MCSize == [s \in Sources |-> [width |-> 896, height |-> 448]]
==============================================================================
