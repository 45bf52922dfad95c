--------------------------- MODULE MCNativeBridge ---------------------------
(* The methods that the runs of the Android bridge call.                   *)
EXTENDS NativeBridge

TextMethods == {"loadModel", "generate", "unloadModel", "stopGeneration",
                "getModelInfo", "generateStream", "onListen", "onCancel",
                "getEmbedding", "getEmbeddingDim"}
=============================================================================
