SPECIFICATION Spec
CONSTANTS
    NCalls = 3
    Methods <- TextMethods
    NCtx = 3
    PromptLen = 1
    MaxTokens = 1
INVARIANT CallsAreStateless
