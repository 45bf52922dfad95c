SPECIFICATION FairSpec
CONSTANTS
    NCalls = 4
    Methods <- TextMethods
    NCtx = 3
    PromptLen = 1
    MaxTokens = 1
INVARIANTS TypeOK GeneratesWithLiveModel StreamIsOwn PluginKnowsModel
PROPERTY EveryCallAnswered
