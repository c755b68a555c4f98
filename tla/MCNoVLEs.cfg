\* Two translators, four addresses: enough for a translated model with a
\* model before and after it, and a built model on either side.
CONSTANTS
  t1 = t1  t2 = t2  none = none
  Names = {t1, t2}
  NoTrl = none
  NAddr = 4
SPECIFICATION Spec
INVARIANT OriginalsTranslated PlainModelsKept
